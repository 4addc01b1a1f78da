--------------------------- MODULE SequentialProofs ---------------------------
(***************************************************************************)
(* Proofs about the parts that MCSequential runs beside each other: the    *)
(* replay clock, what the fault handlers do with addresses (SlowMemory),   *)
(* with the port of the drives (DriveSwap) and with the instruction        *)
(* itself (FaultHandlers), the ROM and the ratio of the audio clock.  They *)
(* share no variable.                                                      *)
(***************************************************************************)
EXTENDS ReplayClock, SlowMemory, DriveSwap, RomImage, MaiRatio, FaultHandlers,
  SequenceTheorems, FiniteSetTheorems, TLAPS

-----------------------------------------------------------------------------
(***************************************************************************)
(* The replay clock, for every frequency, latency and width: its type,     *)
(* that the latency covers the capture of an event, and that the clock of  *)
(* integers implements the ideal clock.                                    *)
(***************************************************************************)

\* The division of the frequency.
LEMMA DivisionOfFreq ==
  /\ Quotient \in Nat /\ Rest \in 0 .. Rate - 1
  /\ Freq = Rate * Quotient + Rest
BY ClockAssumption DEF ClockAssumption, Quotient, Rest

LEMMA ModulusIsNat == Modulus \in Nat /\ Modulus > 0
BY ClockAssumption DEF ClockAssumption, Modulus

\* Within half the range, the sign of the difference is the right one.
LEMMA SignedIsExact ==
  ASSUME NEW d \in Int, d < Modulus \div 2, -d < Modulus \div 2
  PROVE  Signed(d) >= 0 <=> d >= 0
<1>m. Modulus \in Nat /\ Modulus > 0 BY ModulusIsNat
<1> DEFINE h == Modulus \div 2
<1>h. h \in Nat /\ 2 * h <= Modulus
  BY <1>m
<1> HIDE DEF h
<1>d. d < h /\ -d < h BY DEF h
<1>1. CASE d >= 0
  <2>1. d % Modulus = d
    BY <1>1, <1>m, <1>d, <1>h
  <2>2. Signed(d) = d
    BY <1>1, <1>d, <2>1 DEF Signed, h
  <2> QED BY <1>1, <2>2
<1>2. CASE d < 0
  <2>1. d % Modulus = d + Modulus
    BY <1>2, <1>m, <1>d, <1>h
  <2>2. ~(d + Modulus < h)
    BY <1>m, <1>h, <1>d
  <2>3. Signed(d) = (d % Modulus) - Modulus
    BY <1>m, <1>d, <2>1, <2>2 DEF Signed, h
  <2> QED BY <1>2, <1>m, <2>1, <2>3
<1> QED BY <1>1, <1>2

-----------------------------------------------------------------------------
(* The ideal moments. *)

\* The remainder is exact: no fraction of a tick is ever lost.
Exact == Rate * (tick - origin) + remainder = frames * Freq

\* One frame adds Freq to both sides.
LEMMA AdvanceIsExact ==
  ASSUME ReplayTypeOK, Exact, Advance
  PROVE  Exact' /\ tick' \in Nat /\ tick' >= tick /\ remainder' \in 0 .. Rate - 1
<1>t. tick \in Nat /\ origin \in Nat /\ frames \in Nat /\ remainder \in 0 .. Rate - 1
  BY DEF ReplayTypeOK
<1>f. Freq \in Nat /\ Rate \in Nat /\ Rate > 0 BY ClockAssumption DEF ClockAssumption
<1>q. Quotient \in Nat /\ Rest \in 0 .. Rate - 1 /\ Freq = Rate * Quotient + Rest
  BY DivisionOfFreq
<1> DEFINE c == IF Carries(remainder + Rest) THEN 1 ELSE 0
<1>c. c \in 0 .. 1 /\ remainder' = remainder + Rest - Rate * c /\ remainder' \in 0 .. Rate - 1
  BY <1>t, <1>f, <1>q DEF Advance, Carries
<1>a. tick' = tick + Quotient + c /\ frames' = frames + 1 /\ origin' = origin
  BY DEF Advance
<1> HIDE DEF c
<1>1. (frames + 1) * Freq = frames * Freq + Freq
  BY <1>t, <1>f
<1>2. Rate * (tick + Quotient + c - origin) = Rate * (tick - origin) + Rate * Quotient + Rate * c
  BY <1>t, <1>f, <1>q, <1>c
<1>3. Rate * Quotient \in Nat /\ Rate * c \in Nat /\ Rate * (tick - origin) \in Int /\ frames * Freq \in Nat
  BY <1>t, <1>f, <1>q, <1>c
<1>4. Exact'
  BY <1>a, <1>c, <1>q, <1>t, <1>1, <1>2, <1>3 DEF Exact
<1> QED BY <1>4, <1>a, <1>c, <1>t, <1>q

LEMMA StartIsExact ==
  ASSUME now \in Nat, Started(now)
  PROVE  /\ Exact' /\ tick' \in Nat /\ tick' <= now /\ origin' \in Nat /\ frames' = 0
         /\ remainder' \in 0 .. Rate - 1 /\ origin' = tick'
<1>f. Freq \in Nat /\ Rate \in Nat /\ Rate > 0 /\ Latency \in Nat
  BY ClockAssumption DEF ClockAssumption
<1>1. StartTick(now) \in Nat /\ StartTick(now) <= now
  BY <1>f DEF StartTick
<1>2. tick' = StartTick(now) /\ origin' = StartTick(now) /\ remainder' = 0 /\ frames' = 0
  BY DEF Started
<1>3. Rate * 0 = 0 /\ 0 * Freq = 0
  BY <1>f
<1>4. Exact'
  BY <1>1, <1>2, <1>3 DEF Exact
<1> QED BY <1>1, <1>2, <1>4, <1>f

-----------------------------------------------------------------------------
(* The inductive invariant: with Exact, how far the clock may run ahead of   *)
(* the counter, and how old a stamp may be.                                  *)

Room ==
  /\ now <= MaxNow /\ tick <= MaxNow + Quotient + 1
  /\ at = "drain" => tick + Latency <= now
  /\ at = "output" => tick <= MaxNow

StampIsYoung == stamp # None => stamp <= now /\ now <= stamp + MaxCapture

ClockInv == ReplayTypeOK /\ Exact /\ Room /\ StampIsYoung

\* The comparison of the wait is never deceived by the width of the counter.
LEMMA DueIsExact ==
  ASSUME ReplayTypeOK, Room, Due(now, tick + Latency)
  PROVE  tick + Latency <= now
<1>1. now \in Nat /\ tick \in Nat BY DEF ReplayTypeOK
<1>2. Latency \in Nat /\ MaxLag \in Nat /\ MaxNow \in Nat /\ Quotient \in Nat
      /\ MaxNow + Quotient + 1 + Latency + MaxLag < Modulus \div 2
  BY ClockAssumption, DivisionOfFreq DEF ClockAssumption, Modulus, Quotient
<1>3. now <= MaxNow /\ tick <= MaxNow + Quotient + 1 BY DEF Room
<1> DEFINE d == now - (tick + Latency)
<1>m. Modulus \div 2 \in Int BY ModulusIsNat
<1>4. d \in Int /\ d < Modulus \div 2 /\ -d < Modulus \div 2
  BY <1>1, <1>2, <1>3, <1>m
<1>5. Signed(d) >= 0 <=> d >= 0 BY <1>4, SignedIsExact
<1>6. Signed(d) >= 0 BY DEF Due
<1> QED BY <1>1, <1>2, <1>5, <1>6

LEMMA ClockInvInit == ReplayInit => ClockInv
<1> SUFFICES ASSUME ReplayInit PROVE ClockInv OBVIOUS
<1>f. Freq \in Nat /\ Rate \in Nat /\ Rate > 0 /\ Latency \in Nat /\ MaxNow \in Nat
      /\ Latency < MaxNow
  BY ClockAssumption DEF ClockAssumption
<1>1. now \in Nat /\ now <= Latency + 1 BY <1>f DEF ReplayInit
<1>2. StartTick(now) \in Nat /\ StartTick(now) <= now BY <1>1, <1>f DEF StartTick
<1>3. tick = StartTick(now) /\ origin = tick /\ remainder = 0 /\ frames = 0
      /\ recovering = FALSE /\ at = "check" /\ stamp = None
  BY DEF ReplayInit
<1>4. ReplayTypeOK
  <2>1. recovering \in BOOLEAN BY <1>3
  <2>2. remainder \in 0 .. Rate - 1 BY <1>3, <1>f
  <2>3. stamp \in Nat \cup {None} BY <1>3
  <2> QED BY <1>1, <1>2, <1>3, <2>1, <2>2, <2>3 DEF ReplayTypeOK
<1>5. Exact
  <2>1. Rate * 0 = 0 /\ 0 * Freq = 0 BY <1>f
  <2> QED BY <1>2, <1>3, <2>1 DEF Exact
<1>6. Room BY <1>1, <1>2, <1>3, <1>f, DivisionOfFreq DEF Room
<1>7. StampIsYoung BY <1>3 DEF StampIsYoung
<1> QED BY <1>4, <1>5, <1>6, <1>7 DEF ClockInv

LEMMA ClockInvStep == ClockInv /\ [ReplayNext]_replayVars => ClockInv'
<1> SUFFICES ASSUME ClockInv, [ReplayNext]_replayVars PROVE ClockInv' OBVIOUS
<1>i. ReplayTypeOK /\ Exact /\ Room /\ StampIsYoung BY DEF ClockInv
<1>f. /\ Latency \in Nat /\ MaxNow \in Nat /\ MaxCapture \in Nat /\ Quotient \in Nat
      /\ Freq \in Nat /\ Rate \in Nat /\ Rate > 0
  BY ClockAssumption, DivisionOfFreq DEF ClockAssumption
<1>t. now \in Nat /\ tick \in Nat BY <1>i DEF ReplayTypeOK
<1>1. CASE Check
  BY <1>1, <1>i DEF Check, ClockInv, ReplayTypeOK, Exact, Room, StampIsYoung, tickVars
<1>2. CASE Restore
  <2>1. Started(now) /\ UNCHANGED <<now, stamp>> /\ recovering' = FALSE /\ at' = "wait"
    BY <1>2 DEF Restore
  <2>2. Exact' /\ tick' \in Nat /\ tick' <= now /\ origin' \in Nat /\ frames' = 0
        /\ remainder' \in 0 .. Rate - 1
    BY <2>1, <1>t, StartIsExact
  <2>3. ReplayTypeOK' BY <2>1, <2>2, <1>i DEF ReplayTypeOK
  <2>4. Room' BY <2>1, <2>2, <1>i, <1>f, <1>t DEF Room
  <2>5. StampIsYoung' BY <2>1, <1>i DEF StampIsYoung
  <2> QED BY <2>2, <2>3, <2>4, <2>5 DEF ClockInv
<1>3. CASE RestoreFails
  BY <1>3, <1>i DEF RestoreFails, ClockInv, ReplayTypeOK, Exact, Room, StampIsYoung, tickVars
<1>4. CASE Wait
  <2>1. tick + Latency <= now BY <1>4, <1>i, DueIsExact DEF Wait
  <2> QED BY <1>4, <2>1, <1>i DEF Wait, ClockInv, ReplayTypeOK, Exact, Room, StampIsYoung, tickVars
<1>5. CASE Drain
  <2>1. tick <= MaxNow BY <1>5, <1>i, <1>f, <1>t DEF Drain, Room
  <2> QED BY <1>5, <2>1, <1>i DEF Drain, ClockInv, ReplayTypeOK, Exact, Room, StampIsYoung, tickVars
<1>6. CASE Output
  <2>1. Advance /\ at = "output" /\ at' = "check" /\ UNCHANGED <<now, recovering, stamp>>
    BY <1>6 DEF Output
  <2>2. Exact' /\ tick' \in Nat /\ remainder' \in 0 .. Rate - 1
    BY <2>1, <1>i, AdvanceIsExact
  <2>3. frames' = frames + 1 /\ origin' = origin BY <2>1 DEF Advance
  <2>4. tick' <= tick + Quotient + 1 BY <2>1, <1>t, <1>f DEF Advance
  <2>5. ReplayTypeOK' BY <2>1, <2>2, <2>3, <1>i DEF ReplayTypeOK
  <2>6. Room' BY <2>1, <2>2, <2>4, <1>i, <1>f, <1>t DEF Room
  <2>7. StampIsYoung' BY <2>1, <1>i DEF StampIsYoung
  <2> QED BY <2>2, <2>5, <2>6, <2>7 DEF ClockInv
<1>7. CASE Stamp
  BY <1>7, <1>i, <1>f, <1>t DEF Stamp, ClockInv, ReplayTypeOK, Exact, Room, StampIsYoung, tickVars, None
<1>8. CASE Publish
  BY <1>8, <1>i DEF Publish, ClockInv, ReplayTypeOK, Exact, Room, StampIsYoung, tickVars, None
<1>9. CASE Pass
  <2>1. now' = now + 1 /\ now < MaxNow /\ UNCHANGED <<tickVars, recovering, at, stamp>>
    BY <1>9 DEF Pass
  <2>2. ReplayTypeOK' BY <2>1, <1>i, <1>t DEF ReplayTypeOK, tickVars
  <2>3. Exact' BY <2>1, <1>i DEF Exact, tickVars
  <2>4. Room' BY <2>1, <1>i, <1>t, <1>f DEF Room, tickVars
  <2>5. StampIsYoung'
    <3>1. stamp # None => stamp \in Nat BY <1>i DEF ReplayTypeOK
    <3> QED BY <2>1, <3>1, <1>9, <1>i, <1>t, <1>f DEF StampIsYoung, Pass
  <2> QED BY <2>2, <2>3, <2>4, <2>5 DEF ClockInv
<1>10. CASE UNCHANGED replayVars
  BY <1>10, <1>i DEF replayVars, ClockInv, ReplayTypeOK, Exact, Room, StampIsYoung, tickVars
<1> QED
  BY <1>1, <1>2, <1>3, <1>4, <1>5, <1>6, <1>7, <1>8, <1>9, <1>10 DEF ReplayNext

\* Every reachable state satisfies the inductive invariant.
THEOREM ClockInvAlways == ReplaySpec => []ClockInv
BY ClockInvInit, ClockInvStep, PTL DEF ReplaySpec

\* The remainder stays below Rate and the counters are natural numbers.
THEOREM ClockTypeCorrect == ReplaySpec => []ReplayTypeOK
<1>1. ClockInv => ReplayTypeOK BY DEF ClockInv
<1> QED BY <1>1, ClockInvAlways, PTL

\* paula_replay_due with latency: an event still on its way to the ring is
\* never due in the frame being played.
THEOREM CaptureIsCovered == ReplaySpec => []LatencyCoversCapture
<1>1. ClockInv => LatencyCoversCapture
  <2> SUFFICES ASSUME ClockInv, at = "drain", stamp # None PROVE stamp > tick
    BY DEF LatencyCoversCapture
  <2>1. now \in Nat /\ tick \in Nat /\ stamp \in Nat BY DEF ClockInv, ReplayTypeOK
  <2>2. tick + Latency <= now /\ now <= stamp + MaxCapture BY DEF ClockInv, Room, StampIsYoung
  <2>3. Latency \in Nat /\ MaxCapture \in Nat /\ MaxCapture < Latency
    BY ClockAssumption DEF ClockAssumption
  <2> QED BY <2>1, <2>2, <2>3
<1> QED BY <1>1, ClockInvAlways, PTL

-----------------------------------------------------------------------------
(* The refinement. *)

\* An exact remainder below Rate puts the tick at the ideal moment.
LEMMA ExactIsMoment == ReplayTypeOK /\ Exact => Ideal!IsMoment(tick, origin, frames)
<1> SUFFICES ASSUME ReplayTypeOK, Exact PROVE Ideal!IsMoment(tick, origin, frames) OBVIOUS
<1>1. tick \in Nat /\ origin \in Nat /\ frames \in Nat /\ remainder \in 0 .. Rate - 1
  BY DEF ReplayTypeOK
<1>2. Rate \in Nat /\ Freq \in Nat BY ClockAssumption DEF ClockAssumption
<1> DEFINE a == Rate * (tick - origin)
           b == frames * Freq
<1>3. a \in Int /\ b \in Int BY <1>1, <1>2
<1>4. a + remainder = b BY DEF Exact
<1> HIDE DEF a, b
<1>5. a <= b /\ b < a + Rate BY <1>1, <1>2, <1>3, <1>4
<1> QED BY <1>1, <1>5 DEF Ideal!IsMoment, a, b

\* paula_replay_start and paula_replay_advance implement the ideal clock.
THEOREM ImplementsIdealClock == ReplaySpec => IdealClock
<1>1. ReplayInit => Ideal!Init
  <2> SUFFICES ASSUME ReplayInit PROVE Ideal!Init OBVIOUS
  <2>1. ClockInv BY ClockInvInit
  <2> QED BY <2>1 DEF Ideal!Init, ReplayInit, ClockInv, ReplayTypeOK
<1>m. ClockInv => Ideal!IsMoment(tick, origin, frames)
  BY ExactIsMoment DEF ClockInv
<1>p. (ClockInv => Ideal!IsMoment(tick, origin, frames))'
  BY <1>m, PTL
<1>2. ClockInv /\ ClockInv' /\ [ReplayNext]_replayVars => [Ideal!Start \/ Ideal!Frame]_<<origin, frames, tick>>
  <2> SUFFICES ASSUME ClockInv, ClockInv', [ReplayNext]_replayVars
               PROVE  Ideal!Start \/ Ideal!Frame \/ UNCHANGED <<origin, frames, tick>>
    OBVIOUS
  <2>t. now \in Nat BY DEF ClockInv, ReplayTypeOK
  <2>1. CASE Restore
    <3>1. Started(now) BY <2>1 DEF Restore
    <3> QED BY <3>1, <2>t, StartIsExact DEF Ideal!Start
  <2>2. CASE Output
    <3>1. frames' = frames + 1 /\ origin' = origin BY <2>2 DEF Output, Advance
    <3>2. Ideal!IsMoment(tick, origin, frames)'
      BY <1>p
    <3> QED BY <3>1, <3>2 DEF Ideal!Frame
  <2>3. CASE Check BY <2>3 DEF Check, tickVars
  <2>4. CASE RestoreFails BY <2>4 DEF RestoreFails, tickVars
  <2>5. CASE Wait BY <2>5 DEF Wait, tickVars
  <2>6. CASE Drain BY <2>6 DEF Drain, tickVars
  <2>7. CASE Stamp BY <2>7 DEF Stamp, tickVars
  <2>8. CASE Publish BY <2>8 DEF Publish, tickVars
  <2>9. CASE Pass BY <2>9 DEF Pass, tickVars
  <2>10. CASE UNCHANGED replayVars BY <2>10 DEF replayVars, tickVars
  <2> QED
    BY <2>1, <2>2, <2>3, <2>4, <2>5, <2>6, <2>7, <2>8, <2>9, <2>10 DEF ReplayNext
<1> QED BY <1>1, <1>2, ClockInvAlways, PTL DEF ReplaySpec, IdealClock, Ideal!Spec

\* The replay clock never drifts, and never overtakes an event that is not yet
\* in the ring.
THEOREM ClockAlwaysExact == ReplaySpec => ClockIsExact
BY CaptureIsCovered, ImplementsIdealClock DEF ClockIsExact

-----------------------------------------------------------------------------
(***************************************************************************)
(* For every size of the halves, every set of access sizes and every       *)
(* machine: as long as no access begins in one part of the memory and ends *)
(* in the next, what the program stores arrives in the one cell of the bus *)
(* that its address stands for (Aligned), and each cell that a store       *)
(* reaches is the place of some address of Memory (CellReached).  Memory   *)
(* leaves out what a machine with Gayle loses when it moves memory.        *)
(***************************************************************************)

MemoryInv ==
  /\ machine \in Machines
  /\ mem \in [machine.ram -> Values]
  /\ meant \in [Shown -> Values]
  /\ StoresArrive

LEMMA SizesAre == Half \in Nat \ {0} /\ \A w \in Sizes \union Wide : w \in Nat \ {0}
<1>1. Half \in Nat \ {0} /\ Sizes \subseteq 1 .. Half /\ Wide \subseteq 1 .. Half
  BY SlowAssumption
<1>2. ASSUME NEW w \in Sizes \union Wide PROVE w \in Nat \ {0}
  <2>1. w \in 1 .. Half
    BY <1>1
  <2> QED
    BY <1>1, <2>1
<1> QED
  BY <1>1, <1>2

LEMMA MachineIs ==
  ASSUME machine \in Machines
  PROVE  /\ machine.move \in BOOLEAN /\ machine.block \in BOOLEAN /\ machine.fill \in Values
         /\ machine.ram \subseteq Chip \union Moved \union Slow
         /\ machine.ram \subseteq Nat /\ Shown \subseteq Nat
<1>1. machine.move \in BOOLEAN /\ machine.block \in BOOLEAN /\ machine.fill \in Values
      /\ machine.ram \subseteq Chip \union Moved \union Slow
  BY DEF Machines
<1>2. Chip \union Moved \union Slow \subseteq Nat /\ Window \subseteq Nat
  BY SizesAre DEF Chip, Moved, Slow, Window
<1>3. Shown \subseteq Window
  BY DEF Shown
<1> QED
  BY <1>1, <1>2, <1>3

\* The place of an address that shows memory is a cell of the machine.
LEMMA Placed == \A a \in Shown : Place(a) \in machine.ram
BY DEF Shown

LEMMA MemoryInit == SlowInit => MemoryInv
<1> SUFFICES ASSUME SlowInit PROVE MemoryInv OBVIOUS
<1>1. /\ machine \in Machines
      /\ mem = [a \in machine.ram |-> machine.fill] /\ meant = [a \in Shown |-> machine.fill]
  BY DEF SlowInit
<1>2. Memory \subseteq Shown
  BY DEF Memory
<1>3. StoresArrive
  BY <1>1, <1>2, Placed DEF StoresArrive
<1> QED BY <1>1, <1>3, MachineIs DEF MemoryInv

\* An access that stays in its part reaches an address of memory exactly if it
\* goes to the bus and reaches the place of that address there.
LEMMA Aligned ==
  ASSUME ~Crossing, machine \in Machines, NEW width \in Sizes \union Wide, NEW a \in Accesses(width),
         NEW b \in Memory
  PROVE  /\ (Hidden(a) \/ Blocked(WriteAddress(a))) => b \notin a .. a + width - 1
         /\ ~(Hidden(a) \/ Blocked(WriteAddress(a))) =>
              (b \in a .. a + width - 1 <=>
               Place(b) \in WriteAddress(a) .. WriteAddress(a) + width - 1)
         /\ ~(Hidden(a) \/ Blocked(WriteAddress(a))) /\ b \in a .. a + width - 1 =>
              Place(b) - WriteAddress(a) = b - a
<1>1. PICK part \in {Chip, Moved, Gap, Slow} : a \in part /\ a + width - 1 \in part
  BY DEF Accesses
<1>2. width \in Nat \ {0} /\ Half \in Nat \ {0} /\ b \in Nat
  BY SizesAre, MachineIs DEF Memory
<1>3. Place(b) \in Chip \union Moved \union Slow /\ b \notin Empty /\ b \notin Lost
  BY MachineIs DEF Memory, Shown
<1>4. CASE machine.move
  <2>1. Place(b) = IF b \in Moved THEN b + Offset ELSE b
    BY <1>4 DEF Place
  <2>2. b \in Chip \union Moved /\ (machine.block => b \in Chip)
    BY <1>2, <1>3, <1>4, <2>1 DEF Empty, Lost, Chip, Moved, Slow
  <2>3. WriteAddress(a) = IF a \in Moved THEN a + Offset ELSE a
    BY <1>4 DEF WriteAddress
  <2>4. Hidden(a) <=> a \in Slow
    BY <1>4 DEF Hidden
  <2>5. Blocked(WriteAddress(a)) <=> machine.block /\ a \in Moved \union Slow
    BY <1>1, <1>2, <2>3 DEF Blocked, Chip, Moved, Gap, Slow, Offset
  <2> QED BY <1>1, <1>2, <2>1, <2>2, <2>3, <2>4, <2>5 DEF Chip, Moved, Gap, Slow, Offset
<1>5. CASE ~machine.move
  <2>1. Place(b) = b /\ WriteAddress(a) = a /\ ~Hidden(a)
    BY <1>5 DEF Place, WriteAddress, Hidden
  <2>2. machine.block => b \notin Slow
    BY <1>3 DEF Empty
  <2>3. Blocked(a) <=> machine.block /\ a \in Slow
    BY DEF Blocked
  <2> QED BY <1>1, <1>2, <2>1, <2>2, <2>3 DEF Chip, Moved, Gap, Slow
<1> QED BY <1>4, <1>5

\* A cell that a store reaches is the place of an address of memory.
LEMMA CellReached ==
  ASSUME ~Crossing, machine \in Machines, NEW width \in Sizes \union Wide, NEW a \in Accesses(width),
         ~(Hidden(a) \/ Blocked(WriteAddress(a))),
         NEW c \in machine.ram, c \in WriteAddress(a) .. WriteAddress(a) + width - 1
  PROVE  \E b \in Memory : Place(b) = c
<1>1. PICK part \in {Chip, Moved, Gap, Slow} : a \in part /\ a + width - 1 \in part
  BY DEF Accesses
<1>2. width \in Nat \ {0} /\ Half \in Nat \ {0} /\ c \in Chip \union Moved \union Slow
      /\ c \in Nat
  BY SizesAre, MachineIs
<1>3. CASE machine.move /\ a \in Moved
  <2> DEFINE b == c - Offset
  <2>1. WriteAddress(a) = a + Offset /\ a + width - 1 \in Moved
    BY <1>1, <1>2, <1>3 DEF WriteAddress, Chip, Moved, Gap, Slow
  <2>2. b \in Moved /\ b + Offset = c
    BY <1>2, <1>3, <2>1 DEF Moved, Offset
  <2>3. a + Offset \in Slow
    BY <1>2, <1>3 DEF Moved, Slow, Offset
  <2>4. ~machine.block
    BY <2>1, <2>3 DEF Blocked
  <2>5. Place(b) = c
    BY <1>3, <2>2 DEF Place
  <2>6. b \in Window /\ b \notin Slow
    BY <1>2, <2>2 DEF Moved, Slow, Window
  <2> HIDE DEF b
  <2>7. b \in Memory
    BY <1>3, <2>4, <2>5, <2>6 DEF Memory, Shown, Empty, Lost
  <2> QED
    BY <2>5, <2>7
<1>4. CASE ~(machine.move /\ a \in Moved)
  <2>1. WriteAddress(a) = a
    BY <1>4 DEF WriteAddress
  <2>2. c \in part /\ c \in Window
    BY <1>1, <1>2, <2>1 DEF Chip, Moved, Gap, Slow, Window
  <2>3. (c \in Moved => a \in Moved) /\ (c \in Slow => a \in Slow)
    <3>1. Chip \intersect Slow = {} /\ Chip \intersect Moved = {} /\ Moved \intersect Slow = {}
          /\ Gap \intersect Moved = {} /\ Gap \intersect Slow = {}
      BY <1>2 DEF Chip, Moved, Gap, Slow
    <3>2. CASE part = Chip \/ part = Gap
      BY <2>2, <3>1, <3>2
    <3>3. CASE part = Moved \/ part = Slow
      BY <1>1, <2>2, <3>1, <3>3
    <3> QED
      BY <1>1, <3>2, <3>3
  <2>4. c \notin Empty
    BY <2>1, <2>3 DEF Empty, Hidden, Blocked
  <2>5. c \notin Lost
    BY <1>4, <2>3 DEF Lost
  <2>6. Place(c) = c
    BY <1>4, <2>3 DEF Place
  <2>7. c \in Memory
    BY <2>2, <2>4, <2>5, <2>6 DEF Memory, Shown
  <2> QED
    BY <2>6, <2>7
<1> QED BY <1>3, <1>4

LEMMA MemoryStep == ~Crossing /\ MemoryInv /\ [SlowNext]_slowVars => MemoryInv'
<1> SUFFICES ASSUME ~Crossing, MemoryInv, [SlowNext]_slowVars PROVE MemoryInv' OBVIOUS
<1>1. CASE Store
  <2>0. PICK width \in Sizes \union Wide : \E a \in Accesses(width), v, last \in Values : StoreAt(width, a, v, last)
    BY <1>1 DEF Store
  <2>1. PICK a \in Accesses(width), v \in Values, last \in Values : StoreAt(width, a, v, last)
    BY <2>0
  <2> DEFINE bytes == [k \in 1 .. width |-> IF k = width THEN last ELSE v]
             lost == Hidden(a) \/ Blocked(WriteAddress(a))
             far == WriteAddress(a)
  <2>2. /\ SYSWriteValToAddr(a, bytes) /\ machine' = machine
        /\ meant' = [b \in DOMAIN meant |-> IF b \in a .. a + width - 1 THEN bytes[b - a + 1] ELSE meant[b]]
    BY <2>1 DEF StoreAt
  <2>3. /\ width \in Nat \ {0} /\ a \in Nat /\ far \in Nat
        /\ bytes \in [1 .. width -> Values] /\ Len(bytes) = width
    <3>1. width \in Nat \ {0} /\ Half \in Nat \ {0}
      BY SizesAre
    <3>2. a \in Nat /\ far \in Nat
      BY <3>1 DEF Accesses, Window, WriteAddress, Offset
    <3>3. bytes \in [1 .. width -> Values] /\ bytes \in Seq(Values)
      BY <3>1
    <3> QED BY <3>1, <3>2, <3>3
  <2>4. machine' = machine /\ Memory' = Memory /\ Shown' = Shown
    BY <2>2 DEF Memory, Shown, Lost, Empty, Place
  <2>5. machine \in Machines /\ DOMAIN meant = Shown /\ DOMAIN mem = machine.ram
        /\ Memory \subseteq Shown
    BY DEF MemoryInv, Memory
  <2>6. meant' = [b \in Shown |-> IF b \in a .. a + width - 1 THEN bytes[b - a + 1] ELSE meant[b]]
    BY <2>2, <2>5
  <2>7. mem' = IF lost THEN mem
               ELSE [c \in machine.ram |-> IF c \in far .. far + width - 1 THEN bytes[c - far + 1] ELSE mem[c]]
    BY <2>2, <2>3, <2>5 DEF SYSWriteValToAddr
  <2>8. Shown \subseteq Nat /\ machine.ram \subseteq Nat
    BY <2>5, MachineIs
  <2>9. meant' \in [Shown' -> Values]
    BY <2>3, <2>4, <2>6, <2>8 DEF MemoryInv
  <2>10. mem' \in [machine'.ram -> Values]
    BY <2>3, <2>4, <2>7, <2>8 DEF MemoryInv
  <2>11. ASSUME NEW b \in Memory PROVE mem'[Place(b)] = meant'[b]
    <3>1. mem[Place(b)] = meant[b] /\ Place(b) \in machine.ram /\ b \in Shown
      BY <2>5, Placed DEF MemoryInv, StoresArrive
    <3>2. CASE lost
      BY <3>1, <3>2, <2>5, <2>6, <2>7, Aligned
    <3>3. CASE ~lost /\ b \in a .. a + width - 1
      <4>1. Place(b) \in far .. far + width - 1 /\ Place(b) - far = b - a
        BY <3>3, <2>5, Aligned
      <4> QED BY <3>1, <3>3, <4>1, <2>6, <2>7
    <3>4. CASE ~lost /\ b \notin a .. a + width - 1
      <4>1. Place(b) \notin far .. far + width - 1
        BY <3>4, <2>5, Aligned
      <4> QED BY <3>1, <3>4, <4>1, <2>6, <2>7
    <3> QED BY <3>2, <3>3, <3>4
  <2>12. ASSUME NEW c \in machine.ram, \A b \in Memory : Place(b) # c
         PROVE  mem'[c] = machine.fill
    <3>1. mem[c] = machine.fill
      BY <2>12 DEF MemoryInv, StoresArrive
    <3>2. lost \/ c \notin far .. far + width - 1
      BY <2>5, <2>12, CellReached
    <3> QED
      BY <2>7, <3>1, <3>2
  <2>13. StoresArrive'
    <3>1. \A b : Place(b)' = Place(b)
      BY <2>4 DEF Place
    <3>2. (\A b \in Memory : mem[Place(b)] = meant[b])'
      BY <2>4, <2>11, <3>1
    <3>3. ASSUME NEW c \in machine.ram, c \notin {Place(b)' : b \in Memory'}
          PROVE  mem'[c] = machine.fill
      <4>1. \A b \in Memory : Place(b) # c
        BY <2>4, <3>1, <3>3
      <4> QED
        BY <2>12, <4>1
    <3> QED
      BY <2>4, <3>2, <3>3 DEF StoresArrive
  <2> QED BY <2>4, <2>5, <2>9, <2>10, <2>13 DEF MemoryInv
<1>2. CASE Load \/ WriteOverlay \/ UNCHANGED slowVars
  <2>1. UNCHANGED <<machine, mem, meant>>
    BY <1>2 DEF Load, LoadAt, WriteOverlay, slowVars
  <2> QED
    BY <2>1 DEF MemoryInv, Memory, Shown, Empty, Lost, StoresArrive, Place
<1> QED BY <1>1, <1>2 DEF SlowNext

\* What the program stores arrives at the place of its address and nowhere else
\* (far += 0xB80000 for the trapdoor memory, none of it left at C00000).
THEOREM MovedMemoryIsWhole == ASSUME ~Crossing PROVE SlowSpec => []StoresArrive
<1>1. MemoryInv => StoresArrive
  BY DEF MemoryInv
<1>2. MemoryInv /\ [SlowNext]_slowVars => MemoryInv'
  BY MemoryStep
<1> QED BY <1>1, <1>2, MemoryInit, PTL DEF SlowSpec

\* One byte of a load, as far as it is set.
LEMMA LoadedByte ==
  ASSUME ~Crossing, MemoryInv, NEW width \in Sizes \union Wide, NEW a \in Accesses(width),
         NEW k \in 1 .. width, a + k - 1 \in Memory \union Empty
  PROVE  Answer(a, width)[k] = Seen(a + k - 1)
<1> DEFINE b == a + k - 1
           far == WriteAddress(a)
<1>1. PICK part \in {Chip, Moved, Gap, Slow} : a \in part /\ a + width - 1 \in part
  BY DEF Accesses
<1>2. width \in Nat \ {0} /\ Half \in Nat \ {0} /\ machine \in Machines
  BY SizesAre DEF MemoryInv
<1>3. a \in Nat /\ b \in part /\ b \in a .. a + width - 1
  <2>1. a \in Nat
    BY <1>1, <1>2 DEF Chip, Moved, Gap, Slow
  <2>2. b \in a .. a + width - 1
    BY <1>2, <2>1
  <2> QED
    BY <1>1, <1>2, <2>1, <2>2 DEF Chip, Moved, Gap, Slow
<1>4. (a \in Chip <=> b \in Chip) /\ (a \in Moved <=> b \in Moved) /\ (a \in Slow <=> b \in Slow)
  BY <1>1, <1>2, <1>3 DEF Chip, Moved, Gap, Slow
<1>5. Blocked(a) <=> machine.block /\ b \in Slow
  BY <1>4 DEF Blocked
<1>6. Overlaid(a) <=> overlay /\ b \in Chip
  BY <1>4 DEF Overlaid
<1>7. Hidden(a) <=> machine.move /\ b \in Slow
  BY <1>4 DEF Hidden
<1>8. b \in Empty <=> b \in Slow /\ (machine.move \/ machine.block)
  BY DEF Empty
<1>9. b \in Slow => b \notin Chip
  BY <1>2, <1>3 DEF Chip, Slow
<1>10. CASE Blocked(a)
  BY <1>5, <1>8, <1>9, <1>10 DEF Answer, Seen
<1>11. CASE ~Blocked(a) /\ Overlaid(a)
  BY <1>6, <1>11 DEF Answer, Seen
<1>12. CASE ~Blocked(a) /\ ~Overlaid(a) /\ Hidden(a)
  BY <1>7, <1>8, <1>9, <1>12 DEF Answer, Seen
<1>13. CASE ~Blocked(a) /\ ~Overlaid(a) /\ ~Hidden(a)
  <2>1. b \in Memory /\ b \notin Empty
    BY <1>5, <1>7, <1>8, <1>13
  <2>2. Answer(a, width)[k] = OnBus(far + k - 1)
    BY <1>13 DEF Answer, WriteAddress
  <2>3. ~Blocked(far)
    <3>1. CASE machine.move /\ a \in Moved
      <4>1. ~machine.block
        BY <1>4, <2>1, <3>1 DEF Memory, Lost
      <4> QED
        BY <4>1 DEF Blocked
    <3>2. CASE ~(machine.move /\ a \in Moved)
      BY <1>13, <3>2 DEF WriteAddress
    <3> QED
      BY <3>1, <3>2
  <2>4. far \in Nat
    BY <1>2, <1>3 DEF WriteAddress, Offset
  <2>5. Place(b) - far = b - a /\ Place(b) \in far .. far + width - 1
    BY <1>2, <1>3, <1>13, <2>1, <2>3, Aligned
  <2>6. Place(b) = far + k - 1
    BY <1>2, <1>3, <2>4, <2>5
  <2>7. mem[Place(b)] = meant[b] /\ Place(b) \in DOMAIN mem
    BY <1>2, <2>1, Placed DEF MemoryInv, StoresArrive, Memory
  <2>8. Seen(b) = meant[b]
    BY <1>6, <1>13, <2>1 DEF Seen
  <2> QED BY <2>2, <2>6, <2>7, <2>8 DEF OnBus
<1> QED BY <1>10, <1>11, <1>12, <1>13

LEMMA LoadStep == ~Crossing /\ MemoryInv /\ LoadsSeeStores /\ [SlowNext]_slowVars => LoadsSeeStores'
<1> SUFFICES ASSUME ~Crossing, MemoryInv, LoadsSeeStores, [SlowNext]_slowVars PROVE LoadsSeeStores' OBVIOUS
<1>1. CASE Store \/ WriteOverlay
  BY <1>1 DEF Store, StoreAt, WriteOverlay, LoadsSeeStores
<1>2. CASE Load
  <2>0. PICK wide \in BOOLEAN, width \in Sizes \union Wide : \E a \in Accesses(width) : LoadAt(width, a, wide)
    BY <1>2 DEF Load
  <2>1. PICK a \in Accesses(width) : LoadAt(width, a, wide)
    BY <2>0
  <2>2. PICK bytes \in SYSReadValFromAddr(a, width, wide) : got' = <<a, bytes, wide>>
    BY <2>1 DEF LoadAt
  <2>3. UNCHANGED <<machine, overlay, mem, meant>>
    BY <2>1 DEF LoadAt
  <2>4. /\ DOMAIN bytes = 1 .. width
        /\ \A k \in 1 .. width : k \notin Unset(a, width, wide) => bytes[k] = Answer(a, width)[k]
    BY DEF SYSReadValFromAddr
  <2>5. Len(bytes) = width
    <3>1. width \in Nat
      BY SizesAre
    <3>2. bytes \in Seq({bytes[k] : k \in 1 .. width})
      <4>1. bytes \in [1 .. width -> {bytes[k] : k \in 1 .. width}]
        BY DEF SYSReadValFromAddr
      <4> QED
        BY <3>1, <4>1
    <3> QED
      BY <2>4, <3>1, <3>2
  <2>6. Memory' = Memory /\ Empty' = Empty
    BY <2>3 DEF Memory, Shown, Lost, Empty, Place
  <2>7. got'[1] = a /\ got'[2] = bytes /\ got'[3] = wide
    BY <2>2
  <2>8. Undefined' = Unset(a, width, wide)
    BY <2>3, <2>5, <2>7 DEF Undefined, Unset, Blocked, Overlaid, Hidden
  <2>9. ASSUME NEW k \in DOMAIN got'[2] \ Undefined', Fetched(k)' \in Memory' \union Empty'
        PROVE  got'[2][k] = Seen(Fetched(k))'
    <3>1. k \in 1 .. width /\ k \notin Unset(a, width, wide) /\ a + k - 1 \in Memory \union Empty
      BY <2>4, <2>6, <2>7, <2>8, <2>9 DEF Fetched
    <3>2. bytes[k] = Seen(a + k - 1)
      BY <2>4, <3>1, LoadedByte
    <3>3. Seen(Fetched(k))' = Seen(a + k - 1)
      BY <2>3, <2>7 DEF Seen, Empty, Fetched
    <3> QED BY <2>7, <3>2, <3>3
  <2> QED BY <2>9 DEF LoadsSeeStores
<1>3. CASE UNCHANGED slowVars
  BY <1>3 DEF slowVars, LoadsSeeStores, Memory, Shown, Lost, Place, Empty, Seen, Fetched,
    Undefined, Unset, Blocked, Overlaid, Hidden
<1> QED BY <1>1, <1>2, <1>3 DEF SlowNext

\* What the program loads is what it stored, the ROM, or nothing (the tests of
\* SYSReadValFromAddr, in their order, against those of SYSWriteValToAddr), in all
\* bytes that SYSReadValFromAddr sets and all memory that is not lost.
THEOREM ReadsAgreeWithWrites == ASSUME ~Crossing PROVE SlowSpec => []LoadsSeeStores
<1>1. SlowInit => LoadsSeeStores
  BY DEF SlowInit, LoadsSeeStores
<1>2. MemoryInv /\ [SlowNext]_slowVars => MemoryInv'
  BY MemoryStep
<1>3. MemoryInv /\ LoadsSeeStores /\ [SlowNext]_slowVars => LoadsSeeStores'
  BY LoadStep
<1> QED BY <1>1, <1>2, <1>3, MemoryInit, PTL DEF SlowSpec

\* SYSWriteValToAddr and SYSReadValFromAddr agree on the place of every byte of
\* Memory, on every machine, as long as no access crosses the halves of Chip RAM;
\* Memory is all the program finds, but for the moved memory of a machine with
\* Gayle, whose stores are blocked, and the bytes of 16-byte loads that are never set.
THEOREM MemoryAlwaysWhole == ASSUME ~Crossing PROVE SlowSpec => []MemoryIsWhole
<1>1. StoresArrive /\ LoadsSeeStores => MemoryIsWhole
  BY DEF MemoryIsWhole
<1> QED BY <1>1, MovedMemoryIsWhole, ReadsAgreeWithWrites, PTL

-----------------------------------------------------------------------------
(***************************************************************************)
(* For every set of exchanges that the command line may ask for, the drive *)
(* the program selects is the exchanged one.  The exchange is its own      *)
(* inverse; so what the program reads of the port is what it wrote, and    *)
(* changing bits of it is changing what was meant.                         *)
(***************************************************************************)

DriveInv ==
  /\ swap_df0_with_dfx \in 0 .. 3
  /\ wanted \subseteq Lines
  /\ port = Inverted(wanted)

\* Inverted changes the two select bits only, and exchanges them.
LEMMA InvertedBits ==
  ASSUME swap_df0_with_dfx \in 0 .. 3, NEW value \in SUBSET Lines
  PROVE  /\ Inverted(value) \in SUBSET Lines
         /\ \A d \in Drives : d \in value <=> Exchanged(d) \in Inverted(value)
         /\ Motor \in value <=> Motor \in Inverted(value)
<1>1. CASE swap_df0_with_dfx = 0
  BY <1>1 DEF Inverted, Exchanged, Drives, Lines, Motor
<1>2. CASE swap_df0_with_dfx # 0 /\ ~Differs(value)
  BY <1>2 DEF Inverted, Exchanged, Differs, Drives, Lines, Motor
<1>3. CASE swap_df0_with_dfx # 0 /\ Differs(value)
  <2> DEFINE both == {0, swap_df0_with_dfx}
  <2>1. Inverted(value) = (value \ both) \union (both \ value)
    BY <1>3 DEF Inverted
  <2>2. swap_df0_with_dfx \in Drives /\ 0 \in Drives /\ Motor \notin both
    BY DEF Drives, Motor
  <2>3. Inverted(value) \in SUBSET Lines
    BY <2>1, <2>2 DEF Lines
  <2>4. \A d \in Drives : d \in value <=> Exchanged(d) \in Inverted(value)
    BY <1>3, <2>1, <2>2 DEF Exchanged, Differs
  <2> QED BY <2>1, <2>2, <2>3, <2>4
<1> QED BY <1>1, <1>2, <1>3

\* What the program reads is what it wrote.
LEMMA InvertedTwice ==
  ASSUME swap_df0_with_dfx \in 0 .. 3, NEW value \in SUBSET Lines
  PROVE  Inverted(Inverted(value)) = value
<1>1. CASE swap_df0_with_dfx = 0
  BY <1>1 DEF Inverted
<1>2. CASE swap_df0_with_dfx # 0 /\ ~Differs(value)
  BY <1>2 DEF Inverted
<1>3. CASE swap_df0_with_dfx # 0 /\ Differs(value)
  <2> DEFINE both == {0, swap_df0_with_dfx}
             other == (value \ both) \union (both \ value)
  <2>1. Inverted(value) = other
    BY <1>3 DEF Inverted
  <2>2. Differs(other)
    BY <1>3 DEF Differs
  <2>3. Inverted(other) = (other \ both) \union (both \ other)
    BY <1>3, <2>2 DEF Inverted
  <2>4. (other \ both) \union (both \ other) = value
    OBVIOUS
  <2> QED BY <2>1, <2>3, <2>4
<1> QED BY <1>1, <1>2, <1>3

LEMMA DriveStart == DriveInit => DriveInv
<1> SUFFICES ASSUME DriveInit PROVE DriveInv OBVIOUS
<1>1. Inverted({}) = {}
  BY DEF Inverted, Differs
<1> QED BY <1>1, SwapAssumption DEF DriveInit, DriveInv, Lines

\* A value reaches the port exchanged; swap_df0_with_dfx keeps its value.
LEMMA Written ==
  ASSUME NEW value, value \in SUBSET Lines, DriveInv, WritePRB(value), wanted' = value,
         swap_df0_with_dfx' = swap_df0_with_dfx
  PROVE  DriveInv'
<1>1. Inverted(value)' = Inverted(value) /\ port' = Inverted(value)
  BY DEF WritePRB, Inverted, Differs
<1> QED BY <1>1 DEF DriveInv, Inverted, Differs

LEMMA DriveStep == DriveInv /\ [DriveNext]_driveVars => DriveInv'
<1> SUFFICES ASSUME DriveInv, [DriveNext]_driveVars PROVE DriveInv' OBVIOUS
<1>1. CASE Write
  BY <1>1, Written DEF Write
<1>2. CASE Change
  <2>1. PICK l \in Lines, low \in BOOLEAN :
          LET Changed(value) == IF low THEN value \union {l} ELSE value \ {l} IN
          /\ WritePRB(Changed(ReadPRB)) /\ wanted' = Changed(wanted)
          /\ swap_df0_with_dfx' = swap_df0_with_dfx
    BY <1>2 DEF Change
  <2>2. ReadPRB = wanted
    BY InvertedTwice DEF DriveInv, ReadPRB
  <2> DEFINE changed == IF low THEN wanted \union {l} ELSE wanted \ {l}
  <2>3. changed \in SUBSET Lines
    BY DEF DriveInv
  <2>4. WritePRB(changed) /\ wanted' = changed /\ swap_df0_with_dfx' = swap_df0_with_dfx
    BY <2>1, <2>2
  <2> QED BY <2>3, <2>4, Written
<1>3. CASE ReadPRA \/ DriveAnswers \/ UNCHANGED driveVars
  BY <1>3 DEF ReadPRA, DriveAnswers, driveVars, DriveInv, Inverted, Differs
<1> QED BY <1>1, <1>2, <1>3 DEF DriveNext

\* The program selects the exchanged drive and its own motor line (the handlers
\* of CIABPRB invert both bits on the way out and on the way in).
THEOREM DriveIsExchanged == DriveSpec => []SelectsExchanged
<1>1. DriveInv => SelectsExchanged
  BY InvertedBits DEF DriveInv, SelectsExchanged
<1> QED BY <1>1, DriveStart, DriveStep, PTL DEF DriveSpec

\* The flag is that of the lines the program means.
Told ==
  /\ spoof_df0_id \in BOOLEAN /\ rdy \in BOOLEAN
  /\ swap_df0_with_dfx # 0 => (spoof_df0_id <=> AsksForId(wanted))
  /\ IdIsAnswered

\* After a write of the port nothing is read yet.
LEMMA ToldAgain ==
  ASSUME Told, NEW value, WritePRB(value), wanted' = value, read' = <<>>,
         UNCHANGED <<swap_df0_with_dfx, rdy>>
  PROVE  Told'
<1>1. spoof_df0_id' \in BOOLEAN /\ rdy' \in BOOLEAN
  BY DEF Told, WritePRB, AsksForId
<1>2. swap_df0_with_dfx' # 0 => (spoof_df0_id' <=> AsksForId(wanted)')
  BY DEF WritePRB, AsksForId
<1>3. IdIsAnswered'
  BY DEF IdIsAnswered
<1> QED BY <1>1, <1>2, <1>3 DEF Told

LEMMA ToldStep == DriveInv /\ Told /\ [DriveNext]_driveVars => Told'
<1> SUFFICES ASSUME DriveInv, Told, [DriveNext]_driveVars PROVE Told' OBVIOUS
<1>1. CASE Write
  BY <1>1, ToldAgain DEF Write
<1>2. CASE Change
  <2>1. PICK l \in Lines, low \in BOOLEAN :
          LET Changed(value) == IF low THEN value \union {l} ELSE value \ {l} IN
          /\ WritePRB(Changed(ReadPRB)) /\ wanted' = Changed(wanted)
          /\ read' = <<>> /\ UNCHANGED <<swap_df0_with_dfx, rdy>>
    BY <1>2 DEF Change
  <2>2. ReadPRB = wanted
    BY InvertedTwice DEF DriveInv, ReadPRB
  <2> DEFINE changed == IF low THEN wanted \union {l} ELSE wanted \ {l}
  <2>3. WritePRB(changed) /\ wanted' = changed /\ read' = <<>> /\ UNCHANGED <<swap_df0_with_dfx, rdy>>
    BY <2>1, <2>2
  <2> QED BY <2>3, ToldAgain
<1>3. CASE ReadPRA
  <2>1. /\ read' = <<ReadRdy, rdy>>
        /\ UNCHANGED <<swap_df0_with_dfx, spoof_df0_id, port, wanted, rdy>>
    BY <1>3 DEF ReadPRA
  <2>2. read'[1] = ReadRdy /\ read'[2] = rdy
    BY <2>1
  <2>3. ReadRdy = (rdy \/ (swap_df0_with_dfx # 0 /\ AsksForId(wanted)))
    BY Zenon DEF Told, ReadRdy
  <2>4. IdIsAnswered'
    BY <2>1, <2>2, <2>3, Zenon DEF IdIsAnswered, AsksForId
  <2> QED BY <2>1, <2>4 DEF Told, AsksForId
<1>4. CASE DriveAnswers
  BY <1>4 DEF DriveAnswers, Told, AsksForId, IdIsAnswered
<1>5. CASE UNCHANGED driveVars
  BY <1>5 DEF driveVars, Told, AsksForId, IdIsAnswered
<1> QED BY <1>1, <1>2, <1>3, <1>4, <1>5 DEF DriveNext

\* The drive ID that DF0 lacks is answered for it and for no other drive
\* (spoof_df0_id, taken from the last write to CIABPRB).
THEOREM IdIsRight == DriveSpec => []IdIsAnswered
<1>1. DriveInit => Told
  BY DEF DriveInit, Told, AsksForId, IdIsAnswered
<1>2. Told => IdIsAnswered
  BY DEF Told
<1> QED BY <1>1, <1>2, DriveStart, DriveStep, ToldStep, PTL DEF DriveSpec

\* The exchange on the way to CIABPRB, the one on the way back and the made-up ID
\* agree, whatever the program does to the port.
THEOREM DrivesAlwaysExchanged == DriveSpec => []DrivesAreExchanged
<1>1. SelectsExchanged /\ IdIsAnswered => DrivesAreExchanged
  BY DEF DrivesAreExchanged
<1> QED BY <1>1, DriveIsExchanged, IdIsRight, PTL

-----------------------------------------------------------------------------
(***************************************************************************)
(* The installation of the ROM, for bytes of any width, any contents, all  *)
(* sizes, sources and byte orders.                                         *)
(*                                                                         *)
(* RomIsInstalled speaks of the end only.  Installed says what the windows *)
(* hold and where they are mapped at each stage: a file in its own byte    *)
(* order until TestSwap, which finds the order out because only the last   *)
(* part begins with a jump (UprightIs), and turns round all windows but    *)
(* those PassedOver (RepairedIs).  AddCarry adds modulo LongMod - 1 (AddCarryIs), so the sum *)
(* of three longs is their sum but for at most three times that number.    *)
(***************************************************************************)

Byte == 0 .. Radix - 1
Contents == [Bytes -> Byte]

InputsOK ==
  /\ kick \in Contents /\ kick[3] = Jump[1] /\ kick[4] = Jump[2]
  /\ size \in RomSizes /\ recalc \in BOOLEAN /\ fromBus \in BOOLEAN
  /\ swapped \in BOOLEAN /\ (fromBus => ~swapped) /\ fastZero \in BOOLEAN

\* What the windows of a file hold before the test of its byte order.
Loaded == [w \in Windows |-> IF Belongs(w) # Nothing THEN File(Belongs(w)) ELSE Blank]

\* The windows that are to be upright in the end.
Repairable(w) == Supplied(w) /\ ~(swapped /\ w \in PassedOver)

\* Each of them is mapped to a window that holds its part, or to F80000, whose part
\* it shows.
InPlace ==
  \A w \in Windows : Repairable(w) =>
    maps[w] \in Windows /\ IF maps[w] = "f8" THEN Belongs(w) = Top ELSE phys[maps[w]] = Upright(Belongs(w))

Installed ==
  /\ stage = "install" => phys = [w \in Windows |-> Blank]
  /\ stage = "test" => phys = Loaded /\ \A w \in Windows : Supplied(w) => maps[w] = w
  /\ stage \in {"install", "test"} => ~rom_mapped
  /\ stage = "sum" => phys["f8"] = Upright(Top)
  /\ stage = "run" => phys["f8"] = IF recalc THEN amiga_checksum(Upright(Top)) ELSE Upright(Top)
  /\ stage \in {"sum", "run"} => InPlace /\ (rom_mapped => maps["e0"] = "e0")

InstallInv == RomTypeOK /\ InputsOK /\ Installed

-----------------------------------------------------------------------------
(* The file. *)

LEMMA BytesAre == Bytes = {1, 2, 3, 4, 5, 6, 7, 8} /\ 0 \notin Bytes /\ Bytes \subseteq Nat
BY DEF Bytes

\* Which part of the ROM each window gets.
LEMMA BelongsIs ==
  ASSUME size \in RomSizes
  PROVE  /\ \A w \in Windows : Belongs(w) \in {0, 1, 2, Top, Nothing}
         /\ Belongs("f8") = Top
         /\ Belongs("e0") = IF size \in {"256K", "512K"} THEN Top ELSE 0
         /\ Belongs("f0") = IF size = "1M" THEN 0 ELSE Nothing
         /\ size # "2M" => Belongs("a8") = Nothing /\ Belongs("b0") = Nothing
         /\ size = "2M" => Belongs("a8") = 1 /\ Belongs("b0") = 2
<1>1. CASE size = "256K"
  BY <1>1 DEF Belongs, Windows, Top, Nothing
<1>2. CASE size = "512K"
  BY <1>2 DEF Belongs, Windows, Top, Nothing
<1>3. CASE size = "1M"
  BY <1>3 DEF Belongs, Windows, Top, Nothing
<1>4. CASE size = "2M"
  BY <1>4 DEF Belongs, Windows, Top, Nothing
<1> QED
  BY <1>1, <1>2, <1>3, <1>4 DEF RomSizes

\* The repair reaches every window of a file but those passed over.
LEMMA RepairedIs ==
  ASSUME size \in RomSizes
  PROVE  /\ Repaired \subseteq Windows /\ "f8" \in Repaired
         /\ \A w \in Windows : Belongs(w) # Nothing => w \in Repaired \/ w \in PassedOver
<1>1. CASE size = "1M"
  BY <1>1, BelongsIs DEF Windows, Repaired, PassedOver
<1>2. CASE size = "2M"
  BY <1>2, BelongsIs DEF Windows, Repaired, PassedOver
<1>3. CASE size \in {"256K", "512K"}
  BY <1>3, BelongsIs DEF Windows, Repaired, PassedOver
<1> QED
  BY <1>1, <1>2, <1>3 DEF RomSizes

LEMMA PairsAreBytes ==
  ASSUME NEW b \in Contents
  PROVE  SwapPairs(b) \in Contents /\ SwapPairs(SwapPairs(b)) = b
<1>1. \A k \in Bytes : IF k % 2 = 1 THEN k + 1 \in Bytes /\ (k + 1) % 2 # 1 ELSE k - 1 \in Bytes /\ (k - 1) % 2 = 1
  BY DEF Bytes
<1>2. SwapPairs(b) \in Contents
  BY <1>1 DEF SwapPairs, Contents
<1>3. ASSUME NEW k \in Bytes PROVE SwapPairs(SwapPairs(b))[k] = b[k]
  BY <1>1, BytesAre DEF SwapPairs
<1>4. SwapPairs(SwapPairs(b)) \in Contents
  BY <1>1, <1>2 DEF SwapPairs, Contents
<1> QED
  BY <1>2, <1>3, <1>4 DEF Contents

\* Only the last part has the jump that the test looks for.
LEMMA UprightIs ==
  ASSUME RomAssumption, InputsOK, NEW p \in {0, 1, 2, Top}
  PROVE  /\ Upright(p) \in Contents /\ File(p) \in Contents
         /\ Upright(Top)[3] = Jump[1] /\ Upright(Top)[4] = Jump[2]
<1>1. Radix \in Nat /\ Radix > 3 /\ Byte \subseteq Nat /\ {0, 1, 2, 3} \subseteq Byte
  BY DEF RomAssumption, Byte
<1>2. Part(p) \in Contents
  BY <1>1 DEF InputsOK, Part, Contents, Top, Bytes
<1>3. Upright(p) \in Contents
  <2>1. \A k \in Bytes : ((k - 1) % 4) + 1 \in Bytes
    BY DEF Bytes
  <2>2. Twice(Part(p)) \in Contents
    BY <1>2, <2>1 DEF Twice, Contents
  <2> QED
    BY <1>2, <2>2 DEF Upright
<1>4. File(p) \in Contents
  BY <1>3, PairsAreBytes DEF File
<1>5. Twice(kick)[3] = kick[3] /\ Twice(kick)[4] = kick[4]
  BY DEF Twice, Bytes
<1>6. Upright(Top)[3] = Jump[1] /\ Upright(Top)[4] = Jump[2]
  BY <1>5 DEF Upright, Part, InputsOK
<1> QED
  BY <1>3, <1>4, <1>6

-----------------------------------------------------------------------------
(* The checksum. *)

LEMMA LongsAre ==
  ASSUME RomAssumption
  PROVE  LongMod \in Nat /\ LongMod > 3 /\ LongMod = Radix * Radix /\ Radix \in Nat /\ Radix > 3
<1>1. Radix \in Nat /\ Radix > 3
  BY DEF RomAssumption
<1>2. Radix * Radix \in Nat /\ Radix * Radix >= 4 * Radix
  <2>1. (Radix - 4) * Radix \in Nat /\ (Radix - 4) * Radix = Radix * Radix - 4 * Radix
    <3>1. Radix - 4 \in Nat
      BY <1>1
    <3> QED
      BY <1>1, <3>1
  <2> QED
    BY <1>1, <2>1
<1> QED
  BY <1>1, <1>2 DEF LongMod

LEMMA ValueIs ==
  ASSUME RomAssumption, NEW b \in Contents, NEW k \in {1, 3, 5, 7}
  PROVE  Value(b, k) \in 0 .. LongMod - 1
<1>1. b[k] \in 0 .. Radix - 1 /\ b[k + 1] \in 0 .. Radix - 1
  BY DEF Contents, Byte, Bytes
<1>2. (Radix - 1 - b[k]) * Radix \in Nat
  <2>1. Radix - 1 - b[k] \in Nat /\ Radix \in Nat
    BY <1>1, LongsAre
  <2> QED
    BY <2>1
<1>3. /\ (Radix - 1 - b[k]) * Radix = Radix * Radix - Radix - b[k] * Radix
      /\ b[k] * Radix \in Nat
  BY <1>1, LongsAre
<1> QED
  BY <1>1, <1>2, <1>3, LongsAre DEF Value

\* The carry that comes round makes the sum one modulo LongMod - 1.
LEMMA AddCarryIs ==
  ASSUME RomAssumption, NEW sum \in 0 .. LongMod - 1, NEW val \in 0 .. LongMod - 1
  PROVE  /\ AddCarry(sum, val) \in 0 .. LongMod - 1
         /\ sum + val < LongMod => AddCarry(sum, val) = sum + val
         /\ sum + val >= LongMod => AddCarry(sum, val) = sum + val - (LongMod - 1)
<1>1. LongMod \in Nat /\ LongMod > 3
  BY LongsAre
<1>2. CASE sum + val < LongMod
  <2>1. (sum + val) % LongMod = sum + val
    BY <1>1, <1>2
  <2> QED
    BY <1>1, <1>2, <2>1 DEF AddCarry
<1>3. CASE sum + val >= LongMod
  <2>1. (sum + val) % LongMod = sum + val - LongMod
    BY <1>1, <1>3
  <2> QED
    BY <1>1, <1>3, <2>1 DEF AddCarry
<1> QED
  BY <1>1, <1>2, <1>3

LEMMA SumIs ==
  ASSUME RomAssumption, NEW b \in Contents
  PROVE  /\ Sum(b) \in 0 .. LongMod - 1
         /\ \E j \in 0 .. 3 : Sum(b) + j * (LongMod - 1) = Value(b, 1) + Value(b, 3) + Value(b, 7)
<1> DEFINE s1 == AddCarry(0, Term(b, 1))
           s2 == AddCarry(s1, Term(b, 3))
           s3 == AddCarry(s2, Term(b, 5))
<1>1. /\ Term(b, 1) = Value(b, 1) /\ Term(b, 3) = Value(b, 3) /\ Term(b, 5) = 0 /\ Term(b, 7) = Value(b, 7)
      /\ Value(b, 1) \in 0 .. LongMod - 1 /\ Value(b, 3) \in 0 .. LongMod - 1
      /\ Value(b, 7) \in 0 .. LongMod - 1 /\ LongMod \in Nat /\ LongMod > 3
  BY ValueIs, LongsAre DEF Term, ChkOff
<1>2. s1 \in 0 .. LongMod - 1 /\ s1 = Value(b, 1)
  BY <1>1, AddCarryIs
<1>3. /\ s2 \in 0 .. LongMod - 1
      /\ s2 = s1 + Value(b, 3) \/ s2 = s1 + Value(b, 3) - (LongMod - 1)
  BY <1>1, <1>2, AddCarryIs
<1>4. /\ s3 \in 0 .. LongMod - 1 /\ (s3 = s2 \/ s3 = s2 - (LongMod - 1))
  BY <1>1, <1>3, AddCarryIs
<1>5. /\ Sum(b) \in 0 .. LongMod - 1
      /\ Sum(b) = s3 + Value(b, 7) \/ Sum(b) = s3 + Value(b, 7) - (LongMod - 1)
  <2> HIDE DEF s3
  <2>1. Sum(b) = AddCarry(s3, Value(b, 7))
    BY <1>1 DEF Sum, s3
  <2> QED
    BY <1>1, <1>4, <2>1, AddCarryIs
<1>6. \E j \in 0 .. 3 : Sum(b) + j * (LongMod - 1) = Value(b, 1) + Value(b, 3) + Value(b, 7)
  <2> HIDE DEF s1, s2, s3
  <2> DEFINE d == LongMod - 1
             all == Value(b, 1) + Value(b, 3) + Value(b, 7)
  <2>1. d \in Nat /\ all \in Nat /\ Sum(b) \in Nat
    BY <1>1, <1>5
  <2>2. Sum(b) = all \/ Sum(b) = all - d \/ Sum(b) = all - 2 * d \/ Sum(b) = all - 3 * d
    BY <1>1, <1>2, <1>3, <1>4, <1>5
  <2>3. \/ Sum(b) + 0 * d = all \/ Sum(b) + 1 * d = all
        \/ Sum(b) + 2 * d = all \/ Sum(b) + 3 * d = all
    <3> HIDE DEF d, all
    <3> QED
      BY <2>1, <2>2
  <2> HIDE DEF d, all
  <2>4. \E j \in 0 .. 3 : Sum(b) + j * d = all
    BY <2>3
  <2> QED
    BY <2>4 DEF d, all
<1> QED
  BY <1>5, <1>6

\* The new checksum makes all ones of the sum, whatever the other bytes are.
LEMMA ChecksumIs ==
  ASSUME RomAssumption, NEW b \in Contents
  PROVE  /\ amiga_checksum(b) \in Contents
         /\ \A k \in Bytes \ {ChkOff, ChkOff + 1} : amiga_checksum(b)[k] = b[k]
         /\ Total(amiga_checksum(b)) > 0 /\ Total(amiga_checksum(b)) % (LongMod - 1) = 0
<1> DEFINE c == Summed(b)
           t == amiga_checksum(b)
           d == LongMod - 1
<1>1. /\ LongMod \in Nat /\ LongMod > 3 /\ LongMod = Radix * Radix /\ Radix \in Nat /\ Radix > 3
      /\ Sum(b) \in 0 .. LongMod - 1 /\ d \in Nat \ {0}
  BY LongsAre, SumIs
<1>2. c \in 0 .. LongMod - 1 /\ c = d - Sum(b)
  BY <1>1 DEF Summed
<1>3. c \div Radix \in Byte /\ c % Radix \in Byte /\ (c \div Radix) * Radix + (c % Radix) = c
  <2> DEFINE q == c \div Radix
             r == c % Radix
  <2>1. q \in Nat /\ r \in 0 .. Radix - 1 /\ c = Radix * q + r
    <3>1. c \in Nat /\ Radix \in Nat \ {0}
      BY <1>1, <1>2
    <3> HIDE DEF c
    <3> QED
      BY <3>1
  <2>2. q < Radix
    <3> HIDE DEF q, r, c
    <3>1. CASE Radix <= q
      <4>1. (q - Radix) * Radix \in Nat /\ (q - Radix) * Radix = Radix * q - Radix * Radix
        <5>1. q - Radix \in Nat
          BY <1>1, <2>1, <3>1
        <5> QED
          BY <1>1, <2>1, <5>1
      <4>2. Radix * q \in Nat
        BY <1>1, <2>1
      <4> QED
        BY <1>1, <1>2, <2>1, <4>1, <4>2
    <3> QED
      BY <1>1, <2>1, <3>1
  <2> HIDE DEF q, r, c
  <2>3. q * Radix = Radix * q
    BY <1>1, <2>1
  <2>4. q \in Byte /\ r \in Byte /\ q * Radix + r = c
    BY <1>1, <2>1, <2>2, <2>3 DEF Byte
  <2> QED
    BY <2>4 DEF q, r
<1>4. /\ t \in Contents /\ (\A k \in Bytes \ {ChkOff, ChkOff + 1} : t[k] = b[k])
      /\ Value(t, ChkOff) = c
  <2>1. CASE c = Value(b, ChkOff)
    BY <2>1 DEF amiga_checksum
  <2>2. CASE c # Value(b, ChkOff)
    <3>1. t = [b EXCEPT ![ChkOff] = c \div Radix, ![ChkOff + 1] = c % Radix]
      BY <2>2 DEF amiga_checksum
    <3> HIDE DEF c, t
    <3>2. t \in Contents /\ (\A k \in Bytes \ {ChkOff, ChkOff + 1} : t[k] = b[k])
          /\ t[ChkOff] = c \div Radix /\ t[ChkOff + 1] = c % Radix
      BY <1>3, <3>1 DEF Contents, Bytes, ChkOff
    <3> QED
      BY <1>3, <3>2 DEF Value
  <2> QED
    BY <2>1, <2>2
<1>5. Value(t, 1) = Value(b, 1) /\ Value(t, 3) = Value(b, 3) /\ Value(t, 7) = Value(b, 7)
  <2> HIDE DEF t
  <2>1. /\ t[1] = b[1] /\ t[1 + 1] = b[1 + 1] /\ t[3] = b[3] /\ t[3 + 1] = b[3 + 1]
        /\ t[7] = b[7] /\ t[7 + 1] = b[7 + 1]
    BY <1>4 DEF Bytes, ChkOff
  <2> QED
    BY <2>1 DEF Value
<1>6. PICK j \in 0 .. 3 : Sum(b) + j * d = Value(b, 1) + Value(b, 3) + Value(b, 7)
  BY SumIs
<1>7. /\ Value(b, 1) \in Nat /\ Value(b, 3) \in Nat /\ Value(b, 7) \in Nat
  BY <1>1, ValueIs
<1>8. Total(t) = (j + 1) * d
  <2> HIDE DEF t, c, d
  <2>1. Total(t) = Value(b, 1) + Value(b, 3) + c + Value(b, 7)
    BY <1>4, <1>5 DEF Total, ChkOff
  <2>2. (j + 1) * d = j * d + d /\ j * d \in Nat
    BY <1>1
  <2>3. Sum(b) \in Nat /\ c = d - Sum(b) /\ d \in Nat
    BY <1>1, <1>2
  <2>4. Total(t) = Sum(b) + j * d + c
    BY <1>2, <1>6, <1>7, <2>1, <2>2, <2>3
  <2> QED
    BY <2>2, <2>3, <2>4
<1>9. (j + 1) * d > 0 /\ ((j + 1) * d) % d = 0
  <2> HIDE DEF d
  <2>1. CASE j = 0
    BY <1>1, <2>1
  <2>2. CASE j = 1
    BY <1>1, <2>2
  <2>3. CASE j = 2
    BY <1>1, <2>3
  <2>4. CASE j = 3
    BY <1>1, <2>4
  <2> QED
    BY <2>1, <2>2, <2>3, <2>4
<1> QED
  BY <1>4, <1>8, <1>9

-----------------------------------------------------------------------------
(* The installation. *)

Types == [Windows -> Contents]

LEMMA InstallStarts ==
  ASSUME RomAssumption, InstallInit
  PROVE  InstallInv
<1>1. Radix \in Nat /\ Radix > 3 /\ Free \subseteq Byte
  BY DEF RomAssumption, Byte
<1>2. PICK a \in Free, b \in Free, c \in Free, d \in Free : kick = <<a, b, Jump[1], Jump[2], c, d, 0, 3>>
  BY DEF InstallInit
<1>3. kick \in Contents /\ kick[3] = Jump[1] /\ kick[4] = Jump[2]
  <2>1. a \in Byte /\ b \in Byte /\ c \in Byte /\ d \in Byte /\ 0 \in Byte /\ 3 \in Byte
        /\ Jump[1] \in Byte /\ Jump[2] \in Byte
    BY <1>1 DEF Jump, Byte
  <2> QED
    BY <1>2, <2>1 DEF Contents, Bytes
<1>4. InputsOK
  BY <1>3 DEF InputsOK, InstallInit
<1>5. phys = [w \in Windows |-> Blank] /\ Blank \in Contents
  BY <1>1 DEF InstallInit, Blank, Contents, Byte
<1>6. RomTypeOK
  BY <1>5 DEF RomTypeOK, InstallInit, Contents, Byte
<1>7. Installed
  BY <1>5 DEF Installed, InstallInit
<1> QED
  BY <1>4, <1>6, <1>7 DEF InstallInv

\* The input does not change, nor what is computed from it alone.
LEMMA InputsStay ==
  ASSUME UNCHANGED inputs
  PROVE  /\ InputsOK' = InputsOK /\ Upright(Top)' = Upright(Top)
         /\ amiga_checksum(Upright(Top))' = amiga_checksum(Upright(Top))
         /\ \A w : Belongs(w)' = Belongs(w) /\ Upright(Belongs(w))' = Upright(Belongs(w))
         /\ \A w : Supplied(w)' = Supplied(w) /\ Repairable(w)' = Repairable(w)
<1>1. UNCHANGED <<kick, size, swapped, fromBus, recalc, fastZero>>
  BY DEF inputs
<1>2. Upright(Top)' = Upright(Top)
  BY <1>1 DEF Upright, Part, Twice
<1>3. amiga_checksum(Upright(Top))' = amiga_checksum(Upright(Top))
  BY <1>2
<1>4. ASSUME NEW w PROVE Belongs(w)' = Belongs(w)
  BY <1>1 DEF Belongs
<1>5. ASSUME NEW w PROVE Upright(Belongs(w))' = Upright(Belongs(w))
  BY <1>1 DEF Upright, Part, Twice, Belongs
<1>6. InputsOK' = InputsOK
  BY <1>1 DEF InputsOK
<1>7. ASSUME NEW w PROVE Supplied(w)' = Supplied(w)
  BY <1>1, <1>4 DEF Supplied
<1>8. ASSUME NEW w PROVE Repairable(w)' = Repairable(w)
  BY <1>1, <1>7 DEF Repairable, PassedOver
<1> QED
  BY <1>2, <1>3, <1>4, <1>5, <1>6, <1>7, <1>8

\* What InPlace says in the next state, in terms of the inputs of this one.
LEMMA InPlaceNext ==
  ASSUME UNCHANGED inputs,
         \A w \in Windows : Repairable(w) =>
           maps'[w] \in Windows /\ IF maps'[w] = "f8" THEN Belongs(w) = Top
                                    ELSE phys'[maps'[w]] = Upright(Belongs(w))
  PROVE  InPlace'
BY InputsStay DEF InPlace

LEMMA CopyStep ==
  ASSUME RomAssumption, InstallInv, CopyFromBus
  PROVE  InstallInv'
<1> DEFINE mapped == CASE size = "1M" -> {"f8", "e0"}
                       [] size = "2M" -> {"f8", "e0", "a8", "b0"}
                       [] OTHER -> {"f8"}
<1>1. InputsOK /\ RomTypeOK /\ phys \in Types /\ size \in RomSizes
  BY DEF InstallInv, RomTypeOK, InputsOK, Types, Contents, Byte
<1>2. /\ phys' = [w \in Windows |-> IF w \in mapped THEN Upright(Belongs(w)) ELSE phys[w]]
      /\ maps' = [w \in Windows |->
           IF w \in mapped THEN w ELSE IF w = "e0" /\ size \in {"256K", "512K"} THEN "f8" ELSE maps[w]]
      /\ stage' = "sum" /\ UNCHANGED <<inputs, rom_mapped>>
  BY DEF CopyFromBus
<1>3. /\ mapped \in SUBSET Windows /\ "f8" \in mapped
      /\ \A w \in mapped : Belongs(w) \in {0, 1, 2, Top}
      /\ \A w \in Windows : Supplied(w) /\ w \notin mapped =>
           w = "e0" /\ size \in {"256K", "512K"} /\ Belongs(w) = Top
  <2>0. fromBus
    BY DEF CopyFromBus
  <2>1. CASE size = "1M"
    BY <2>0, <2>1, BelongsIs DEF Windows, RomSizes, Supplied
  <2>2. CASE size = "2M"
    BY <2>0, <2>2, BelongsIs DEF Windows, RomSizes, Supplied
  <2>3. CASE size \in {"256K", "512K"}
    BY <2>0, <2>3, BelongsIs DEF Windows, RomSizes, Supplied
  <2> QED
    BY <1>1, <2>1, <2>2, <2>3 DEF RomSizes
<1> HIDE DEF mapped
<1>4. phys' \in Types
  <2>1. \A w \in mapped : Upright(Belongs(w)) \in Contents
    BY <1>1, <1>3, UprightIs
  <2> QED
    BY <1>1, <1>2, <2>1 DEF Types
<1>5. RomTypeOK'
  <2>1. maps' \in [Windows -> Windows \cup {"bus"}]
    BY <1>1, <1>2 DEF RomTypeOK, Windows
  <2> QED
    BY <1>1, <1>2, <1>4, <2>1 DEF RomTypeOK, Types, Contents, Byte
<1>6. InputsOK'
  BY <1>1, <1>2, InputsStay
<1>7. Installed'
  <2>1. "f8" \in Windows /\ Belongs("f8") = Top
    BY <1>1, BelongsIs DEF Windows
  <2>2. phys'["f8"] = Upright(Top)
    BY <1>2, <1>3, <2>1
  <2>3. ASSUME NEW w \in Windows, Repairable(w)
        PROVE  maps'[w] \in Windows /\ IF maps'[w] = "f8" THEN Belongs(w) = Top
                                       ELSE phys'[maps'[w]] = Upright(Belongs(w))
    <3>1. CASE w \in mapped
      <4>1. maps'[w] = w /\ phys'[w] = Upright(Belongs(w))
        BY <1>2, <3>1
      <4> QED
        BY <2>1, <4>1
    <3>2. CASE w \notin mapped
      <4>1. w = "e0" /\ size \in {"256K", "512K"} /\ Belongs(w) = Top
        BY <1>3, <2>3, <3>2 DEF Repairable
      <4>2. maps'[w] = "f8"
        BY <1>2, <3>2, <4>1
      <4> QED
        BY <2>1, <4>1, <4>2
    <3> QED
      BY <3>1, <3>2
  <2>4. InPlace'
    BY <1>2, <2>3, InPlaceNext
  <2>5. ~rom_mapped'
    BY <1>2 DEF InstallInv, Installed, CopyFromBus
  <2> QED
    BY <1>2, <2>2, <2>4, <2>5, InputsStay DEF Installed
<1> QED
  BY <1>5, <1>6, <1>7 DEF InstallInv

LEMMA FileStep ==
  ASSUME RomAssumption, InstallInv, LoadFile
  PROVE  InstallInv'
<1>1. InputsOK /\ RomTypeOK /\ size \in RomSizes /\ stage = "install" /\ phys = [w \in Windows |-> Blank]
  BY DEF InstallInv, Installed, InputsOK, LoadFile
<1>2. stage' = "test" /\ UNCHANGED <<inputs, rom_mapped>> /\ phys' = Loaded
      /\ maps' \in [Windows -> Windows \cup {"bus"}]
  BY <1>1 DEF LoadFile, Loaded, RomTypeOK
<1>3. phys' \in Types
  <2>1. Blank \in Contents
    BY DEF RomAssumption, Blank, Contents, Byte
  <2>2. \A w \in Windows : Belongs(w) # Nothing => File(Belongs(w)) \in Contents
    BY <1>1, BelongsIs, UprightIs
  <2> QED
    BY <1>2, <2>1, <2>2 DEF Loaded, Types
<1>4. RomTypeOK'
  BY <1>1, <1>2, <1>3 DEF RomTypeOK, Types, Contents, Byte
<1>5. InputsOK'
  BY <1>1, <1>2, InputsStay
<1>6. Loaded' = Loaded
  BY <1>2 DEF Loaded, File, Upright, Part, Twice, Belongs, inputs
<1>7. Installed'
  <2>1. \A w \in Windows : Supplied(w) => maps'[w] = w
    BY DEF LoadFile, Supplied
  <2>2. (\A w \in Windows : Supplied(w) => maps[w] = w)'
    BY <1>2, <2>1, InputsStay
  <2>3. ~rom_mapped'
    BY <1>1, <1>2 DEF InstallInv, Installed
  <2> QED
    BY <1>2, <1>6, <2>2, <2>3 DEF Installed
<1> QED
  BY <1>4, <1>5, <1>7 DEF InstallInv

LEMMA TestStep ==
  ASSUME RomAssumption, InstallInv, TestSwap
  PROVE  InstallInv'
<1>1. /\ InputsOK /\ RomTypeOK /\ size \in RomSizes /\ stage = "test" /\ phys = Loaded /\ phys \in Types
      /\ \A w \in Windows : Supplied(w) => maps[w] = w
  BY DEF InstallInv, Installed, InputsOK, TestSwap, RomTypeOK, Types, Contents, Byte
<1>2. stage' = "sum" /\ rom_mapped' = TRUE /\ UNCHANGED <<inputs, maps>>
      /\ phys' = IF phys["f8"][3] = Jump[2] /\ phys["f8"][4] = Jump[1]
                 THEN [w \in Windows |-> IF w \in Repaired THEN SwapLoop(phys[w]) ELSE phys[w]]
                 ELSE phys
  BY DEF TestSwap
<1>3. /\ Repaired \subseteq Windows /\ "f8" \in Repaired
      /\ \A w \in Windows : Belongs(w) # Nothing => w \in Repaired \/ w \in PassedOver
  BY <1>1, RepairedIs
<1>4. /\ phys["f8"] = File(Top) /\ Upright(Top) \in Contents
      /\ Upright(Top)[3] = Jump[1] /\ Upright(Top)[4] = Jump[2]
      /\ \A w \in Windows : Belongs(w) # Nothing =>
           phys[w] = File(Belongs(w)) /\ Upright(Belongs(w)) \in Contents
  BY <1>1, BelongsIs, UprightIs DEF Loaded, Windows, Top, Nothing
<1>5. Jump[1] # Jump[2] /\ 3 \in Bytes /\ 4 \in Bytes
      /\ SwapPairs(Upright(Top))[3] = Upright(Top)[4] /\ SwapPairs(Upright(Top))[4] = Upright(Top)[3]
  BY DEF Jump, Bytes, SwapPairs
<1>6. phys["f8"][3] = Jump[2] /\ phys["f8"][4] = Jump[1] <=> swapped
  BY <1>1, <1>4, <1>5 DEF File, InputsOK
<1>7. phys' \in Types
  <2>1. \A w \in Windows : phys[w] \in Contents /\ SwapLoop(phys[w]) \in Contents
    BY <1>1, PairsAreBytes DEF SwapLoop, Types
  <2> QED
    BY <1>1, <1>2, <2>1 DEF Types
<1>8. ASSUME NEW w \in Windows, Belongs(w) # Nothing, swapped => w \in Repaired
      PROVE  phys'[w] = Upright(Belongs(w))
  <2>1. CASE swapped
    <3>1. phys'[w] = SwapPairs(SwapPairs(Upright(Belongs(w))))
      BY <1>2, <1>4, <1>6, <1>8, <2>1 DEF SwapLoop, File
    <3> QED
      BY <1>4, <1>8, <3>1, PairsAreBytes
  <2>2. CASE ~swapped
    BY <1>2, <1>4, <1>6, <1>8, <2>2 DEF File
  <2> QED
    BY <2>1, <2>2
<1>9. RomTypeOK'
  BY <1>1, <1>2, <1>7 DEF RomTypeOK, Types, Contents, Byte
<1>10. InputsOK'
  BY <1>1, <1>2, InputsStay
<1>11. Installed'
  <2>1. "f8" \in Windows /\ "e0" \in Windows /\ Belongs("f8") = Top /\ Top # Nothing
    BY <1>1, BelongsIs DEF Windows, Top, Nothing
  <2>2. phys'["f8"] = Upright(Top)
    BY <1>3, <1>8, <2>1
  <2>3. ASSUME NEW w \in Windows, Repairable(w)
        PROVE  maps'[w] \in Windows /\ IF maps'[w] = "f8" THEN Belongs(w) = Top
                                       ELSE phys'[maps'[w]] = Upright(Belongs(w))
    <3>1. Supplied(w) /\ Belongs(w) # Nothing /\ (swapped => w \in Repaired)
      BY <1>3, <2>3 DEF Repairable, Supplied
    <3>2. maps'[w] = w
      BY <1>1, <1>2, <3>1
    <3>3. phys'[w] = Upright(Belongs(w))
      BY <1>8, <3>1
    <3> QED
      BY <2>1, <3>2, <3>3
  <2>4. InPlace'
    BY <1>2, <2>3, InPlaceNext
  <2>5. maps'["e0"] = "e0"
    <3>1. Belongs("e0") # Nothing
      BY <1>1, BelongsIs DEF Top, Nothing
    <3>2. Supplied("e0")
      BY <3>1 DEF Supplied
    <3> QED
      BY <1>1, <1>2, <2>1, <3>2
  <2> QED
    BY <1>2, <2>2, <2>4, <2>5, InputsStay DEF Installed
<1> QED
  BY <1>9, <1>10, <1>11 DEF InstallInv

LEMMA ChecksumStep ==
  ASSUME RomAssumption, InstallInv, Checksum
  PROVE  InstallInv'
<1>1. /\ InputsOK /\ RomTypeOK /\ size \in RomSizes /\ stage = "sum" /\ phys \in Types
      /\ phys["f8"] = Upright(Top) /\ InPlace /\ (rom_mapped => maps["e0"] = "e0") /\ recalc \in BOOLEAN
  BY DEF InstallInv, Installed, InputsOK, Checksum, RomTypeOK, Types, Contents, Byte
<1>2. stage' = "run" /\ UNCHANGED <<inputs, maps, rom_mapped>> /\ recalc' = recalc
      /\ phys' = IF recalc THEN [phys EXCEPT !["f8"] = amiga_checksum(@)] ELSE phys
  BY DEF Checksum, inputs
<1>3. "f8" \in Windows /\ amiga_checksum(Upright(Top)) \in Contents
  <2>1. Upright(Top) \in Contents
    BY <1>1, UprightIs
  <2> QED
    BY <2>1, ChecksumIs DEF Windows
<1>4. phys' \in Types
  BY <1>1, <1>2, <1>3 DEF Types
<1>5. /\ phys'["f8"] = IF recalc THEN amiga_checksum(Upright(Top)) ELSE Upright(Top)
      /\ \A w \in Windows \ {"f8"} : phys'[w] = phys[w]
  BY <1>1, <1>2, <1>3 DEF Types
<1>6. RomTypeOK'
  BY <1>1, <1>2, <1>4 DEF RomTypeOK, Types, Contents, Byte
<1>7. InputsOK'
  BY <1>1, <1>2, InputsStay
<1>8. amiga_checksum(Upright(Top))' = amiga_checksum(Upright(Top))
  BY <1>2, InputsStay
<1>9. InPlace'
  <2>1. ASSUME NEW w \in Windows, Repairable(w)
        PROVE  maps'[w] \in Windows /\ IF maps'[w] = "f8" THEN Belongs(w) = Top
                                       ELSE phys'[maps'[w]] = Upright(Belongs(w))
    <3>1. maps' = maps /\ maps[w] \in Windows
      BY <1>1, <1>2, <2>1 DEF InPlace
    <3> QED
      BY <1>1, <1>5, <2>1, <3>1 DEF InPlace
  <2> QED
    BY <1>2, <2>1, InPlaceNext
<1>10. Installed'
  <2>1. phys'["f8"] = IF recalc THEN amiga_checksum(Upright(Top)) ELSE Upright(Top)
    BY <1>5
  <2>2. (phys["f8"] = IF recalc THEN amiga_checksum(Upright(Top)) ELSE Upright(Top))'
    BY <1>2, <1>8, <2>1, InputsStay
  <2>3. (rom_mapped => maps["e0"] = "e0")'
    BY <1>1, <1>2
  <2> QED
    BY <1>2, <1>9, <2>2, <2>3 DEF Installed
<1> QED
  BY <1>6, <1>7, <1>10 DEF InstallInv

LEMMA InstallStutters ==
  ASSUME InstallInv, UNCHANGED installVars
  PROVE  InstallInv'
<1>1. UNCHANGED <<stage, inputs, phys, maps, rom_mapped>>
  BY DEF installVars
<1>2. InputsOK' /\ RomTypeOK'
  BY <1>1, InputsStay DEF InstallInv, RomTypeOK
<1>3. UNCHANGED <<size, recalc>> /\ Loaded' = Loaded
  BY <1>1 DEF Loaded, File, Upright, Part, Twice, Belongs, inputs
<1>4. InPlace' = InPlace
  BY <1>1, InputsStay DEF InPlace
<1>5. Installed'
  BY <1>1, <1>3, <1>4, InputsStay DEF InstallInv, Installed
<1> QED
  BY <1>2, <1>5 DEF InstallInv

LEMMA InstallAlways ==
  ASSUME RomAssumption
  PROVE  InstallSpec => []InstallInv
<1>1. InstallInit => InstallInv
  BY InstallStarts
<1>2. InstallInv /\ [InstallNext]_installVars => InstallInv'
  BY CopyStep, FileStep, TestStep, ChecksumStep, InstallStutters DEF InstallNext, Run
<1> QED
  BY <1>1, <1>2, PTL DEF InstallSpec

(* The windows hold bytes, also after the repair and the new checksum, and   *)
(* each is mapped to the bus or to the RAM of a window.                      *)
THEOREM RomTypeCorrect ==
  ASSUME RomAssumption
  PROVE  InstallSpec => []RomTypeOK
<1>1. InstallInv => RomTypeOK
  BY DEF InstallInv
<1> QED
  BY <1>1, InstallAlways, PTL

(* Whatever the bytes of the ROM, its size, where it comes from and in which *)
(* byte order: when the emulation starts, the 68k finds every part of it     *)
(* upright in its window, and the reset vector that a file or fast-page-zero *)
(* puts at 0 upright, and after amiga_checksum Kickstart's own test succeeds *)
(* (the checksum is the one thing it changes).  For a swapped file this      *)
(* leaves out what the repair passes over: E00000 of 256K and 512K, with the *)
(* reset vector unless fast-page-zero puts F80000 there, and F00000 of 1M.   *)
THEOREM RomAlwaysInstalled ==
  ASSUME RomAssumption
  PROVE  InstallSpec => []RomIsInstalled
<1>1. ASSUME InstallInv PROVE RomIsInstalled
  <2>1. InputsOK /\ Upright(Top) \in Contents
    BY <1>1, UprightIs DEF InstallInv
  <2> DEFINE b == Upright(Top)
             c == amiga_checksum(b)
  <2>2. /\ \A k \in Bytes \ {ChkOff, ChkOff + 1} : c[k] = b[k]
        /\ Total(c) > 0 /\ Total(c) % (LongMod - 1) = 0
    <3> HIDE DEF b
    <3> QED
      BY <2>1, ChecksumIs DEF b
  <2>3. stage = "run" =>
          phys["f8"] = (IF recalc THEN c ELSE b) /\ InPlace /\ (rom_mapped => maps["e0"] = "e0")
    BY <1>1 DEF InstallInv, Installed
  <2> HIDE DEF b, c
  <2>4. WindowsAreUpright
    <3> SUFFICES ASSUME stage = "run", NEW w \in Windows, Repairable(w) PROVE WindowIsUpright(w)
      BY DEF WindowsAreUpright, Repairable
    <3>1. maps[w] \in Windows /\ maps[w] # "bus"
      BY <2>3 DEF InPlace, Windows
    <3>2. CASE maps[w] = "f8"
      <4>1. Upright(Belongs(w)) = b
        BY <2>3, <3>2 DEF InPlace, b
      <4> QED
        BY <2>2, <2>3, <3>1, <3>2, <4>1 DEF WindowIsUpright
    <3>3. CASE maps[w] # "f8"
      BY <2>3, <3>1, <3>3 DEF InPlace, WindowIsUpright
    <3> QED
      BY <3>2, <3>3
  <2>5. ResetVectorIsUpright
    <3> SUFFICES ASSUME stage = "run", fastZero \/ (rom_mapped /\ ~(swapped /\ "e0" \in PassedOver))
                 PROVE  VectorIsUpright
      BY DEF ResetVectorIsUpright
    <3>1. Vector \subseteq Bytes \ {ChkOff, ChkOff + 1}
      BY DEF Vector, Bytes, ChkOff
    <3>2. CASE fastZero
      <4>1. \A k \in Vector : phys["f8"][k] = b[k]
        BY <2>2, <2>3, <3>1
      <4> QED
        BY <3>2, <4>1 DEF VectorIsUpright, AtZero, b
    <3>3. CASE ~fastZero
      <4>1. rom_mapped /\ maps["e0"] = "e0"
        BY <2>3, <3>3
      <4>2. Repairable("e0") /\ "e0" \in Windows
        <5>1. Belongs("e0") # Nothing
          BY <2>1, BelongsIs DEF InputsOK, Top, Nothing
        <5> QED
          BY <3>3, <5>1 DEF Repairable, Supplied, Windows
      <4>3. phys["e0"] = Upright(Belongs("e0"))
        BY <2>3, <4>1, <4>2 DEF InPlace
      <4> QED
        BY <3>3, <4>1, <4>3 DEF VectorIsUpright, AtZero, Overlay
    <3> QED
      BY <3>2, <3>3
  <2>6. ChecksumIsRight
    BY <2>2, <2>3 DEF ChecksumIsRight
  <2> QED
    BY <2>4, <2>5, <2>6 DEF RomIsInstalled
<1>2. InstallInv => RomIsInstalled
  BY <1>1
<1> QED
  BY <1>2, InstallAlways, PTL

-----------------------------------------------------------------------------
(***************************************************************************)
(* The clock ratio, for all rates and bounds.                              *)
(*                                                                         *)
(* choose_mai_ratio looks at one N for each M and leaves out those out of  *)
(* bounds.  That this is enough for NoneIsNearer is not obvious:           *)
(*   - for M with an N in bounds, the nearest N has the least error        *)
(*     (NearestIsNearest);                                                 *)
(*   - where the nearest N is 0, any ratio is worse than what a larger M   *)
(*     gives (ZeroIsFar);                                                  *)
(*   - where it is beyond MaxN, the next smaller M has an N in bounds that *)
(*     is as near as any (SmallerIsAsNear), so the smallest M that had a   *)
(*     better ratio than the one chosen would have another below it        *)
(*     (NoneBeats).                                                        *)
(* The invariant of the search, AllBeaten, speaks of the first kind only.  *)
(***************************************************************************)

\* A set of numbers has a smallest, by the order of the sets 0 .. x.
LEMMA SmallestOf ==
  ASSUME NEW T, T \subseteq Nat, T # {}
  PROVE  \E x \in T : \A y \in T : x <= y
<1> DEFINE F == {0 .. x : x \in T}
<1>1. F \subseteq FiniteSubsetsOf(Nat) /\ F # {}
  <2>1. ASSUME NEW x \in T PROVE IsFiniteSet(0 .. x) /\ 0 .. x \subseteq Nat
    BY FS_Interval
  <2> QED
    BY <2>1 DEF FiniteSubsetsOf
<1>2. PICK u \in F : \A v \in F : ~ (<<v, u>> \in StrictSubsetOrdering(Nat))
  <2> HIDE DEF F
  <2> QED
    BY <1>1, FS_StrictSubsetOrderingWellFounded, WFMin
<1>3. PICK x \in T : u = 0 .. x
  OBVIOUS
<1>4. ASSUME NEW y \in T, ~(x <= y) PROVE FALSE
  <2>1. 0 .. y \in F /\ x \in Nat /\ y \in Nat
    OBVIOUS
  <2>2. 0 .. y \subseteq 0 .. x /\ x \in 0 .. x /\ x \notin 0 .. y
    BY <1>4, <2>1
  <2>3. 0 .. y # 0 .. x /\ 0 .. y \in SUBSET Nat /\ 0 .. x \in SUBSET Nat
    BY <2>1, <2>2
  <2>4. <<0 .. y, u>> \in StrictSubsetOrdering(Nat)
    BY <1>3, <2>2, <2>3 DEF StrictSubsetOrdering
  <2> QED
    BY <1>2, <2>1, <2>4
<1> QED
  BY <1>4

GoodRates == clock_rate \in Nat \ {0} /\ sample_rate \in Nat \ {0}

LEMMA Grows ==
  ASSUME NEW a \in Nat, NEW b \in Nat, NEW c \in Nat
  PROVE  /\ a <= b => a * c <= b * c
         /\ a < b => a * c + c <= b * c
<1>1. ASSUME a <= b PROVE a * c <= b * c
  <2>1. b - a \in Nat
    BY <1>1
  <2>2. (b - a) * c \in Nat
    BY <2>1
  <2>3. (b - a) * c = b * c - a * c
    OBVIOUS
  <2> QED
    BY <2>2, <2>3
<1>2. ASSUME a < b PROVE a * c + c <= b * c
  <2>1. b - (a + 1) \in Nat
    BY <1>2
  <2>2. (b - (a + 1)) * c \in Nat
    BY <2>1
  <2>3. (b - (a + 1)) * c = b * c - (a * c + c)
    OBVIOUS
  <2> QED
    BY <2>2, <2>3
<1> QED
  BY <1>1, <1>2

\* A common factor of two sides.
LEMMA Cancels ==
  ASSUME NEW a \in Nat, NEW b \in Nat, NEW c \in Nat \ {0}, a * c < b * c
  PROVE  a < b
<1>1. CASE b <= a
  BY <1>1, Grows
<1> QED
  BY <1>1

LEMMA Nearer ==
  ASSUME NEW e1 \in Nat, NEW e2 \in Nat, NEW e3 \in Nat,
         NEW k1 \in Nat \ {0}, NEW k2 \in Nat \ {0}, NEW k3 \in Nat \ {0},
         e1 * k2 < e2 * k1, e2 * k3 <= e3 * k2
  PROVE  e1 * k3 < e3 * k1
<1>1. e1 * k2 \in Nat /\ e2 * k1 \in Nat /\ e2 * k3 \in Nat /\ e3 * k2 \in Nat
      /\ e1 * k3 \in Nat /\ e3 * k1 \in Nat
  OBVIOUS
<1>2. (e1 * k2) * k3 + k3 <= (e2 * k1) * k3
  BY <1>1, Grows
<1>3. (e2 * k3) * k1 <= (e3 * k2) * k1
  BY <1>1, Grows
<1>4. /\ (e1 * k2) * k3 = (e1 * k3) * k2 /\ (e2 * k1) * k3 = (e2 * k3) * k1
      /\ (e3 * k2) * k1 = (e3 * k1) * k2
  OBVIOUS
<1>5. (e1 * k3) * k2 < (e3 * k1) * k2
  <2>1. /\ (e1 * k2) * k3 \in Nat /\ (e2 * k1) * k3 \in Nat /\ (e2 * k3) * k1 \in Nat
        /\ (e3 * k2) * k1 \in Nat
    BY <1>1
  <2> QED
    BY <1>2, <1>3, <1>4, <2>1
<1> QED
  BY <1>1, <1>5, Cancels

LEMMA NearestIs ==
  ASSUME GoodRates, NEW k \in Nat
  PROVE  /\ Nearest(k) \in Nat /\ clock_rate * k \in Nat
         /\ \E h \in Nat : /\ 2 * h <= sample_rate /\ sample_rate <= 2 * h + 1
                           /\ Nearest(k) * sample_rate <= clock_rate * k + h
                           /\ clock_rate * k + h < Nearest(k) * sample_rate + sample_rate
<1> DEFINE h == sample_rate \div 2
           a == clock_rate * k + h
           q == a \div sample_rate
<1>1. clock_rate * k \in Nat
  BY DEF GoodRates
<1>2. h \in Nat /\ 2 * h <= sample_rate /\ sample_rate <= 2 * h + 1
  BY DEF GoodRates
<1>3. a \in Nat
  BY <1>1, <1>2
<1>4. sample_rate \in Nat \ {0}
  BY DEF GoodRates
<1> HIDE DEF a
<1>5. q \in Nat /\ q * sample_rate <= a /\ a < q * sample_rate + sample_rate
  BY <1>3, <1>4
<1>6. Nearest(k) = q
  BY DEF Nearest, a
<1> QED
  BY <1>1, <1>2, <1>5, <1>6 DEF a

LEMMA ErrorIs ==
  ASSUME GoodRates, NEW n \in Nat, NEW k \in Nat
  PROVE  /\ Error(n, k) \in Nat /\ n * sample_rate \in Nat /\ clock_rate * k \in Nat
         /\ n * sample_rate >= clock_rate * k => Error(n, k) = n * sample_rate - clock_rate * k
         /\ n * sample_rate <= clock_rate * k => Error(n, k) = clock_rate * k - n * sample_rate
<1>1. n * sample_rate \in Nat /\ clock_rate * k \in Nat
  BY DEF GoodRates
<1> QED
  BY <1>1 DEF Error, Distance

\* choose_mai_ratio need look at one N for each M.
LEMMA NearestIsNearest ==
  ASSUME GoodRates, NEW n \in Nat, NEW k \in Nat
  PROVE  Error(Nearest(k), k) <= Error(n, k)
<1> DEFINE near == Nearest(k)
           p == near * sample_rate
           q == n * sample_rate
           x == clock_rate * k
<1>1. near \in Nat /\ sample_rate \in Nat
  BY NearestIs DEF GoodRates
<1>2. p \in Nat /\ q \in Nat /\ x \in Nat
  BY <1>1, ErrorIs
<1>3. PICK h \in Nat : /\ 2 * h <= sample_rate /\ sample_rate <= 2 * h + 1
                       /\ p <= x + h /\ x + h < p + sample_rate
  BY NearestIs
<1>4. /\ Error(near, k) \in Nat /\ Error(n, k) \in Nat
      /\ p >= x => Error(near, k) = p - x
      /\ p <= x => Error(near, k) = x - p
      /\ q >= x => Error(n, k) = q - x
      /\ q <= x => Error(n, k) = x - q
  BY <1>1, ErrorIs
<1>5. (n < near => q + sample_rate <= p) /\ (near < n => p + sample_rate <= q)
  BY <1>1, Grows
<1>6. n = near => Error(near, k) = Error(n, k)
  OBVIOUS
<1> HIDE DEF near, p, q, x
<1>7. CASE n = near
  BY <1>4, <1>6, <1>7 DEF near
<1>8. CASE n < near
  BY <1>1, <1>2, <1>3, <1>4, <1>5, <1>8 DEF near
<1>9. CASE near < n
  BY <1>1, <1>2, <1>3, <1>4, <1>5, <1>9 DEF near
<1> QED
  BY <1>1, <1>7, <1>8, <1>9

LEMMA NearestGrows ==
  ASSUME GoodRates, NEW k1 \in Nat, NEW k2 \in Nat, k1 <= k2
  PROVE  Nearest(k1) <= Nearest(k2)
<1> DEFINE n1 == Nearest(k1)
           n2 == Nearest(k2)
<1>1. n1 \in Nat /\ n2 \in Nat /\ sample_rate \in Nat \ {0} /\ clock_rate \in Nat
  BY NearestIs DEF GoodRates
<1>2. PICK h1 \in Nat : /\ 2 * h1 <= sample_rate /\ sample_rate <= 2 * h1 + 1
                        /\ n1 * sample_rate <= clock_rate * k1 + h1
  BY NearestIs
<1>3. PICK h2 \in Nat : /\ 2 * h2 <= sample_rate /\ sample_rate <= 2 * h2 + 1
                        /\ clock_rate * k2 + h2 < n2 * sample_rate + sample_rate
  BY NearestIs
<1>4. h1 = h2
  BY <1>1, <1>2, <1>3
<1>5. k1 * clock_rate <= k2 * clock_rate
  BY <1>1, Grows
<1>6. CASE n2 < n1
  <2>1. n2 * sample_rate + sample_rate <= n1 * sample_rate
    BY <1>1, <1>6, Grows
  <2>2. /\ k1 * clock_rate = clock_rate * k1 /\ k2 * clock_rate = clock_rate * k2
        /\ clock_rate * k1 \in Nat /\ clock_rate * k2 \in Nat
        /\ n1 * sample_rate \in Nat /\ n2 * sample_rate \in Nat
    BY <1>1
  <2> HIDE DEF n1, n2
  <2> QED
    BY <1>1, <1>2, <1>3, <1>4, <1>5, <2>1, <2>2
<1> QED
  BY <1>1, <1>6

\* For an M so small that the nearest N is 0, any N is worse than what is found.
LEMMA ZeroIsFar ==
  ASSUME GoodRates, NEW n \in Nat \ {0}, NEW k \in Nat \ {0}, NEW c \in Nat \ {0},
         Nearest(k) = 0, Nearest(c) # 0
  PROVE  k < c /\ Error(Nearest(c), c) * k < Error(n, k) * c
<1> DEFINE s == sample_rate
           x == clock_rate * k
           y == clock_rate * c
<1>1. s \in Nat \ {0} /\ clock_rate \in Nat \ {0} /\ x \in Nat /\ y \in Nat
  BY DEF GoodRates
<1>2. 2 * x <= s
  <2>1. PICK h \in Nat : /\ 2 * h <= sample_rate /\ sample_rate <= 2 * h + 1
                         /\ clock_rate * k + h < Nearest(k) * sample_rate + sample_rate
    BY NearestIs
  <2> HIDE DEF x
  <2>2. x + h < s
    BY <1>1, <2>1 DEF x
  <2> QED
    BY <1>1, <2>1, <2>2
<1>3. k < c
  <2>1. CASE c <= k
    <3>1. Nearest(c) <= Nearest(k) /\ Nearest(c) \in Nat
      BY <2>1, NearestGrows, NearestIs
    <3> QED
      BY <3>1
  <2> QED
    BY <2>1
<1>4. Error(Nearest(c), c) <= Error(1, c) /\ Error(Nearest(c), c) \in Nat /\ Error(1, c) \in Nat
  BY NearestIsNearest, NearestIs, ErrorIs
<1>5. (y <= s => Error(1, c) = s - y) /\ (s <= y => Error(1, c) = y - s)
  <2>1. 1 * sample_rate = s
    BY <1>1
  <2> QED
    BY <2>1, ErrorIs
<1>6. s - x \in Nat /\ Error(n, k) \in Nat /\ s - x <= Error(n, k)
  <2>1. 1 * s <= n * s /\ 1 * s = s /\ n * s \in Nat
    BY <1>1, Grows
  <2>2. x <= n * s /\ s - x \in Nat
    BY <1>1, <1>2, <2>1
  <2>3. Error(n, k) = n * s - x
    BY <2>2, ErrorIs
  <2> QED
    BY <1>1, <2>1, <2>2, <2>3
<1>7. Error(1, c) * k < (s - x) * c
  <2>1. /\ s * k \in Nat /\ s * c \in Nat /\ y * k \in Nat /\ x * c \in Nat /\ s * k > 0
        /\ x * c = y * k /\ (s - x) * c = s * c - x * c
    BY <1>1
  <2>2. k * s + s <= c * s /\ k * s = s * k /\ c * s = s * c
    BY <1>1, <1>3, Grows
  <2>3. 2 * (x * c) <= s * c
    <3>1. (2 * x) * c <= s * c /\ (2 * x) * c = 2 * (x * c)
      BY <1>1, <1>2, Grows
    <3> QED
      BY <3>1
  <2>4. CASE y <= s
    <3>1. Error(1, c) * k = s * k - y * k
      BY <1>1, <1>5, <2>4
    <3> QED
      BY <1>1, <2>1, <2>2, <3>1
  <2>5. CASE s <= y
    <3>1. Error(1, c) * k = y * k - s * k
      BY <1>1, <1>5, <2>5
    <3> QED
      BY <1>1, <2>1, <2>3, <3>1
  <2> QED
    BY <1>1, <2>4, <2>5
<1>8. Error(Nearest(c), c) * k <= Error(1, c) * k
  BY <1>4, Grows
<1>9. (s - x) * c <= Error(n, k) * c
  BY <1>6, Grows
<1>10. /\ Error(Nearest(c), c) * k \in Nat /\ Error(1, c) * k \in Nat /\ (s - x) * c \in Nat
       /\ Error(n, k) * c \in Nat
  BY <1>4, <1>6
<1> QED
  BY <1>3, <1>7, <1>8, <1>9, <1>10

\* For an M so large that the nearest N is out of bounds, the next smaller M
\* has an N that is as near as any in bounds.
LEMMA SmallerIsAsNear ==
  ASSUME RatioAssumption, GoodRates, NEW n \in 1 .. MaxN, NEW k \in Nat \ {0, 1}, Nearest(k) > MaxN
  PROVE  \E i \in 1 .. MaxN : Error(i, k - 1) * k <= Error(n, k) * (k - 1)
<1> DEFINE s == sample_rate
           j == k - 1
           x == clock_rate * k
           z == clock_rate * j
           q == MaxN \div k
           i == MaxN - q
           d == MaxN - k * q
<1>1. /\ s \in Nat \ {0} /\ clock_rate \in Nat \ {0} /\ x \in Nat /\ MaxN \in Nat \ {0}
      /\ j \in Nat \ {0} /\ k = j + 1 /\ n \in Nat \ {0} /\ n <= MaxN /\ z \in Nat
  BY DEF GoodRates, RatioAssumption
<1>2. q \in Nat /\ k * q \in Nat /\ k * q <= MaxN /\ MaxN < k * q + k
  BY <1>1
<1>3. d \in Nat /\ d <= j
  BY <1>1, <1>2
<1>4. i \in 1 .. MaxN
  <2>1. 2 * q <= k * q /\ 2 * q \in Nat
    BY <1>1, <1>2, Grows
  <2> HIDE DEF q
  <2> QED
    BY <1>1, <1>2, <2>1
<1>5. i * k = MaxN * j + d
  <2>1. i * k = MaxN * k - q * k /\ MaxN * k = MaxN * j + MaxN /\ q * k = k * q
    BY <1>1, <1>2
  <2> QED
    BY <1>1, <1>2, <2>1
<1>6. /\ MaxN * s \in Nat /\ n * s \in Nat /\ n * s <= MaxN * s
      /\ 2 * (MaxN * s) + s <= 2 * x
  <2>1. PICK h \in Nat : /\ 2 * h <= sample_rate /\ Nearest(k) * sample_rate <= clock_rate * k + h
    BY <1>1, NearestIs
  <2>2. Nearest(k) \in Nat /\ MaxN * s + s <= Nearest(k) * s /\ Nearest(k) * s \in Nat
    <3>1. Nearest(k) \in Nat
      BY <1>1, NearestIs
    <3> HIDE DEF s
    <3>2. MaxN * s + s <= Nearest(k) * s
      BY <1>1, <3>1, Grows
    <3> QED
      BY <1>1, <3>1, <3>2
  <2>3. MaxN * s \in Nat /\ n * s \in Nat /\ n * s <= MaxN * s
    BY <1>1, Grows
  <2> HIDE DEF x
  <2>4. MaxN * s + s <= x + h
    BY <1>1, <2>1, <2>2, <2>3 DEF x
  <2> QED
    BY <1>1, <2>1, <2>3, <2>4
<1>7. x - MaxN * s \in Nat /\ Error(n, k) \in Nat /\ x - MaxN * s <= Error(n, k)
  <2>1. n * s <= x /\ x - MaxN * s \in Nat
    BY <1>1, <1>6
  <2>2. Error(n, k) = x - n * s
    BY <1>1, <2>1, ErrorIs
  <2> QED
    BY <1>1, <1>6, <2>1, <2>2
<1>8. /\ Error(i, j) \in Nat
      /\ i * s >= z => Error(i, j) = i * s - z
      /\ i * s <= z => Error(i, j) = z - i * s
  <2>1. i \in Nat /\ j \in Nat
    BY <1>1, <1>4
  <2> HIDE DEF i, j
  <2> QED
    BY <2>1, ErrorIs
<1>9. Error(i, j) * k <= (x - MaxN * s) * j
  <2> DEFINE f == i * s
             g == (MaxN * s) * j
  <2>1. f \in Nat /\ g \in Nat /\ d * s \in Nat /\ x * j \in Nat /\ z * k \in Nat
    BY <1>1, <1>3, <1>4
  <2>2. f * k = g + d * s /\ z * k = x * j /\ (x - MaxN * s) * j = x * j - g
    <3>1. f * k = (i * k) * s
      BY <1>1, <1>4
    <3>2. (MaxN * j + d) * s = g + d * s
      BY <1>1, <1>3
    <3> QED
      BY <1>1, <1>5, <3>1, <3>2
  <2>3. d * s <= 2 * (x * j) - 2 * g
    <3>1. d * s <= j * s
      BY <1>1, <1>3, Grows
    <3>2. (2 * (MaxN * s) + s) * j <= (2 * x) * j
      BY <1>1, <1>6, Grows
    <3>3. (2 * (MaxN * s) + s) * j = 2 * g + j * s /\ (2 * x) * j = 2 * (x * j) /\ j * s \in Nat
      BY <1>1
    <3> QED
      BY <2>1, <3>1, <3>2, <3>3
  <2>4. /\ Error(i, j) \in Nat
        /\ f >= z => Error(i, j) = f - z
        /\ f <= z => Error(i, j) = z - f
    BY <1>8
  <2>5. CASE f >= z
    <3>1. Error(i, j) * k = f * k - z * k
      BY <1>1, <2>1, <2>4, <2>5
    <3> HIDE DEF f, g, d, x, z, j, i, s
    <3> QED
      BY <2>1, <2>2, <2>3, <3>1
  <2>6. CASE f <= z
    <3>1. Error(i, j) * k = z * k - f * k
      BY <1>1, <2>1, <2>4, <2>6
    <3> HIDE DEF f, g, d, x, z, j, i, s
    <3> QED
      BY <2>1, <2>2, <2>3, <3>1
  <2> QED
    BY <1>1, <2>1, <2>5, <2>6
<1>10. (x - MaxN * s) * j <= Error(n, k) * j
  BY <1>1, <1>7, Grows
<1>11. Error(i, j) * k <= Error(n, k) * j
  <2>1. Error(i, j) * k \in Nat /\ (x - MaxN * s) * j \in Nat /\ Error(n, k) * j \in Nat
    BY <1>1, <1>7, <1>8
  <2> QED
    BY <1>9, <1>10, <2>1
<1> QED
  BY <1>4, <1>11

-----------------------------------------------------------------------------
\* What has been chosen is the nearest ratio for its M, nearer than those of
\* all smaller M and as near as those of all others looked at.
Beaten(k) ==
  /\ chosen_m # 0
  /\ best_error * k <= Error(Nearest(k), k) * chosen_m
  /\ k < chosen_m => best_error * k < Error(Nearest(k), k) * chosen_m
ChosenIs ==
  chosen_m # 0 =>
    /\ chosen_m < m /\ chosen_n = Nearest(chosen_m) /\ InRange(chosen_n)
    /\ best_error = Error(chosen_n, chosen_m)
AllBeaten == \A k \in 1 .. MaxM : k < m /\ InRange(Nearest(k)) => Beaten(k)

RatioInv == RatioTypeOK /\ ChosenIs /\ AllBeaten

LEMMA RatesAreGood ==
  ASSUME RatioAssumption, RatioTypeOK
  PROVE  /\ GoodRates /\ MaxN \in Nat \ {0} /\ MaxM \in Nat \ {0}
         /\ m \in Nat \ {0} /\ chosen_m \in Nat /\ best_error \in Nat
BY DEF RatioAssumption, RatioTypeOK, GoodRates

LEMMA SearchStarts ==
  ASSUME RatioAssumption, RatioInit
  PROVE  RatioInv
<1>1. RatioTypeOK
  BY DEF RatioAssumption, RatioInit, RatioTypeOK
<1>2. ChosenIs
  BY DEF RatioInit, ChosenIs
<1>3. AllBeaten
  BY DEF RatioInit, AllBeaten
<1> QED
  BY <1>1, <1>2, <1>3 DEF RatioInv

LEMMA SkipStep ==
  ASSUME RatioAssumption, RatioInv, Skip
  PROVE  RatioInv'
<1>1. /\ GoodRates /\ MaxM \in Nat \ {0} /\ m \in 1 .. MaxM /\ chosen_m \in Nat /\ best_error \in Nat
      /\ RatioTypeOK /\ ChosenIs /\ AllBeaten
  BY RatesAreGood DEF RatioInv, Skip, Searching, RatioTypeOK
<1>2. /\ m' = m + 1
      /\ UNCHANGED <<clock_rate, sample_rate, chosen_n, chosen_m, best_error>>
  BY DEF Skip, Searching
<1>3. RatioTypeOK'
  BY <1>1, <1>2 DEF RatioTypeOK
<1>4. ChosenIs'
  BY <1>1, <1>2 DEF ChosenIs, Nearest, InRange, Error, Distance
<1>5. ASSUME NEW k \in Nat PROVE Beaten(k)' <=> Beaten(k)
  BY <1>2 DEF Beaten, Nearest, Error, Distance
<1>6. ASSUME NEW k \in 1 .. MaxM, k < m', InRange(Nearest(k))' PROVE Beaten(k)'
  <2>1. InRange(Nearest(k))
    BY <1>2, <1>6 DEF InRange, Nearest
  <2>2. CASE k < m
    BY <1>1, <1>5, <2>1, <2>2 DEF AllBeaten
  <2>3. CASE k = m
    <3>1. ~Better(Error(Nearest(m), m), m)
      BY <2>1, <2>3 DEF Skip
    <3>2. chosen_m # 0 /\ ~(Error(Nearest(m), m) * chosen_m < best_error * m) /\ chosen_m < m
      BY <1>1, <3>1 DEF Better, ChosenIs
    <3>3. Error(Nearest(m), m) \in Nat
      <4>1. m \in Nat
        BY <1>1
      <4>2. Nearest(m) \in Nat
        BY <1>1, <4>1, NearestIs, Zenon
      <4> QED
        BY <1>1, <4>1, <4>2, ErrorIs, Zenon
    <3>4. best_error * m <= Error(Nearest(m), m) * chosen_m
      <4>1. Error(Nearest(m), m) * chosen_m \in Nat /\ best_error * m \in Nat
        BY <1>1, <3>3
      <4> QED
        BY <3>2, <4>1
    <3>5. Beaten(m)
      BY <1>1, <3>2, <3>4 DEF Beaten
    <3> QED
      BY <1>5, <2>3, <3>5
  <2> QED
    BY <1>1, <1>2, <1>6, <2>2, <2>3
<1>7. AllBeaten'
  BY <1>6 DEF AllBeaten
<1> QED
  BY <1>3, <1>4, <1>7 DEF RatioInv

LEMMA ChooseStep ==
  ASSUME RatioAssumption, RatioInv, Choose
  PROVE  RatioInv'
<1> DEFINE e == Error(Nearest(m), m)
<1>1. /\ GoodRates /\ MaxM \in Nat \ {0} /\ MaxN \in Nat \ {0}
      /\ m \in 1 .. MaxM /\ chosen_m \in Nat /\ best_error \in Nat
      /\ RatioTypeOK /\ ChosenIs /\ AllBeaten
  BY RatesAreGood DEF RatioInv, Choose, Searching, RatioTypeOK
<1>2. /\ InRange(Nearest(m)) /\ Better(e, m)
      /\ chosen_n' = Nearest(m) /\ chosen_m' = m /\ best_error' = e
      /\ m' = IF e = 0 THEN MaxM + 1 ELSE m + 1
      /\ UNCHANGED <<clock_rate, sample_rate>>
  BY DEF Choose, Searching
<1>3. e \in Nat /\ Nearest(m) \in 1 .. MaxN
  <2>1. Nearest(m) \in Nat
    BY <1>1, NearestIs
  <2>2. m \in Nat
    BY <1>1
  <2>3. e \in Nat
    BY <1>1, <2>1, <2>2, ErrorIs, Zenon
  <2> QED
    BY <1>1, <1>2, <2>1, <2>3 DEF InRange
<1>4. RatioTypeOK'
  BY <1>1, <1>2, <1>3 DEF RatioTypeOK
<1>5. ASSUME NEW k \in Nat PROVE Nearest(k)' = Nearest(k) /\ Error(Nearest(k), k)' = Error(Nearest(k), k)
  BY <1>2 DEF Nearest, Error, Distance
<1>6. ChosenIs'
  <2>1. (chosen_m < m)'
    BY <1>1, <1>2
  <2>2. (chosen_n = Nearest(chosen_m))' /\ InRange(chosen_n)'
    BY <1>2 DEF Nearest, InRange
  <2>3. (best_error = Error(chosen_n, chosen_m))'
    BY <1>2 DEF Nearest, Error, Distance
  <2> QED
    BY <2>1, <2>2, <2>3 DEF ChosenIs
<1>7. ASSUME NEW k \in 1 .. MaxM, k < m', InRange(Nearest(k))' PROVE Beaten(k)'
  <2> DEFINE d == Error(Nearest(k), k)
  <2>1. d \in Nat /\ k \in Nat \ {0} /\ m \in Nat \ {0} /\ e * k \in Nat /\ d * m \in Nat
    <3>1. k \in Nat \ {0} /\ Nearest(k) \in Nat
      BY <1>1, NearestIs
    <3>2. d \in Nat
      BY <1>1, <3>1, ErrorIs
    <3> HIDE DEF d, e
    <3> QED
      BY <1>1, <1>3, <3>1, <3>2
  <2>2. e * k <= d * m /\ (k < m => e * k < d * m)
    <3>1. CASE k < m
      <4>1. Beaten(k)
        BY <1>1, <1>5, <1>7, <3>1 DEF AllBeaten, InRange
      <4>2. /\ chosen_m \in Nat \ {0} /\ e * chosen_m < best_error * m
            /\ best_error * k <= d * chosen_m
        BY <1>1, <1>2, <4>1 DEF Beaten, Better
      <4> HIDE DEF e, d
      <4>3. e * k < d * m
        BY <1>1, <1>3, <2>1, <4>2, Nearer
      <4> QED
        BY <2>1, <4>3
    <3>2. CASE k = m
      BY <2>1, <3>2
    <3>3. CASE m < k
      <4>1. e = 0
        BY <1>1, <1>2, <1>7, <3>3
      <4> HIDE DEF e, d
      <4>2. e * k = 0
        BY <2>1, <4>1
      <4> QED
        BY <1>1, <2>1, <3>3, <4>2
    <3> QED
      BY <1>1, <3>1, <3>2, <3>3
  <2>3. /\ chosen_m' = m /\ best_error' = e /\ Error(Nearest(k), k)' = d /\ m # 0
    BY <1>1, <1>2, <1>5
  <2> HIDE DEF e, d
  <2> QED
    BY <2>2, <2>3 DEF Beaten
<1>8. AllBeaten'
  BY <1>7 DEF AllBeaten
<1> QED
  BY <1>4, <1>6, <1>8 DEF RatioInv

LEMMA SearchStep ==
  ASSUME RatioAssumption, RatioInv, [RatioNext]_ratioVars
  PROVE  RatioInv'
<1>1. CASE Skip
  BY <1>1, SkipStep
<1>2. CASE Choose
  BY <1>2, ChooseStep
<1>3. CASE UNCHANGED ratioVars
  BY <1>3 DEF RatioInv, RatioTypeOK, ChosenIs, AllBeaten, Beaten, InRange, Nearest, Error, Distance, ratioVars
<1> QED
  BY <1>1, <1>2, <1>3 DEF RatioNext, ReturnRatio

-----------------------------------------------------------------------------
(* The result of the search. *)

Found == RatioInv /\ m > MaxM /\ chosen_m # 0

LEMMA FoundIs ==
  ASSUME RatioAssumption, Found
  PROVE  /\ GoodRates /\ MaxN \in Nat \ {0} /\ MaxM \in Nat \ {0} /\ best_error \in Nat
         /\ chosen_m \in 1 .. MaxM /\ chosen_n = Nearest(chosen_m)
         /\ Nearest(chosen_m) \in 1 .. MaxN /\ best_error = Error(chosen_n, chosen_m)
<1>1. /\ GoodRates /\ MaxN \in Nat \ {0} /\ MaxM \in Nat \ {0} /\ best_error \in Nat
      /\ chosen_m \in 1 .. MaxM
  BY RatesAreGood DEF Found, RatioInv, RatioTypeOK
<1>2. /\ chosen_n = Nearest(chosen_m) /\ InRange(chosen_n)
      /\ best_error = Error(chosen_n, chosen_m)
  BY DEF Found, RatioInv, ChosenIs
<1>3. Nearest(chosen_m) \in Nat
  BY <1>1, NearestIs
<1> QED
  BY <1>1, <1>2, <1>3 DEF InRange

\* For the M with an N in bounds.
LEMMA NearestIsBeaten ==
  ASSUME RatioAssumption, Found, NEW n \in 1 .. MaxN, NEW k \in 1 .. MaxM, InRange(Nearest(k))
  PROVE  /\ best_error * k <= Error(n, k) * chosen_m
         /\ k < chosen_m => best_error * k < Error(n, k) * chosen_m
<1>1. Beaten(k)
  <2>1. k < m
    BY RatesAreGood DEF Found, RatioInv
  <2> QED
    BY <2>1 DEF Found, RatioInv, AllBeaten
<1>2. GoodRates /\ n \in Nat /\ k \in Nat /\ chosen_m \in Nat /\ best_error \in Nat
  BY FoundIs
<1>3. Error(Nearest(k), k) \in Nat /\ Error(n, k) \in Nat /\ Error(Nearest(k), k) <= Error(n, k)
  BY <1>2, NearestIs, ErrorIs, NearestIsNearest
<1>4. Error(Nearest(k), k) * chosen_m <= Error(n, k) * chosen_m
  BY <1>2, <1>3, Grows
<1>5. Error(Nearest(k), k) * chosen_m \in Nat /\ Error(n, k) * chosen_m \in Nat /\ best_error * k \in Nat
  BY <1>2, <1>3
<1> QED
  BY <1>1, <1>4, <1>5 DEF Beaten

LEMMA NoneBeats ==
  ASSUME RatioAssumption, Found, NEW n \in 1 .. MaxN, NEW k \in 1 .. MaxM
  PROVE  best_error * k <= Error(n, k) * chosen_m
<1> DEFINE Beats(i, j) == Error(i, j) * chosen_m < best_error * j
           T == {j \in 1 .. MaxM : \E i \in 1 .. MaxN : Beats(i, j)}
<1>1. /\ GoodRates /\ MaxN \in Nat \ {0} /\ MaxM \in Nat \ {0} /\ best_error \in Nat
      /\ chosen_m \in 1 .. MaxM /\ Nearest(chosen_m) \in 1 .. MaxN
      /\ best_error = Error(Nearest(chosen_m), chosen_m)
  BY FoundIs
<1>2. ASSUME T # {} PROVE FALSE
  <2>1. PICK j \in T : \A y \in T : j <= y
    <3>1. T \subseteq Nat
      BY <1>1
    <3> HIDE DEF T
    <3> QED
      BY <1>2, <3>1, SmallestOf
  <2>2. j \in 1 .. MaxM /\ \E i \in 1 .. MaxN : Beats(i, j)
    <3> HIDE DEF Beats
    <3> QED
      BY <2>1
  <2> PICK i \in 1 .. MaxN : Beats(i, j)
    BY <2>2
  <2>3. j \in Nat \ {0} /\ i \in Nat \ {0} /\ Nearest(j) \in Nat
    <3>1. j \in Nat \ {0} /\ i \in Nat \ {0}
      BY <1>1, <2>2
    <3> QED
      BY <1>1, <3>1, NearestIs
  <2>4. Error(i, j) * chosen_m \in Nat /\ best_error * j \in Nat /\ Error(i, j) \in Nat
    <3>1. Error(i, j) \in Nat
      BY <1>1, <2>3, ErrorIs
    <3> QED
      BY <1>1, <2>3, <3>1
  <2>5. CASE InRange(Nearest(j))
    BY <2>2, <2>3, <2>4, <2>5, NearestIsBeaten
  <2>6. CASE Nearest(j) = 0
    <3>1. chosen_m \in Nat \ {0} /\ Nearest(chosen_m) # 0
      BY <1>1
    <3>2. Error(Nearest(chosen_m), chosen_m) * j < Error(i, j) * chosen_m
      BY <1>1, <2>3, <2>6, <3>1, ZeroIsFar
    <3>3. best_error * j < Error(i, j) * chosen_m
      BY <1>1, <3>2
    <3> QED
      BY <2>2, <2>4, <3>3
  <2>7. CASE Nearest(j) > MaxN
    <3>1. j # 1
      <4>1. Nearest(1) <= Nearest(chosen_m) /\ Nearest(1) \in Nat
        BY <1>1, NearestGrows, NearestIs
      <4> QED
        BY <1>1, <2>7, <4>1
    <3>2. PICK p \in 1 .. MaxN : Error(p, j - 1) * j <= Error(i, j) * (j - 1)
      BY <1>1, <2>3, <2>7, <3>1, SmallerIsAsNear
    <3>3. j - 1 \in Nat \ {0} /\ j - 1 \in 1 .. MaxM /\ p \in Nat /\ j - 1 < j
      BY <1>1, <2>3, <3>1, <3>2
    <3>4. Error(p, j - 1) \in Nat
      BY <1>1, <3>3, ErrorIs
    <3>5. Error(p, j - 1) * chosen_m < best_error * (j - 1)
      <4> DEFINE f == Error(p, j - 1)
                 g == Error(i, j)
                 h == j - 1
      <4>1. f \in Nat /\ g \in Nat /\ h \in Nat \ {0} /\ f * j <= g * h /\ g * chosen_m < best_error * j
        BY <2>2, <2>4, <3>2, <3>3, <3>4
      <4>2. chosen_m \in Nat \ {0} /\ best_error \in Nat /\ j \in Nat \ {0}
        BY <1>1, <2>3
      <4> HIDE DEF f, g, h
      <4>3. /\ (f * j) * chosen_m <= (g * h) * chosen_m
            /\ (g * chosen_m) * h + h <= (best_error * j) * h
        BY <4>1, <4>2, Grows
      <4>4. /\ (f * j) * chosen_m = (f * chosen_m) * j /\ (g * h) * chosen_m = (g * chosen_m) * h
            /\ (best_error * j) * h = (best_error * h) * j
        BY <4>1, <4>2
      <4>5. /\ (f * chosen_m) * j \in Nat /\ (g * chosen_m) * h \in Nat /\ (best_error * h) * j \in Nat
            /\ f * chosen_m \in Nat /\ best_error * h \in Nat
        BY <4>1, <4>2
      <4>6. (f * chosen_m) * j < (best_error * h) * j
        BY <4>1, <4>3, <4>4, <4>5
      <4>7. f * chosen_m < best_error * h
        BY <4>2, <4>5, <4>6, Cancels
      <4> QED
        BY <4>7 DEF f, h
    <3>6. j - 1 \in T
      BY <3>2, <3>3, <3>5
    <3> QED
      BY <2>1, <2>3, <3>3, <3>6
  <2> QED
    BY <1>1, <2>3, <2>5, <2>6, <2>7 DEF InRange
<1>3. ~Beats(n, k)
  BY <1>2
<1>4. Error(n, k) * chosen_m \in Nat /\ best_error * k \in Nat
  <2>1. n \in Nat /\ k \in Nat
    OBVIOUS
  <2>2. Error(n, k) \in Nat
    BY <1>1, <2>1, ErrorIs
  <2> QED
    BY <1>1, <2>1, <2>2
<1> QED
  BY <1>3, <1>4

\* Only a larger M is as near as the one found.
LEMMA LaterAreEqual ==
  ASSUME RatioAssumption, Found, NEW n \in 1 .. MaxN, NEW k \in 1 .. MaxM, k < chosen_m
  PROVE  best_error * k < Error(n, k) * chosen_m
<1>1. /\ GoodRates /\ MaxN \in Nat \ {0} /\ MaxM \in Nat \ {0}
      /\ chosen_m \in 1 .. MaxM /\ Nearest(chosen_m) \in 1 .. MaxN
      /\ best_error = Error(Nearest(chosen_m), chosen_m)
  BY FoundIs
<1>2. /\ n \in Nat \ {0} /\ k \in Nat \ {0} /\ Nearest(k) \in Nat
      /\ chosen_m \in Nat \ {0} /\ Nearest(chosen_m) # 0
  <2>1. n \in Nat \ {0} /\ k \in Nat \ {0}
    OBVIOUS
  <2>2. Nearest(k) \in Nat
    BY <1>1, <2>1, NearestIs
  <2>3. chosen_m \in Nat \ {0} /\ Nearest(chosen_m) # 0
    BY <1>1
  <2> QED
    BY <2>1, <2>2, <2>3
<1>3. CASE InRange(Nearest(k))
  BY <1>3, NearestIsBeaten
<1>4. CASE Nearest(k) = 0
  <2>1. Error(Nearest(chosen_m), chosen_m) * k < Error(n, k) * chosen_m
    BY <1>1, <1>2, <1>4, ZeroIsFar
  <2> QED
    BY <1>1, <2>1
<1>5. CASE Nearest(k) > MaxN
  <2>1. Nearest(k) <= Nearest(chosen_m)
    BY <1>1, <1>2, NearestGrows
  <2> QED
    BY <1>1, <1>2, <1>5, <2>1
<1> QED
  BY <1>1, <1>2, <1>3, <1>4, <1>5 DEF InRange

LEMMA SearchFails ==
  ASSUME RatioAssumption, RatioInv, m > MaxM, chosen_m = 0
  PROVE  \/ 2 * clock_rate >= (2 * MaxN + 1) * sample_rate
         \/ 2 * clock_rate * MaxM <= sample_rate
<1> DEFINE s == sample_rate
           x == clock_rate
<1>1. /\ GoodRates /\ MaxN \in Nat \ {0} /\ MaxM \in Nat \ {0} /\ s \in Nat \ {0} /\ x \in Nat \ {0}
      /\ m \in Nat
  BY RatesAreGood DEF RatioInv, GoodRates
<1>2. ASSUME NEW k \in 1 .. MaxM PROVE Nearest(k) \in Nat /\ (Nearest(k) = 0 \/ Nearest(k) > MaxN)
  <2>1. ~InRange(Nearest(k))
    BY <1>1 DEF RatioInv, AllBeaten, Beaten
  <2>2. Nearest(k) \in Nat
    BY <1>1, NearestIs
  <2> QED
    BY <1>1, <2>1, <2>2 DEF InRange
<1>3. ASSUME NEW k \in Nat, Nearest(k) = 0 PROVE x * k \in Nat /\ 2 * (x * k) <= s
  <2>1. PICK h \in Nat : /\ s <= 2 * h + 1 /\ x * k + h < Nearest(k) * s + s
    BY <1>1, NearestIs
  <2>2. Nearest(k) * s = 0 /\ x * k \in Nat
    BY <1>1, <1>3
  <2>3. x * k + h < s
    BY <1>1, <2>1, <2>2
  <2> QED
    BY <1>1, <2>1, <2>2, <2>3
<1>4. ASSUME NEW k \in Nat, NEW c \in Nat, c < Nearest(k)
      PROVE  x * k \in Nat /\ c * s \in Nat /\ 2 * (c * s) + s <= 2 * (x * k)
  <2>1. PICK h \in Nat : 2 * h <= s /\ Nearest(k) * s <= x * k + h
    BY <1>1, NearestIs
  <2>2. Nearest(k) \in Nat
    BY <1>1, NearestIs
  <2>3. c * s + s <= Nearest(k) * s /\ x * k \in Nat /\ c * s \in Nat /\ Nearest(k) * s \in Nat
    BY <1>1, <1>4, <2>2, Grows
  <2> QED
    BY <1>1, <2>1, <2>3
<1>5. CASE Nearest(1) > MaxN
  <2>1. 2 * (MaxN * s) + s <= 2 * (x * 1) /\ MaxN * s \in Nat /\ x * 1 = x
    BY <1>1, <1>4, <1>5
  <2>2. (2 * MaxN + 1) * s = 2 * (MaxN * s) + s
    BY <1>1
  <2> QED
    BY <1>1, <2>1, <2>2
<1>6. CASE Nearest(MaxM) = 0
  <2>1. 2 * (x * MaxM) <= s
    BY <1>1, <1>3, <1>6
  <2>2. 2 * x * MaxM = 2 * (x * MaxM)
    BY <1>1
  <2> QED
    BY <2>1, <2>2
<1>7. ASSUME Nearest(1) = 0, Nearest(MaxM) > MaxN PROVE FALSE
  <2> DEFINE T == {k \in 1 .. MaxM : Nearest(k) > MaxN}
  <2>1. T \subseteq Nat /\ MaxM \in T
    BY <1>1, <1>7
  <2>2. PICK k \in T : \A y \in T : k <= y
    <3> HIDE DEF T
    <3> QED
      BY <2>1, SmallestOf
  <2>3. k \in 1 .. MaxM /\ k # 1 /\ Nearest(k) > MaxN /\ k - 1 \in 1 .. MaxM /\ k - 1 < k
    BY <1>1, <1>7, <2>2
  <2>4. Nearest(k - 1) = 0
    <3>1. k - 1 \notin T
      BY <2>2, <2>3
    <3>2. ~(Nearest(k - 1) > MaxN)
      BY <2>3, <3>1
    <3> QED
      BY <1>2, <2>3, <3>2
  <2>5. x * (k - 1) \in Nat /\ 2 * (x * (k - 1)) <= s
    BY <1>3, <2>3, <2>4
  <2>6. x * k \in Nat /\ 2 * (1 * s) + s <= 2 * (x * k) /\ 1 * s = s
    <3>1. Nearest(k) \in Nat /\ 1 < Nearest(k) /\ k \in Nat
      BY <1>1, <1>2, <2>3
    <3> QED
      BY <1>1, <1>4, <3>1
  <2>7. x * k = x * (k - 1) + x
    BY <1>1, <2>3
  <2>8. x <= x * (k - 1)
    <3>1. k - 1 \in Nat /\ 1 <= k - 1
      BY <2>3
    <3>2. 1 * x <= (k - 1) * x /\ 1 * x = x /\ (k - 1) * x = x * (k - 1)
      BY <1>1, <3>1, Grows
    <3> QED
      BY <3>2
  <2> QED
    BY <1>1, <2>5, <2>6, <2>7, <2>8
<1> QED
  BY <1>1, <1>2, <1>5, <1>6, <1>7

-----------------------------------------------------------------------------

LEMMA SearchAlways ==
  ASSUME RatioAssumption
  PROVE  RatioSpec => []RatioInv
<1>1. RatioInit => RatioInv
  BY SearchStarts
<1>2. RatioInv /\ [RatioNext]_ratioVars => RatioInv'
  BY SearchStep
<1> QED
  BY <1>1, <1>2, PTL DEF RatioSpec

(* The candidate and the choice of choose_mai_ratio keep to the bounds of    *)
(* the hardware, and a choice never has N = 0.                               *)
THEOREM RatioTypeCorrect ==
  ASSUME RatioAssumption
  PROVE  RatioSpec => []RatioTypeOK
<1>1. RatioInv => RatioTypeOK
  BY DEF RatioInv
<1> QED
  BY <1>1, SearchAlways, PTL

(* For all clock and sample rates and any bounds of N and M: one pass over M *)
(* with the nearest N of each, leaving out those that are 0 or too large, is *)
(* enough to find the ratio that no other in the bounds surpasses, and the   *)
(* first one found is in lowest terms; the search fails only for a clock     *)
(* that is beyond the bounds.                                                *)
THEOREM RatioAlwaysNearest ==
  ASSUME RatioAssumption
  PROVE  RatioSpec => []RatioIsNearest
<1>1. ASSUME RatioInv PROVE NoneIsNearer
  <2> SUFFICES ASSUME m > MaxM, chosen_m # 0, NEW n \in 1 .. MaxN, NEW k \in 1 .. MaxM
               PROVE  /\ Error(n, k) * chosen_m >= Error(chosen_n, chosen_m) * k
                      /\ Error(n, k) * chosen_m = Error(chosen_n, chosen_m) * k => chosen_m <= k
    BY DEF NoneIsNearer
  <2>1. Found
    BY <1>1 DEF Found
  <2>2. /\ GoodRates /\ best_error = Error(chosen_n, chosen_m) /\ best_error \in Nat
        /\ chosen_m \in Nat /\ n \in Nat /\ k \in Nat
    BY <2>1, FoundIs
  <2>3. Error(n, k) * chosen_m \in Nat /\ best_error * k \in Nat
    <3>1. Error(n, k) \in Nat
      BY <2>2, ErrorIs
    <3> QED
      BY <2>2, <3>1
  <2>4. best_error * k <= Error(n, k) * chosen_m
    BY <2>1, NoneBeats
  <2>5. ASSUME k < chosen_m PROVE best_error * k < Error(n, k) * chosen_m
    BY <2>1, <2>5, LaterAreEqual
  <2> QED
    BY <2>2, <2>3, <2>4, <2>5
<1>2. ASSUME RatioInv PROVE FailsOnlyOutOfRange
  BY <1>2, SearchFails DEF FailsOnlyOutOfRange
<1>3. RatioInv => RatioIsNearest
  BY <1>1, <1>2 DEF RatioIsNearest
<1> QED
  BY <1>3, SearchAlways, PTL

-----------------------------------------------------------------------------
(***************************************************************************)
(* The fault handlers, for every memory, content of the registers and      *)
(* instruction with well-formed fields: each branch reaches the address,   *)
(* moves the bytes and leaves the registers of the CPU's own instruction.  *)
(***************************************************************************)

LEMMA PowersOfTwo ==
  /\ 2^0 = 1 /\ 2^1 = 2 /\ 2^2 = 4 /\ 2^3 = 8 /\ 2^4 = 16
  /\ 2^5 = 32 /\ 2^6 = 64 /\ 2^7 = 128 /\ 2^8 = 256
BY SMT

LEMMA PowerIsPositive == ASSUME NEW n \in 0 .. 7 PROVE 2^n \in Nat /\ 2^n > 0
<1>1. CASE n = 0 BY <1>1, PowersOfTwo
<1>2. CASE n = 1 BY <1>2, PowersOfTwo
<1>3. CASE n = 2 BY <1>3, PowersOfTwo
<1>4. CASE n = 3 BY <1>4, PowersOfTwo
<1>5. CASE n = 4 BY <1>5, PowersOfTwo
<1>6. CASE n = 5 BY <1>6, PowersOfTwo
<1>7. CASE n = 6 BY <1>7, PowersOfTwo
<1>8. CASE n = 7 BY <1>8, PowersOfTwo
<1> QED BY <1>1, <1>2, <1>3, <1>4, <1>5, <1>6, <1>7, <1>8

\* A value read from the bus has the width of the access.
LEMMA TwoBytes == ASSUME NEW a \in Int PROVE Cpu!Two(a) \in 0 .. 3
<1>1. a % 16 \in 0 .. 15 /\ (a + 1) % 16 \in 0 .. 15 OBVIOUS
<1>2. Content[a % 16] \in 0 .. 1 /\ Content[(a + 1) % 16] \in 0 .. 1
  BY <1>1, HandlerAssumption
<1> QED BY <1>2 DEF Cpu!Two

LEMMA FourBytes == ASSUME NEW a \in Int PROVE Cpu!Four(a) \in 0 .. 15
<1>1. Cpu!Two(a) \in 0 .. 3 /\ Cpu!Two(a + 2) \in 0 .. 3 BY TwoBytes
<1> QED BY <1>1 DEF Cpu!Four

LEMMA ValueIsBounded ==
  ASSUME NEW a \in Int, NEW s \in {1, 2, 4, 8}
  PROVE  ValueAt(a, s) \in 0 .. 2^s - 1
<1>1. Cpu!Two(a) \in 0 .. 3 /\ Cpu!Four(a) \in 0 .. 15 /\ Cpu!Four(a + 4) \in 0 .. 15
  BY TwoBytes, FourBytes
<1>2. Content[a % 16] \in 0 .. 1
  <2>1. a % 16 \in 0 .. 15 OBVIOUS
  <2> QED BY <2>1, HandlerAssumption
<1>3. CASE s = 1 BY <1>2, <1>3, PowersOfTwo DEF ValueAt, Cpu!Joined
<1>4. CASE s = 2 BY <1>1, <1>4, PowersOfTwo DEF ValueAt, Cpu!Joined
<1>5. CASE s = 4 BY <1>1, <1>5, PowersOfTwo DEF ValueAt, Cpu!Joined
<1>6. CASE s = 8 BY <1>1, <1>6, PowersOfTwo DEF ValueAt, Cpu!Joined
<1> QED BY <1>3, <1>4, <1>5, <1>6

LEMMA Fields ==
  ASSUME NEW i \in Instructions
  PROVE  /\ WellFormed(i) /\ i.size \in {1, 2, 4, 8} /\ i.sign \in {0, 4, 8} /\ i.imm \in Int
         /\ i.rn \in Registers /\ i.rm \in Registers /\ i.rn # Zero /\ i.rm # Zero
<1>1. WellFormed(i) BY HandlerAssumption
<1> QED BY <1>1 DEF WellFormed, Registers, Zero, Base, Index

LEMMA RegistersAreValues ==
  ASSUME HandlerTypeOK, NEW n \in Registers PROVE regs[n] \in 0 .. 255
BY DEF HandlerTypeOK

-----------------------------------------------------------------------------
(* Pointers. *)

LEMMA WrapsInside ==
  ASSUME NEW a \in Int, NEW b \in Int PROVE U64(a + U64(b)) = U64(a + b)
BY DEF U64

\* sxtw adds the upper half that the CPU takes off: the difference is a round.
LEMMA ExtensionWraps ==
  ASSUME HandlerTypeOK, NEW i \in Instructions
  PROVE  LET h == Extended(i, regs[i.rm]) IN
         /\ h \in 0 .. 255 /\ Cpu!Index(i) \in Int
         /\ h = Cpu!Index(i) \/ h = Cpu!Index(i) + 256
<1>f. i.rm \in Registers /\ i.rm # Zero BY Fields
<1>r. regs[i.rm] \in 0 .. 255 BY <1>f, RegistersAreValues
<1>n. Cpu!Reg(i.rm) = regs[i.rm] BY <1>f DEF Cpu!Reg, Cpu!Zero, Zero
<1> DEFINE x == regs[i.rm]
<1> DEFINE y == x % 16
<1>y. y \in 0 .. 15 /\ x \in 0 .. 255 BY <1>r
<1>1. CASE i.option = "uxtw"
  <2>1. Extended(i, x) = y BY <1>1 DEF Extended, U32
  <2>2. Cpu!Index(i) = y BY <1>1, <1>n DEF Cpu!Index
  <2> QED BY <2>1, <2>2, <1>y
<1>2. CASE i.option = "sxtw"
  <2>1. Extended(i, x) = IF y >= 8 THEN y + 240 ELSE y BY <1>2 DEF Extended, U32
  <2>2. Cpu!Index(i) = Cpu!Signed(y, 4) BY <1>2, <1>n DEF Cpu!Index
  <2> HIDE DEF y
  <2>3. Cpu!Signed(y, 4) = IF y >= 8 THEN y - 16 ELSE y
    BY <1>y, PowersOfTwo DEF Cpu!Signed
  <2> HIDE DEF x
  <2>4. Extended(i, x) \in 0 .. 255 /\ Cpu!Index(i) \in Int
        /\ (Extended(i, x) = Cpu!Index(i) \/ Extended(i, x) = Cpu!Index(i) + 256)
    BY <2>1, <2>2, <2>3, <1>y
  <2> QED BY <2>4 DEF x
<1>3. CASE i.option \notin {"uxtw", "sxtw"}
  <2>1. Extended(i, x) = x BY <1>3 DEF Extended
  <2>2. Cpu!Index(i) = x BY <1>3, <1>n DEF Cpu!Index
  <2> QED BY <2>1, <2>2, <1>y
<1> QED BY <1>1, <1>2, <1>3

LEMMA RoundsWrap ==
  ASSUME NEW p \in Int, NEW c \in Int, NEW d \in Int, NEW k \in {0, 1, 2, 4, 8}, c = d + 256 * k
  PROVE  U64(p + c) = U64(p + d)
BY DEF U64

\* Scaled by the size of the access, the difference is still a number of rounds.
LEMMA ScaledRounds ==
  ASSUME NEW h \in Int, NEW e \in Int, NEW s \in {1, 2, 4, 8}, h = e \/ h = e + 256
  PROVE  h * s \in Int /\ e * s \in Int /\ \E k \in {0, 1, 2, 4, 8} : h * s = e * s + 256 * k
<1>1. CASE s = 1 BY <1>1
<1>2. CASE s = 2 BY <1>2
<1>3. CASE s = 4 BY <1>3
<1>4. CASE s = 8 BY <1>4
<1> QED BY <1>1, <1>2, <1>3, <1>4

\* Every form but the literal has the pointer of the CPU.
LEMMA PointerIsAddress ==
  ASSUME HandlerTypeOK, NEW i \in Instructions, i.form # "literal"
  PROVE  Before(i) = Cpu!Address(i)
<1>f. i.size \in {1, 2, 4, 8} /\ i.imm \in Int /\ i.rn \in Registers /\ i.rm \in Registers
      /\ i.rn # Zero /\ i.rm # Zero
  BY Fields
<1>r. regs[i.rn] \in 0 .. 255 /\ regs[i.rm] \in 0 .. 255
  BY <1>f, RegistersAreValues
<1>n. Cpu!Reg(i.rn) = regs[i.rn] /\ Cpu!Reg(i.rm) = regs[i.rm]
  BY <1>f DEF Cpu!Reg, Cpu!Zero, Zero
<1>1. CASE i.form \in {"imm9post", "pairpost", "exclusive"}
  <2>1. Before(i) = regs[i.rn] BY <1>1 DEF Before, SYSGetValueFromReg
  <2>2. Cpu!Address(i) = Cpu!Reg(i.rn) BY <1>1 DEF Cpu!Address
  <2> QED BY <2>1, <2>2, <1>n
<1>2. CASE i.form = "reg"
  <2> DEFINE h == Extended(i, regs[i.rm])
             e == Cpu!Index(i)
             p == regs[i.rn]
             hs == h * i.size
             es == e * i.size
  <2>0. /\ h \in 0 .. 255 /\ e \in Int /\ (h = e \/ h = e + 256)
        /\ p \in 0 .. 255
    BY <1>f, <1>r, ExtensionWraps
  <2>1. Cpu!Offset(i) = IF i.shift THEN es ELSE e
    BY <1>2 DEF Cpu!Offset
  <2>2. Cpu!Address(i) = U64(p + Cpu!Offset(i))
    BY <1>2, <1>n DEF Cpu!Address, Cpu!Moved, U64
  <2>3. Before(i) = U64(p + IF i.shift THEN U64(hs) ELSE h)
    BY <1>2 DEF Before, SYSGetValueFromReg, Shifted
  <2> HIDE DEF e, h, p
  <2>4. hs \in Int /\ es \in Int /\ \E k \in {0, 1, 2, 4, 8} : hs = es + 256 * k
    BY <2>0, <1>f, ScaledRounds
  <2> HIDE DEF hs, es
  <2>5. U64(p + U64(hs)) = U64(p + es)
    <3>1. p \in Int BY <2>0
    <3>2. U64(p + U64(hs)) = U64(p + hs) BY <2>4, <3>1, WrapsInside
    <3>3. U64(p + hs) = U64(p + es) BY <2>4, <3>1, RoundsWrap
    <3> QED BY <3>2, <3>3
  <2>6. U64(p + h) = U64(p + e)
    <3>1. p \in Int /\ h \in Int BY <2>0
    <3>2. h = e + 256 * 0 \/ h = e + 256 * 1 BY <2>0
    <3> QED BY <2>0, <3>1, <3>2, RoundsWrap
  <2> QED BY <2>1, <2>2, <2>3, <2>5, <2>6
<1>3. CASE i.form \notin {"imm9post", "pairpost", "exclusive", "reg"}
  <2>1. Cpu!Offset(i) = OffsetOf(i)
    BY <1>3 DEF Cpu!Offset, OffsetOf
  <2>2. Cpu!Address(i) = (regs[i.rn] + Cpu!Offset(i)) % 256
    BY <1>3, <1>n DEF Cpu!Address, Cpu!Moved
  <2>3. Before(i) = U64(regs[i.rn] + OffsetOf(i))
    BY <1>3 DEF Before, SYSGetValueFromReg
  <2> QED BY <2>1, <2>2, <2>3 DEF U64
<1> QED BY <1>1, <1>2, <1>3

LEMMA WriteBackIsTheSame ==
  ASSUME HandlerTypeOK, NEW i \in Instructions, NEW r
  PROVE  Updated(i, r) = Cpu!Based(r, i)
<1>f. i.rn # Zero BY Fields
<1>1. CASE i.form \in WriteBack
  <2>1. Cpu!WritesBack(i) BY <1>1 DEF WriteBack, Cpu!WritesBack
  <2>2. Cpu!Offset(i) = OffsetOf(i) BY <1>1 DEF WriteBack, Cpu!Offset, OffsetOf
  <2>3. Cpu!Moved(i) = U64(regs[i.rn] + OffsetOf(i))
    BY <2>2, <1>f DEF Cpu!Moved, Cpu!Reg, U64, Zero, Cpu!Zero
  <2>4. Updated(i, r) = [r EXCEPT ![i.rn] = U64(regs[i.rn] + OffsetOf(i))]
    BY <1>1 DEF Updated, SYSGetValueFromReg, SYSPutValueToReg
  <2>5. Cpu!Based(r, i) = [r EXCEPT ![i.rn] = Cpu!Moved(i)]
    BY <2>1, <1>f DEF Cpu!Based, Cpu!Put, Zero, Cpu!Zero
  <2> QED BY <2>3, <2>4, <2>5
<1>2. CASE i.form \notin WriteBack
  BY <1>2 DEF WriteBack, Updated, Cpu!Based, Cpu!WritesBack
<1> QED BY <1>1, <1>2

LEMMA PointerIsInt ==
  ASSUME HandlerTypeOK, NEW i \in Instructions PROVE Before(i) \in 0 .. 255 /\ U64(regs[i.rn] + OffsetOf(i)) \in 0 .. 255
<1>f. i.size \in Int /\ i.imm \in Int /\ i.rn \in Registers /\ i.rm \in Registers
  BY Fields
<1>s. i.size \in {1, 2, 4, 8} BY Fields
<1>r. regs[i.rn] \in 0 .. 255 /\ regs[i.rm] \in 0 .. 255 BY <1>f, RegistersAreValues
<1>o. OffsetOf(i) \in Int BY <1>f DEF OffsetOf
<1>u. \A x \in Int : U64(x) \in 0 .. 255 BY DEF U64
<1>1. U64(regs[i.rn] + OffsetOf(i)) \in 0 .. 255
  <2>1. regs[i.rn] + OffsetOf(i) \in Int BY <1>r, <1>o
  <2> QED BY <2>1, <1>u
<1>2. U64(regs[i.rn] + Shifted(i, Extended(i, regs[i.rm]))) \in 0 .. 255
  <2>1. Extended(i, regs[i.rm]) \in 0 .. 255 BY ExtensionWraps
  <2>2. Shifted(i, Extended(i, regs[i.rm])) \in Int
    <3>1. Extended(i, regs[i.rm]) * i.size \in Int BY <2>1, <1>f
    <3> QED BY <3>1, <2>1, <1>u DEF Shifted
  <2>3. regs[i.rn] + Shifted(i, Extended(i, regs[i.rm])) \in Int BY <2>2, <1>r
  <2> QED BY <2>3, <1>u
<1> QED BY <1>r, <1>1, <1>2 DEF Before, SYSGetValueFromReg

-----------------------------------------------------------------------------
(* Values. *)

LEMMA SignedValue ==
  ASSUME NEW i, NEW v \in Int, NEW n \in {1, 2, 4}, NEW s \in {4, 8}, n < s, v \in 0 .. 2^n - 1,
         i.sign = s, i.size = n
  PROVE  Sext(i, v) = Cpu!Signed(v, n) % (2^s) /\ Sext(i, v) \in 0 .. 255
<1> DEFINE u == IF v >= 2^(n - 1) THEN v - 2^n ELSE v
<1>1. Cpu!Signed(v, n) = u BY DEF Cpu!Signed
<1>2. Sext(i, v) = IF v >= 2^(n - 1) THEN v + 2^s - 2^n ELSE v BY DEF Sext
<1>3. CASE s = 8 /\ n = 1 BY <1>1, <1>2, <1>3, PowersOfTwo
<1>4. CASE s = 8 /\ n = 2 BY <1>1, <1>2, <1>4, PowersOfTwo
<1>5. CASE s = 8 /\ n = 4 BY <1>1, <1>2, <1>5, PowersOfTwo
<1>6. CASE s = 4 /\ n = 1 BY <1>1, <1>2, <1>6, PowersOfTwo
<1>7. CASE s = 4 /\ n = 2 BY <1>1, <1>2, <1>7, PowersOfTwo
<1> QED BY <1>3, <1>4, <1>5, <1>6, <1>7

\* What a load reads is extended as the CPU does.
LEMMA LoadedIsTheSame ==
  ASSUME NEW i \in Instructions, NEW a \in Int
  PROVE  Sext(i, ValueAt(a, i.size)) = Cpu!Loaded(i, a) /\ Cpu!Loaded(i, a) \in 0 .. 255
<1>f. i.size \in {1, 2, 4, 8} /\ i.sign \in {0, 4, 8} /\ (i.sign = 0 \/ i.size < i.sign)
  BY Fields DEF WellFormed
<1> DEFINE v == ValueAt(a, i.size)
<1>v. v \in 0 .. 2^i.size - 1 BY <1>f, ValueIsBounded
<1>1. CASE i.sign = 0
  <2>1. Sext(i, v) = v /\ Cpu!Loaded(i, a) = v BY <1>1 DEF Sext, Cpu!Loaded, ValueAt
  <2> HIDE DEF v
  <2>2. v \in 0 .. 255
    <3>1. CASE i.size = 1 BY <3>1, <1>v, PowersOfTwo
    <3>2. CASE i.size = 2 BY <3>2, <1>v, PowersOfTwo
    <3>3. CASE i.size = 4 BY <3>3, <1>v, PowersOfTwo
    <3>4. CASE i.size = 8 BY <3>4, <1>v, PowersOfTwo
    <3> QED BY <3>1, <3>2, <3>3, <3>4, <1>f
  <2> QED BY <2>1, <2>2 DEF v
<1>2. CASE i.sign # 0
  <2>1. i.size \in {1, 2, 4} /\ i.sign \in {4, 8} /\ i.size < i.sign BY <1>f, <1>2
  <2>2. Cpu!Loaded(i, a) = Cpu!Signed(v, i.size) % (2^i.sign)
    BY <1>2 DEF Cpu!Loaded, ValueAt
  <2> HIDE DEF v
  <2>3. v \in Int BY <1>v, <2>1, PowersOfTwo
  <2>4. Sext(i, v) = Cpu!Signed(v, i.size) % (2^i.sign) /\ Sext(i, v) \in 0 .. 255
    BY <1>v, <2>1, <2>3, SignedValue
  <2> QED BY <2>2, <2>4 DEF v
<1> QED BY <1>1, <1>2

-----------------------------------------------------------------------------
(* The bytes of stores. *)

LEMMA SplitIsSequence ==
  ASSUME NEW v \in Int, NEW s \in {1, 2, 4, 8}
  PROVE  /\ Cpu!Split(v, s) \in Seq(Int) /\ Len(Cpu!Split(v, s)) = s
         /\ \A k \in 1 .. s : Cpu!Split(v, s)[k] = (v \div 2^(s - k)) % 2
         /\ Cpu!Split(v, s) \o <<>> = Cpu!Split(v, s)
<1>1. ASSUME NEW k \in 1 .. s PROVE (v \div 2^(s - k)) % 2 \in Int
  <2>1. s - k \in 0 .. 7 OBVIOUS
  <2> DEFINE n == s - k
             d == 2^n
  <2> HIDE DEF n
  <2>2. n \in 0 .. 7 BY <2>1 DEF n
  <2>p. d \in Nat /\ d > 0 BY <2>2, PowerIsPositive
  <2>3. (v \div d) % 2 \in Int BY <2>p
  <2> QED BY <2>3 DEF d, n
<1>2. Cpu!Split(v, s) \in [1 .. s -> Int] BY <1>1 DEF Cpu!Split
<1>3. Cpu!Split(v, s) \in Seq(Int) /\ Len(Cpu!Split(v, s)) = s BY <1>2
<1>4. Cpu!Split(v, s) \o <<>> = Cpu!Split(v, s) BY <1>3, ConcatEmptySeq
<1> QED BY <1>3, <1>4 DEF Cpu!Split

\* The low half of a value has its low bytes.
LEMMA LowHalf ==
  ASSUME NEW v \in Int
  PROVE  U32(v) \in 0 .. 15 /\ Cpu!Split(U32(v), 4) = Cpu!Split(v, 4)
<1> DEFINE u == U32(v)
<1>1. u \in 0 .. 15 /\ u = v % 16 BY DEF U32
<1> HIDE DEF u
<1>2. /\ (u \div 8) % 2 = (v \div 8) % 2 /\ (u \div 4) % 2 = (v \div 4) % 2
      /\ (u \div 2) % 2 = (v \div 2) % 2 /\ (u \div 1) % 2 = (v \div 1) % 2
  BY <1>1
<1>3. ASSUME NEW k \in 1 .. 4 PROVE (u \div 2^(4 - k)) % 2 = (v \div 2^(4 - k)) % 2
  <2>1. CASE k = 1 BY <2>1, <1>2, PowersOfTwo
  <2>2. CASE k = 2 BY <2>2, <1>2, PowersOfTwo
  <2>3. CASE k = 3 BY <2>3, <1>2, PowersOfTwo
  <2>4. CASE k = 4 BY <2>4, <1>2, PowersOfTwo
  <2> QED BY <2>1, <2>2, <2>3, <2>4
<1>4. Cpu!Split(u, 4) = Cpu!Split(v, 4) BY <1>3 DEF Cpu!Split
<1> QED BY <1>1, <1>4 DEF u

\* One access of two words has the bytes of both.
LEMMA Halves ==
  ASSUME NEW a \in 0 .. 15, NEW b \in 0 .. 15
  PROVE  Cpu!Split(16 * a + b, 8) = Cpu!Split(a, 4) \o Cpu!Split(b, 4)
<1> DEFINE w == 16 * a + b
           s == Cpu!Split(a, 4)
           t == Cpu!Split(b, 4)
<1>1. /\ (w \div 128) % 2 = (a \div 8) % 2 /\ (w \div 64) % 2 = (a \div 4) % 2
      /\ (w \div 32) % 2 = (a \div 2) % 2 /\ (w \div 16) % 2 = (a \div 1) % 2
  OBVIOUS
<1>2. /\ (w \div 8) % 2 = (b \div 8) % 2 /\ (w \div 4) % 2 = (b \div 4) % 2
      /\ (w \div 2) % 2 = (b \div 2) % 2 /\ (w \div 1) % 2 = (b \div 1) % 2
  OBVIOUS
<1>w. w \in Int OBVIOUS
<1> HIDE DEF w
<1>3. /\ s \in Seq(Int) /\ Len(s) = 4 /\ \A k \in 1 .. 4 : s[k] = (a \div 2^(4 - k)) % 2
      /\ t \in Seq(Int) /\ Len(t) = 4 /\ \A k \in 1 .. 4 : t[k] = (b \div 2^(4 - k)) % 2
  <2>1. 4 \in {1, 2, 4, 8} /\ a \in Int /\ b \in Int OBVIOUS
  <2> QED BY <2>1, SplitIsSequence
<1>4. /\ Cpu!Split(w, 8) \in Seq(Int) /\ Len(Cpu!Split(w, 8)) = 8
      /\ \A k \in 1 .. 8 : Cpu!Split(w, 8)[k] = (w \div 2^(8 - k)) % 2
  <2>1. 8 \in {1, 2, 4, 8} OBVIOUS
  <2>2. Cpu!Split(w, 8) \in Seq(Int) /\ Len(Cpu!Split(w, 8)) = 8 BY <2>1, <1>w, SplitIsSequence
  <2>3. \A k \in 1 .. 8 : Cpu!Split(w, 8)[k] = (w \div 2^(8 - k)) % 2 BY DEF Cpu!Split
  <2> QED BY <2>2, <2>3
<1> HIDE DEF s, t
<1>5. /\ s \o t \in Seq(Int) /\ Len(s \o t) = 8
      /\ \A k \in 1 .. 8 : (s \o t)[k] = IF k <= 4 THEN s[k] ELSE t[k - 4]
  <2>1. /\ s \o t \in Seq(Int) /\ Len(s \o t) = Len(s) + Len(t)
        /\ \A k \in 1 .. Len(s) + Len(t) : (s \o t)[k] = IF k <= Len(s) THEN s[k] ELSE t[k - Len(s)]
    <3>1. s \in Seq(Int) /\ t \in Seq(Int) BY <1>3
    <3> QED BY <3>1, ConcatProperties, Zenon
  <2>2. Len(s) = 4 /\ Len(t) = 4 BY <1>3
  <2>3. Len(s) + Len(t) = 8 BY <2>2
  <2>4. ASSUME NEW k \in 1 .. 8 PROVE (s \o t)[k] = IF k <= 4 THEN s[k] ELSE t[k - 4]
    BY <2>1, <2>2, <2>3, Zenon
  <2> QED BY <2>1, <2>3, <2>4, Zenon
<1>e. /\ (s \o t)[5] = t[1] /\ (s \o t)[6] = t[2] /\ (s \o t)[7] = t[3] /\ (s \o t)[8] = t[4]
      /\ t[1] = (b \div 8) % 2 /\ t[2] = (b \div 4) % 2 /\ t[3] = (b \div 2) % 2 /\ t[4] = (b \div 1) % 2
  <2>1. /\ (s \o t)[5] = t[5 - 4] /\ (s \o t)[6] = t[6 - 4]
        /\ (s \o t)[7] = t[7 - 4] /\ (s \o t)[8] = t[8 - 4]
    <3>1. \A k \in 5 .. 8 : (s \o t)[k] = t[k - 4]
      <4>1. \A k \in 5 .. 8 : k \in 1 .. 8 /\ ~(k <= 4) OBVIOUS
      <4> QED BY <1>5, <4>1, Zenon
    <3>2. 5 \in 5 .. 8 /\ 6 \in 5 .. 8 /\ 7 \in 5 .. 8 /\ 8 \in 5 .. 8 OBVIOUS
    <3> QED BY <3>1, <3>2, Zenon
  <2>2. /\ t[1] = (b \div 2^(4 - 1)) % 2 /\ t[2] = (b \div 2^(4 - 2)) % 2
        /\ t[3] = (b \div 2^(4 - 3)) % 2 /\ t[4] = (b \div 2^(4 - 4)) % 2
    <3>1. 1 \in 1 .. 4 /\ 2 \in 1 .. 4 /\ 3 \in 1 .. 4 /\ 4 \in 1 .. 4 OBVIOUS
    <3> QED BY <1>3, <3>1, Zenon
  <2>3. 4 - 1 = 3 /\ 4 - 2 = 2 /\ 4 - 3 = 1 /\ 4 - 4 = 0 /\ 5 - 4 = 1 /\ 6 - 4 = 2 /\ 7 - 4 = 3 /\ 8 - 4 = 4
    OBVIOUS
  <2> QED BY <2>1, <2>2, <2>3, PowersOfTwo
<1>6. ASSUME NEW k \in 1 .. 8 PROVE Cpu!Split(w, 8)[k] = (s \o t)[k]
  <2>1. CASE k = 1 BY <2>1, <1>1, <1>3, <1>4, <1>5, PowersOfTwo
  <2>2. CASE k = 2 BY <2>2, <1>1, <1>3, <1>4, <1>5, PowersOfTwo
  <2>3. CASE k = 3 BY <2>3, <1>1, <1>3, <1>4, <1>5, PowersOfTwo
  <2>4. CASE k = 4 BY <2>4, <1>1, <1>3, <1>4, <1>5, PowersOfTwo
  <2>5. CASE k = 5 BY <2>5, <1>2, <1>4, <1>e, PowersOfTwo
  <2>6. CASE k = 6 BY <2>6, <1>2, <1>4, <1>e, PowersOfTwo
  <2>7. CASE k = 7 BY <2>7, <1>2, <1>4, <1>e, PowersOfTwo
  <2>8. CASE k = 8 BY <2>8, <1>2, <1>4, <1>e, PowersOfTwo
  <2>9. k \in {1, 2, 3, 4, 5, 6, 7, 8} OBVIOUS
  <2> QED BY <2>1, <2>2, <2>3, <2>4, <2>5, <2>6, <2>7, <2>8, <2>9, Zenon
<1>7. Cpu!Split(w, 8) = s \o t
  <2>1. Len(Cpu!Split(w, 8)) = Len(s \o t) /\ 1 .. Len(Cpu!Split(w, 8)) = 1 .. 8 BY <1>4, <1>5
  <2> QED BY <2>1, <1>4, <1>5, <1>6, SeqEqual
<1> QED BY <1>7 DEF w, s, t

-----------------------------------------------------------------------------
(* The steps. *)

\* What keeps the type.
ValuesIn(f, S) == DOMAIN f = S /\ \A n \in S : f[n] \in 0 .. 255

LEMMA PutIsTyped ==
  ASSUME NEW f, NEW S, ValuesIn(f, S), NEW n, NEW v \in 0 .. 255
  PROVE  ValuesIn([f EXCEPT ![n] = v], S)
BY DEF ValuesIn

LEMMA TypesAre ==
  HandlerTypeOK <=>
    /\ ValuesIn(regs, Registers) /\ ValuesIn(fregs, {0, 1})
    /\ bus # <<>> => bus.at \in 0 .. 15 /\ Len(bus.bytes) \in {1, 2, 4, 8, 16}
<1>1. ValuesIn(regs, Registers) <=> DOMAIN regs = Registers /\ \A n \in DOMAIN regs : regs[n] \in 0 .. 255
  BY DEF ValuesIn
<1>2. ValuesIn(fregs, {0, 1}) <=> DOMAIN fregs = {0, 1} /\ \A n \in DOMAIN fregs : fregs[n] \in 0 .. 255
  BY DEF ValuesIn
<1> QED BY <1>1, <1>2, Zenon DEF HandlerTypeOK

LEMMA FloatValue ==
  ASSUME HandlerTypeOK, NEW n \in {0, 1}
  PROVE  fregs[n] \in 0 .. 255
<1>1. ValuesIn(fregs, {0, 1}) BY TypesAre
<1> QED BY <1>1, Zenon DEF ValuesIn

LEMMA TypesComeFrom ==
  ASSUME ValuesIn(regs', Registers), ValuesIn(fregs', {0, 1}),
         bus' # <<>> => bus'.at \in 0 .. 15 /\ Len(bus'.bytes) \in {1, 2, 4, 8, 16}
  PROVE  HandlerTypeOK'
<1>1. DOMAIN regs' = Registers /\ \A n \in DOMAIN regs' : regs'[n] \in 0 .. 255
  BY Zenon DEF ValuesIn
<1>2. DOMAIN fregs' = {0, 1} /\ \A n \in DOMAIN fregs' : fregs'[n] \in 0 .. 255
  BY Zenon DEF ValuesIn
<1> QED BY <1>1, <1>2, Zenon DEF HandlerTypeOK

LEMMA UpdateIsTyped ==
  ASSUME HandlerTypeOK, NEW i \in Instructions, NEW r, ValuesIn(r, Registers)
  PROVE  ValuesIn(Updated(i, r), Registers)
<1>1. U64(regs[i.rn] + OffsetOf(i)) \in 0 .. 255 BY PointerIsInt
<1>2. Updated(i, r) = [r EXCEPT ![i.rn] = U64(regs[i.rn] + OffsetOf(i))] \/ Updated(i, r) = r
  BY DEF Updated, SYSPutValueToReg, SYSGetValueFromReg
<1>3. ValuesIn([r EXCEPT ![i.rn] = U64(regs[i.rn] + OffsetOf(i))], Registers)
  BY <1>1, PutIsTyped
<1> QED BY <1>2, <1>3

LEMMA PutsCommute ==
  ASSUME NEW r, NEW a, NEW b, a # b, NEW x, NEW y
  PROVE  [[r EXCEPT ![a] = x] EXCEPT ![b] = y] = [[r EXCEPT ![b] = y] EXCEPT ![a] = x]
OBVIOUS

LEMMA StepEnds ==
  ASSUME NEW i \in Instructions, done = <<>>, Ended(i), Cpu!Execute(i)
  PROVE  Cpu!Next
<1>1. done' = <<i, "ended">> BY DEF Ended
<1>2. done' # done /\ done'[1] = i BY <1>1
<1> QED BY <1>2 DEF Cpu!Next

LEMMA StepStops ==
  ASSUME NEW i \in Instructions, done = <<>>, NEW r, Hangs(i, r),
         i \notin Emulated \/ (i.kind # "flush" /\ ~Cpu!Reaches(Cpu!Address(i)))
  PROVE  Cpu!Next
<1>1. done' = <<i, "stopped">> BY DEF Hangs
<1>2. done' # done /\ done'[1] = i BY <1>1
<1>3. Cpu!Stop(i) BY <1>1 DEF Cpu!Stop
<1> QED BY <1>2, <1>3 DEF Cpu!Next

LEMMA HangKeepsTypes ==
  ASSUME HandlerTypeOK, NEW i, NEW r, ValuesIn(r, Registers), Hangs(i, r)
  PROVE  HandlerTypeOK'
<1>1. regs' = r /\ fregs' = fregs /\ bus' = bus BY DEF Hangs
<1>2. ValuesIn(regs', Registers) BY <1>1
<1>3. ValuesIn(fregs', {0, 1}) BY <1>1, TypesAre
<1>4. bus' # <<>> => bus'.at \in 0 .. 15 /\ Len(bus'.bytes) \in {1, 2, 4, 8, 16}
  BY <1>1 DEF HandlerTypeOK
<1> QED BY <1>2, <1>3, <1>4 DEF HandlerTypeOK, ValuesIn

\* A store of what the CPU stores, with the registers it leaves.
LEMMA StoreSteps ==
  ASSUME HandlerTypeOK, NEW i \in Instructions, done = <<>>,
         i.kind = "store", i.form # "literal", NEW bytes, NEW r,
         WriteVal(i, bytes, Before(i), r),
         Len(bytes) \in {1, 2, 4, 8, 16}, ValuesIn(r, Registers),
         bytes = Cpu!Data(i, i.rt) \o (IF Cpu!IsPair(i) THEN Cpu!Data(i, i.rt2) ELSE <<>>),
         r = Cpu!Based(IF i.form = "exclusive" THEN Cpu!Put(regs, i.rm, 0) ELSE regs, i)
  PROVE  Cpu!Next /\ HandlerTypeOK'
<1>a. Before(i) = Cpu!Address(i) /\ Before(i) \in 0 .. 255 BY PointerIsAddress, PointerIsInt
<1>1. CASE Reached(Before(i))
  <2>1. /\ Ended(i) /\ regs' = r /\ fregs' = fregs
        /\ bus' = [at |-> Wrapped(Before(i)), bytes |-> bytes]
    BY <1>1 DEF WriteVal
  <2>2. Cpu!Reaches(Cpu!Address(i)) BY <1>1, <1>a DEF Reached, Cpu!Reaches
  <2>3. Cpu!Store(i) BY <2>1, <1>a DEF Cpu!Store, Wrapped, U32
  <2>4. Cpu!Execute(i) BY <2>1, <2>2, <2>3 DEF Cpu!Execute, Ended
  <2>5. bus'.at \in 0 .. 15 /\ Len(bus'.bytes) \in {1, 2, 4, 8, 16}
    <3>1. Wrapped(Before(i)) \in 0 .. 15
      <4>1. \A x \in Int : U32(x) \in 0 .. 15 BY DEF U32
      <4>2. Before(i) \in Int BY <1>a
      <4> QED BY <4>1, <4>2 DEF Wrapped
    <3>2. bus'.at = Wrapped(Before(i)) /\ bus'.bytes = bytes BY <2>1
    <3> QED BY <3>1, <3>2
  <2>6. HandlerTypeOK'
    <3>1. ValuesIn(regs', Registers) /\ ValuesIn(fregs', {0, 1}) BY <2>1, TypesAre
    <3> QED BY <3>1, <2>5, TypesComeFrom
  <2> QED BY <2>1, <2>4, <2>6, StepEnds
<1>2. CASE ~Reached(Before(i))
  <2>1. Hangs(i, r) BY <1>2 DEF WriteVal
  <2>2. ~Cpu!Reaches(Cpu!Address(i)) BY <1>2, <1>a DEF Reached, Cpu!Reaches
  <2> QED BY <2>1, <2>2, StepStops, HangKeepsTypes
<1> QED BY <1>1, <1>2

LEMMA RtIsReg ==
  ASSUME HandlerTypeOK, NEW n \in Registers \cup {Zero}
  PROVE  RtValue(n) = Cpu!Reg(n) /\ RtValue(n) \in 0 .. 255
<1>1. CASE n = Zero BY <1>1 DEF RtValue, Cpu!Reg, Zero, Cpu!Zero
<1>2. CASE n # Zero
  <2>1. n \in Registers BY <1>2
  <2>2. regs[n] \in 0 .. 255 BY <2>1, RegistersAreValues
  <2> QED BY <1>2, <2>2 DEF RtValue, SYSGetValueFromReg, Cpu!Reg, Zero, Cpu!Zero
<1> QED BY <1>1, <1>2

LEMMA OperandsOf ==
  ASSUME NEW i \in Instructions
  PROVE  /\ i.fp => i.rt \in {0, 1}
         /\ ~i.fp => i.rt \in Registers \cup {Zero}
         /\ ~i.fp /\ i.form \in Pair => i.rt2 \in Registers \cup {Zero} /\ i.size \in {4, 8}
         /\ ~i.fp /\ i.kind = "load" => i.rt # Zero /\ (i.form \in Pair => i.rt2 # Zero)
         /\ ~i.fp /\ i.form \in WriteBack => i.rn # i.rt /\ (i.form \in Pair => i.rn # i.rt2)
BY Fields DEF WellFormed, Operands

LEMMA StoreFloatSteps ==
  ASSUME HandlerTypeOK, NEW i \in Instructions, done = <<>>, StoreFloat(i)
  PROVE  Cpu!Next /\ HandlerTypeOK'
<1>1. /\ i.kind = "store" /\ i.fp /\ i.size \in {4, 8}
      /\ i.form \in {"imm9", "imm9post", "imm9pre", "imm12", "reg"}
      /\ WriteVal(i, BytesOf(get_fpn(i), i.size), Before(i), Updated(i, regs))
  BY DEF StoreFloat
<1>2. fregs[i.rt] \in Int
  <2>1. i.rt \in {0, 1} BY <1>1, OperandsOf
  <2>2. fregs[i.rt] \in 0 .. 255 BY <2>1, FloatValue
  <2>3. 0 .. 255 \subseteq Int OBVIOUS
  <2> QED BY <2>2, <2>3, Zenon
<1>3. BytesOf(get_fpn(i), i.size) = Cpu!Split(fregs[i.rt], i.size)
  <2>1. CASE i.size = 8 BY <2>1 DEF BytesOf, get_fpn
  <2>2. CASE i.size = 4
    <3>1. get_fpn(i) = U32(fregs[i.rt]) BY <2>2 DEF get_fpn
    <3> QED BY <2>2, <3>1, <1>2, LowHalf DEF BytesOf
  <2> QED BY <1>1, <2>1, <2>2
<1>4. ~Cpu!IsPair(i) /\ i.form # "exclusive" /\ i.form # "literal" BY <1>1 DEF Cpu!IsPair
<1>5. /\ Cpu!Data(i, i.rt) = Cpu!Split(fregs[i.rt], i.size)
      /\ Cpu!Data(i, i.rt) \o <<>> = Cpu!Data(i, i.rt) /\ Len(Cpu!Data(i, i.rt)) = i.size
  <2>1. Cpu!Data(i, i.rt) = Cpu!Split(fregs[i.rt], i.size) BY <1>1 DEF Cpu!Data
  <2>2. i.size \in {1, 2, 4, 8} BY <1>1
  <2> QED BY <2>1, <2>2, <1>2, SplitIsSequence
<1>6. Updated(i, regs) = Cpu!Based(regs, i) BY WriteBackIsTheSame
<1>7. ValuesIn(Updated(i, regs), Registers) BY UpdateIsTyped, TypesAre
<1> DEFINE bytes == BytesOf(get_fpn(i), i.size)
           r == Updated(i, regs)
<1>8. /\ WriteVal(i, bytes, Before(i), r) /\ Len(bytes) \in {1, 2, 4, 8, 16} /\ ValuesIn(r, Registers)
      /\ bytes = Cpu!Data(i, i.rt) \o (IF Cpu!IsPair(i) THEN Cpu!Data(i, i.rt2) ELSE <<>>)
      /\ r = Cpu!Based(IF i.form = "exclusive" THEN Cpu!Put(regs, i.rm, 0) ELSE regs, i)
  BY <1>1, <1>3, <1>4, <1>5, <1>6, <1>7
<1> HIDE DEF bytes, r
<1> QED BY <1>1, <1>4, <1>8, StoreSteps

\* Of a register, or of the zero register.
LEMMA IntegerData ==
  ASSUME HandlerTypeOK, NEW i \in Instructions, ~i.fp, NEW n \in Registers \cup {Zero}
  PROVE  /\ Cpu!Data(i, n) = BytesOf(RtValue(n), i.size) /\ RtValue(n) \in 0 .. 255
         /\ Cpu!Data(i, n) \in Seq(Int) /\ Len(Cpu!Data(i, n)) = i.size
         /\ Cpu!Data(i, n) \o <<>> = Cpu!Data(i, n)
<1>1. RtValue(n) = Cpu!Reg(n) /\ RtValue(n) \in 0 .. 255 BY RtIsReg
<1>2. Cpu!Data(i, n) = Cpu!Split(RtValue(n), i.size) BY <1>1 DEF Cpu!Data
<1>3. RtValue(n) \in Int /\ i.size \in {1, 2, 4, 8} BY <1>1, Fields
<1>4. /\ Cpu!Split(RtValue(n), i.size) \in Seq(Int) /\ Len(Cpu!Split(RtValue(n), i.size)) = i.size
      /\ Cpu!Split(RtValue(n), i.size) \o <<>> = Cpu!Split(RtValue(n), i.size)
  BY <1>3, SplitIsSequence
<1> QED BY <1>1, <1>2, <1>4 DEF BytesOf

LEMMA StoreIntegerSteps ==
  ASSUME HandlerTypeOK, NEW i \in Instructions, done = <<>>, StoreInteger(i)
  PROVE  Cpu!Next /\ HandlerTypeOK'
<1>1. /\ i.kind = "store" /\ ~i.fp
      /\ i.form \in {"imm9", "imm9post", "imm9pre", "imm12", "reg"}
      /\ WriteVal(i, BytesOf(RtValue(i.rt), i.size), Before(i), Updated(i, regs))
  BY DEF StoreInteger
<1>2. i.rt \in Registers \cup {Zero} BY <1>1, OperandsOf
<1>3. ~Cpu!IsPair(i) /\ i.form # "exclusive" /\ i.form # "literal" BY <1>1 DEF Cpu!IsPair
<1>4. /\ Cpu!Data(i, i.rt) = BytesOf(RtValue(i.rt), i.size) /\ Len(Cpu!Data(i, i.rt)) = i.size
      /\ Cpu!Data(i, i.rt) \o <<>> = Cpu!Data(i, i.rt)
  BY <1>1, <1>2, IntegerData
<1>5. Updated(i, regs) = Cpu!Based(regs, i) BY WriteBackIsTheSame
<1>6. ValuesIn(Updated(i, regs), Registers) BY UpdateIsTyped, TypesAre
<1> DEFINE bytes == BytesOf(RtValue(i.rt), i.size)
           r == Updated(i, regs)
<1>7. i.size \in {1, 2, 4, 8} BY Fields
<1>8. /\ WriteVal(i, bytes, Before(i), r) /\ Len(bytes) \in {1, 2, 4, 8, 16} /\ ValuesIn(r, Registers)
      /\ bytes = Cpu!Data(i, i.rt) \o (IF Cpu!IsPair(i) THEN Cpu!Data(i, i.rt2) ELSE <<>>)
      /\ r = Cpu!Based(IF i.form = "exclusive" THEN Cpu!Put(regs, i.rm, 0) ELSE regs, i)
  BY <1>1, <1>3, <1>4, <1>5, <1>6, <1>7
<1> HIDE DEF bytes, r
<1> QED BY <1>1, <1>3, <1>8, StoreSteps

LEMMA StoreExclusiveSteps ==
  ASSUME HandlerTypeOK, NEW i \in Instructions, done = <<>>, StoreExclusive(i)
  PROVE  Cpu!Next /\ HandlerTypeOK'
<1>1. /\ i.kind = "store" /\ ~i.fp /\ i.form = "exclusive"
      /\ WriteVal(i, BytesOf(RtValue(i.rt), i.size), Before(i), SYSPutValueToReg(regs, i.rm, 0))
  BY DEF StoreExclusive
<1>2. i.rt \in Registers \cup {Zero} BY <1>1, OperandsOf
<1>3. ~Cpu!IsPair(i) /\ i.form # "literal" /\ ~Cpu!WritesBack(i)
  BY <1>1 DEF Cpu!IsPair, Cpu!WritesBack
<1>4. /\ Cpu!Data(i, i.rt) = BytesOf(RtValue(i.rt), i.size) /\ Len(Cpu!Data(i, i.rt)) = i.size
      /\ Cpu!Data(i, i.rt) \o <<>> = Cpu!Data(i, i.rt)
  BY <1>1, <1>2, IntegerData
<1> DEFINE bytes == BytesOf(RtValue(i.rt), i.size)
           r == SYSPutValueToReg(regs, i.rm, 0)
<1>5. r = Cpu!Based(IF i.form = "exclusive" THEN Cpu!Put(regs, i.rm, 0) ELSE regs, i)
  BY <1>1, <1>3, Fields DEF SYSPutValueToReg, Cpu!Based, Cpu!Put, Zero, Cpu!Zero
<1>6. ValuesIn(r, Registers)
  <2>1. 0 \in 0 .. 255 /\ ValuesIn(regs, Registers) BY TypesAre
  <2> QED BY <2>1, PutIsTyped DEF SYSPutValueToReg
<1>7. i.size \in {1, 2, 4, 8} BY Fields
<1>8. /\ WriteVal(i, bytes, Before(i), r) /\ Len(bytes) \in {1, 2, 4, 8, 16}
      /\ bytes = Cpu!Data(i, i.rt) \o (IF Cpu!IsPair(i) THEN Cpu!Data(i, i.rt2) ELSE <<>>)
  BY <1>1, <1>3, <1>4, <1>7
<1> HIDE DEF bytes, r
<1> QED BY <1>1, <1>3, <1>5, <1>6, <1>8, StoreSteps

LEMMA StorePairSteps ==
  ASSUME HandlerTypeOK, NEW i \in Instructions, done = <<>>, StorePair(i)
  PROVE  Cpu!Next /\ HandlerTypeOK'
<1> DEFINE bytes == IF i.size = 4
                    THEN BytesOf(U64(16 * RtValue(i.rt)) + U32(RtValue(i.rt2)), 8)
                    ELSE BytesOf(RtValue(i.rt), 8) \o BytesOf(RtValue(i.rt2), 8)
           r == Updated(i, regs)
<1>1. /\ i.kind = "store" /\ ~i.fp /\ i.form \in Pair /\ WriteVal(i, bytes, Before(i), r)
  BY DEF StorePair
<1>2. i.rt \in Registers \cup {Zero} /\ i.rt2 \in Registers \cup {Zero} /\ i.size \in {4, 8}
  BY <1>1, OperandsOf
<1>3. Cpu!IsPair(i) /\ i.form # "exclusive" /\ i.form # "literal" BY <1>1 DEF Pair, Cpu!IsPair
<1> DEFINE d == Cpu!Data(i, i.rt)
           e == Cpu!Data(i, i.rt2)
           x == RtValue(i.rt)
           y == RtValue(i.rt2)
<1>4. /\ d = BytesOf(x, i.size) /\ d \in Seq(Int) /\ Len(d) = i.size /\ x \in 0 .. 255
      /\ e = BytesOf(y, i.size) /\ e \in Seq(Int) /\ Len(e) = i.size /\ y \in 0 .. 255
  <2>1. /\ d = BytesOf(x, i.size) /\ x \in 0 .. 255 /\ d \in Seq(Int) /\ Len(d) = i.size
    BY <1>1, <1>2, IntegerData, Zenon
  <2>2. /\ e = BytesOf(y, i.size) /\ y \in 0 .. 255 /\ e \in Seq(Int) /\ Len(e) = i.size
    BY <1>1, <1>2, IntegerData, Zenon
  <2> QED BY <2>1, <2>2, Zenon
<1>5. bytes = d \o e
  <2>1. CASE i.size = 8
    <3>1. bytes = BytesOf(x, 8) \o BytesOf(y, 8) BY <2>1
    <3> HIDE DEF bytes, d, e, x, y
    <3> QED BY <2>1, <3>1, <1>4
  <2>2. CASE i.size = 4
    <3>1. bytes = BytesOf(U64(16 * x) + U32(y), 8) BY <2>2
    <3> HIDE DEF bytes, d, e, x, y
    <3>2. U64(16 * x) = 16 * U32(x) BY <1>4 DEF U64, U32
    <3>3. /\ U32(x) \in 0 .. 15 /\ Cpu!Split(U32(x), 4) = Cpu!Split(x, 4)
          /\ U32(y) \in 0 .. 15 /\ Cpu!Split(U32(y), 4) = Cpu!Split(y, 4)
      BY <1>4, LowHalf
    <3>4. Cpu!Split(16 * U32(x) + U32(y), 8) = Cpu!Split(U32(x), 4) \o Cpu!Split(U32(y), 4)
      BY <3>3, Halves
    <3>5. d = Cpu!Split(x, 4) /\ e = Cpu!Split(y, 4) BY <1>4, <2>2 DEF BytesOf
    <3>6. bytes = Cpu!Split(16 * U32(x) + U32(y), 8) BY <3>1, <3>2 DEF BytesOf
    <3> QED BY <3>3, <3>4, <3>5, <3>6
  <2> QED BY <1>2, <2>1, <2>2
<1>6. Len(bytes) \in {1, 2, 4, 8, 16}
  <2> HIDE DEF bytes, d, e, x, y
  <2>1. Len(d \o e) = Len(d) + Len(e) BY <1>4, ConcatProperties
  <2> QED BY <2>1, <1>2, <1>4, <1>5
<1>7. r = Cpu!Based(regs, i) BY WriteBackIsTheSame
<1>8. ValuesIn(r, Registers) BY UpdateIsTyped, TypesAre
<1>9. bytes = Cpu!Data(i, i.rt) \o (IF Cpu!IsPair(i) THEN Cpu!Data(i, i.rt2) ELSE <<>>)
  BY <1>3, <1>5
<1>10. r = Cpu!Based(IF i.form = "exclusive" THEN Cpu!Put(regs, i.rm, 0) ELSE regs, i)
  BY <1>3, <1>7
<1> HIDE DEF bytes, r, d, e, x, y
<1> QED BY <1>1, <1>3, <1>6, <1>8, <1>9, <1>10, StoreSteps

-----------------------------------------------------------------------------
(* Loads. *)

\* A load of one register.
LEMMA LoadSteps ==
  ASSUME HandlerTypeOK, NEW i \in Instructions, done = <<>>, i.kind = "load", ~i.fp, i.form \notin Pair,
         Cpu!Reaches(Cpu!Address(i)), Cpu!Address(i) \in Int, Ended(i), bus' = bus, fregs' = fregs,
         regs' = Updated(i, [regs EXCEPT ![i.rt] = Cpu!Loaded(i, Cpu!Address(i))])
  PROVE  Cpu!Next /\ HandlerTypeOK'
<1> DEFINE v == Cpu!Loaded(i, Cpu!Address(i))
<1>1. v \in 0 .. 255 BY LoadedIsTheSame
<1>2. i.rt # Zero /\ (i.form \in WriteBack => i.rn # i.rt) /\ i.rn # Zero BY OperandsOf, Fields
<1>3. ~Cpu!IsPair(i) BY DEF Pair, Cpu!IsPair
<1>4. regs' = Cpu!Based([regs EXCEPT ![i.rt] = v], i) BY WriteBackIsTheSame
<1> HIDE DEF v
<1>5. Cpu!Based([regs EXCEPT ![i.rt] = v], i) = [Cpu!Based(regs, i) EXCEPT ![i.rt] = v]
  <2>1. CASE i.form \in WriteBack
    <3>1. i.rn # i.rt BY <1>2, <2>1
    <3>2. \A r : Cpu!Based(r, i) = [r EXCEPT ![i.rn] = Cpu!Moved(i)]
      BY <1>2, <2>1 DEF WriteBack, Cpu!Based, Cpu!WritesBack, Cpu!Put, Zero, Cpu!Zero
    <3> DEFINE up == Cpu!Moved(i)
    <3>3. Cpu!Based([regs EXCEPT ![i.rt] = v], i) = [[regs EXCEPT ![i.rt] = v] EXCEPT ![i.rn] = up] BY <3>2
    <3>4. Cpu!Based(regs, i) = [regs EXCEPT ![i.rn] = up] BY <3>2
    <3>5. [[regs EXCEPT ![i.rt] = v] EXCEPT ![i.rn] = up] = [[regs EXCEPT ![i.rn] = up] EXCEPT ![i.rt] = v]
      BY <3>1, PutsCommute
    <3> QED BY <3>3, <3>4, <3>5
  <2>2. CASE i.form \notin WriteBack
    BY <2>2 DEF WriteBack, Cpu!Based, Cpu!WritesBack
  <2> QED BY <2>1, <2>2
<1>6. Cpu!LoadInteger(i)
  BY <1>2, <1>3, <1>4, <1>5 DEF Cpu!LoadInteger, Cpu!Put, Zero, Cpu!Zero, v
<1>7. Cpu!Execute(i) BY <1>6 DEF Cpu!Execute, Ended
<1>8. ValuesIn(regs', Registers)
  <2>1. ValuesIn([regs EXCEPT ![i.rt] = v], Registers) BY <1>1, TypesAre, PutIsTyped
  <2>2. ValuesIn(Updated(i, [regs EXCEPT ![i.rt] = v]), Registers) BY <2>1, UpdateIsTyped
  <2> QED BY <2>2 DEF v
<1>9. HandlerTypeOK'
  <2>1. fregs' = fregs /\ bus' = bus OBVIOUS
  <2> QED BY <1>8, <2>1, TypesAre, TypesComeFrom
<1> QED BY <1>7, <1>9, StepEnds

\* Nothing but a pointer outside the bus stops the machine.
LEMMA MissSteps ==
  ASSUME HandlerTypeOK, NEW i \in Instructions, done = <<>>, i.kind # "flush",
         ~Cpu!Reaches(Cpu!Address(i)), NEW r, ValuesIn(r, Registers), Hangs(i, r)
  PROVE  Cpu!Next /\ HandlerTypeOK'
<1>1. Cpu!Next BY StepStops
<1>2. HandlerTypeOK' BY HangKeepsTypes
<1> QED BY <1>1, <1>2

LEMMA LoadIntegerSteps ==
  ASSUME HandlerTypeOK, NEW i \in Instructions, done = <<>>, LoadInteger(i)
  PROVE  Cpu!Next /\ HandlerTypeOK'
<1>1. /\ i.kind = "load" /\ ~i.fp
      /\ i.form \in {"imm9", "imm9post", "imm9pre", "imm12", "reg", "exclusive"}
  BY DEF LoadInteger
<1>2. i.form \notin Pair /\ i.form # "literal" BY <1>1 DEF Pair
<1>3. Before(i) = Cpu!Address(i) /\ Before(i) \in 0 .. 255 BY <1>2, PointerIsAddress, PointerIsInt
<1>4. LoadPtr(i) = Cpu!Address(i) BY <1>3 DEF LoadPtr, FAR
<1>a. Cpu!Address(i) \in Int BY <1>3
<1>5. CASE Reached(Cpu!Address(i))
  <2>1. /\ Ended(i) /\ bus' = bus /\ fregs' = fregs
        /\ regs' = Updated(i, SYSPutValueToReg(regs, i.rt, Sext(i, ValueAt(Cpu!Address(i), i.size))))
    BY <1>4, <1>5 DEF LoadInteger
  <2>2. Sext(i, ValueAt(Cpu!Address(i), i.size)) = Cpu!Loaded(i, Cpu!Address(i))
    BY <1>a, LoadedIsTheSame
  <2>3. regs' = Updated(i, [regs EXCEPT ![i.rt] = Cpu!Loaded(i, Cpu!Address(i))])
    BY <2>1, <2>2 DEF SYSPutValueToReg
  <2>4. Cpu!Reaches(Cpu!Address(i)) BY <1>5 DEF Reached, Cpu!Reaches
  <2> QED BY <1>1, <1>2, <1>a, <2>1, <2>3, <2>4, LoadSteps
<1>6. CASE ~Reached(Cpu!Address(i))
  <2>1. Hangs(i, regs) BY <1>4, <1>6 DEF LoadInteger
  <2>2. ~Cpu!Reaches(Cpu!Address(i)) BY <1>6 DEF Reached, Cpu!Reaches
  <2>3. ValuesIn(regs, Registers) BY TypesAre
  <2> QED BY <1>1, <2>1, <2>2, <2>3, MissSteps
<1> QED BY <1>5, <1>6

LEMMA LoadLiteralKeepsTypes ==
  ASSUME HandlerTypeOK, NEW i \in Instructions, LoadLiteral(i)
  PROVE  HandlerTypeOK'
<1>1. i.form = "literal" BY DEF LoadLiteral
<1>a. FAR(i) \in Int BY <1>1, Fields DEF FAR, Cpu!Address
<1> DEFINE v == Sext(i, ValueAt(FAR(i), i.size))
<1>v. v \in 0 .. 255 BY <1>a, LoadedIsTheSame
<1> HIDE DEF v
<1>2. ValuesIn(regs, Registers) /\ ValuesIn(fregs, {0, 1}) BY TypesAre
<1>3. fregs' = fregs /\ bus' = bus /\ (regs' = regs \/ regs' = [regs EXCEPT ![i.rt] = v])
  BY DEF LoadLiteral, Hangs, SYSPutValueToReg, v
<1>4. ValuesIn([regs EXCEPT ![i.rt] = v], Registers) BY <1>v, <1>2, PutIsTyped
<1>5. ValuesIn(regs', Registers) /\ ValuesIn(fregs', {0, 1}) BY <1>2, <1>3, <1>4
<1>6. bus' # <<>> => bus'.at \in 0 .. 15 /\ Len(bus'.bytes) \in {1, 2, 4, 8, 16}
  BY <1>3 DEF HandlerTypeOK
<1> QED BY <1>5, <1>6 DEF HandlerTypeOK, ValuesIn

LEMMA LoadLiteralSteps ==
  ASSUME HandlerTypeOK, NEW i \in Instructions, ~Mishandled(i), done = <<>>, LoadLiteral(i)
  PROVE  Cpu!Next /\ HandlerTypeOK'
<1>1. i.kind = "load" /\ ~i.fp /\ i.form = "literal" BY DEF LoadLiteral
<1>2. i.form \notin Pair /\ i.form \notin WriteBack /\ i.sign # 0
  BY <1>1 DEF Pair, WriteBack, Mishandled
<1>3. Cpu!Address(i) = i.imm BY <1>1 DEF Cpu!Address
<1>a. Cpu!Address(i) \in Int BY <1>3, Fields
<1>5. CASE Reached(Cpu!Address(i))
  <2>1. /\ Ended(i) /\ bus' = bus /\ fregs' = fregs
        /\ regs' = SYSPutValueToReg(regs, i.rt, Sext(i, ValueAt(Cpu!Address(i), i.size)))
    BY <1>2, <1>5 DEF LoadLiteral, FAR
  <2>2. Sext(i, ValueAt(Cpu!Address(i), i.size)) = Cpu!Loaded(i, Cpu!Address(i))
    BY <1>a, LoadedIsTheSame
  <2>3. regs' = Updated(i, [regs EXCEPT ![i.rt] = Cpu!Loaded(i, Cpu!Address(i))])
    BY <1>2, <2>1, <2>2 DEF SYSPutValueToReg, Updated
  <2>4. Cpu!Reaches(Cpu!Address(i)) BY <1>5 DEF Reached, Cpu!Reaches
  <2> QED BY <1>1, <1>2, <1>a, <2>1, <2>3, <2>4, LoadSteps
<1>6. CASE ~Reached(Cpu!Address(i))
  <2>1. Hangs(i, regs) BY <1>6 DEF LoadLiteral, FAR
  <2>2. ~Cpu!Reaches(Cpu!Address(i)) BY <1>6 DEF Reached, Cpu!Reaches
  <2>3. ValuesIn(regs, Registers) BY TypesAre
  <2> QED BY <1>1, <2>1, <2>2, <2>3, MissSteps
<1> QED BY <1>5, <1>6

LEMMA LoadPairSteps ==
  ASSUME HandlerTypeOK, NEW i \in Instructions, done = <<>>, LoadPair(i)
  PROVE  Cpu!Next /\ HandlerTypeOK'
<1>1. i.kind = "load" /\ ~i.fp /\ i.form \in Pair BY DEF LoadPair
<1>2. i.form # "literal" /\ Cpu!IsPair(i) BY <1>1 DEF Pair, Cpu!IsPair
<1> DEFINE a == Cpu!Address(i)
           v == Cpu!Loaded(i, a)
           w == Cpu!Loaded(i, a + i.size)
<1>3. Before(i) = a /\ a \in Int
  <2>1. Before(i) = Cpu!Address(i) /\ Before(i) \in 0 .. 255 BY <1>2, PointerIsAddress, PointerIsInt
  <2> QED BY <2>1
<1>4. a + i.size \in Int BY <1>3, Fields
<1>5. /\ Sext(i, ValueAt(a, i.size)) = v /\ v \in 0 .. 255
      /\ Sext(i, ValueAt(a + i.size, i.size)) = w /\ w \in 0 .. 255
  BY <1>3, <1>4, LoadedIsTheSame
<1>6. CASE Reached(a)
  <2> DEFINE put == [[regs EXCEPT ![i.rt] = v] EXCEPT ![i.rt2] = w]
  <2>1. Ended(i) /\ bus' = bus /\ fregs' = fregs /\ regs' = Updated(i, put)
    BY <1>3, <1>5, <1>6 DEF LoadPair, SYSPutValueToReg
  <2>2. /\ i.rt # Zero /\ i.rt2 # Zero /\ i.rn # Zero
        /\ i.form \in WriteBack => i.rn # i.rt /\ i.rn # i.rt2
    BY <1>1, OperandsOf, Fields
  <2>3. Updated(i, put) = Cpu!Based(put, i) BY WriteBackIsTheSame
  <2>4. ValuesIn(regs', Registers)
    <3> HIDE DEF a, v, w
    <3>1. ValuesIn([regs EXCEPT ![i.rt] = v], Registers) BY <1>5, TypesAre, PutIsTyped
    <3>2. ValuesIn(put, Registers) BY <3>1, <1>5, PutIsTyped
    <3> HIDE DEF put
    <3> QED BY <2>1, <3>2, UpdateIsTyped
  <2>5. Cpu!Based(put, i) = [[Cpu!Based(regs, i) EXCEPT ![i.rt] = v] EXCEPT ![i.rt2] = w]
    <3> HIDE DEF a, v, w
    <3>1. CASE i.form \in WriteBack
      <4>1. i.rn # i.rt /\ i.rn # i.rt2 BY <2>2, <3>1
      <4>2. \A r : Cpu!Based(r, i) = [r EXCEPT ![i.rn] = Cpu!Moved(i)]
        BY <2>2, <3>1 DEF WriteBack, Cpu!Based, Cpu!WritesBack, Cpu!Put, Zero, Cpu!Zero
      <4> DEFINE f == [regs EXCEPT ![i.rt] = v]
                 up == Cpu!Moved(i)
      <4>3. Cpu!Based(put, i) = [[f EXCEPT ![i.rt2] = w] EXCEPT ![i.rn] = up] BY <4>2
      <4>4. [[f EXCEPT ![i.rt2] = w] EXCEPT ![i.rn] = up] = [[f EXCEPT ![i.rn] = up] EXCEPT ![i.rt2] = w]
        BY <4>1, PutsCommute
      <4>5. [f EXCEPT ![i.rn] = up] = [[regs EXCEPT ![i.rn] = up] EXCEPT ![i.rt] = v]
        BY <4>1, PutsCommute
      <4>6. Cpu!Based(regs, i) = [regs EXCEPT ![i.rn] = up] BY <4>2
      <4> QED BY <4>3, <4>4, <4>5, <4>6
    <3>2. CASE i.form \notin WriteBack
      BY <3>2 DEF WriteBack, Cpu!Based, Cpu!WritesBack
    <3> QED BY <3>1, <3>2
  <2>6. Cpu!LoadInteger(i)
    BY <1>1, <1>2, <2>1, <2>2, <2>3, <2>5 DEF Cpu!LoadInteger, Cpu!Put, Zero, Cpu!Zero
  <2>7. Cpu!Reaches(Cpu!Address(i)) BY <1>6 DEF Reached, Cpu!Reaches
  <2>8. Cpu!Execute(i) BY <2>1, <2>6, <2>7 DEF Cpu!Execute, Ended
  <2>9. HandlerTypeOK'
    <3> HIDE DEF put
    <3>1. ValuesIn(fregs', {0, 1}) BY <2>1, TypesAre
    <3>2. bus' # <<>> => bus'.at \in 0 .. 15 /\ Len(bus'.bytes) \in {1, 2, 4, 8, 16}
      BY <2>1 DEF HandlerTypeOK
    <3> QED BY <2>4, <3>1, <3>2 DEF HandlerTypeOK, ValuesIn
  <2> QED BY <2>1, <2>8, <2>9, StepEnds
<1>7. CASE ~Reached(a)
  <2>1. Hangs(i, Updated(i, regs)) BY <1>3, <1>7 DEF LoadPair
  <2>2. ~Cpu!Reaches(Cpu!Address(i)) BY <1>7 DEF Reached, Cpu!Reaches
  <2>3. ValuesIn(Updated(i, regs), Registers) BY TypesAre, UpdateIsTyped
  <2> QED BY <1>1, <2>1, <2>2, <2>3, MissSteps
<1> QED BY <1>6, <1>7

\* A single goes into the low half of its register.
LEMMA SingleIsLow ==
  ASSUME NEW x \in 0 .. 255, NEW v \in 0 .. 15
  PROVE  x - U32(x) + v \in 0 .. 255 /\ (x - U32(x) + v) % 16 = v
BY DEF U32

LEMMA LoadFloatKeepsTypes ==
  ASSUME HandlerTypeOK, NEW i \in Instructions, LoadFloat(i)
  PROVE  HandlerTypeOK'
<1>1. i.kind = "load" /\ i.fp /\ i.size \in {4, 8} /\ i.form \in {"imm9", "imm9post", "imm9pre", "imm12", "reg"}
  BY DEF LoadFloat, FloatLoadForms
<1>2. i.rt \in {0, 1} BY <1>1, OperandsOf
<1> DEFINE x == fregs[i.rt]
           v == ValueAt(FloatPtr(i), i.size)
           y == IF i.size = 8 THEN v ELSE x - U32(x) + v
<1>3. ValuesIn(regs, Registers) /\ ValuesIn(fregs, {0, 1}) BY TypesAre
<1>4. x \in 0 .. 255 BY <1>2, <1>3 DEF ValuesIn
<1>5. FloatPtr(i) \in Int
  <2>1. regs[i.rn] \in 0 .. 255 /\ i.imm \in Int /\ i.size \in Int BY Fields, RegistersAreValues
  <2>2. FAR(i) \in Int
    <3>1. i.form # "literal" BY <1>1
    <3>2. Before(i) = Cpu!Address(i) /\ Before(i) \in 0 .. 255 BY <3>1, PointerIsAddress, PointerIsInt
    <3> QED BY <3>2 DEF FAR
  <2>3. U64(regs[i.rn] + i.imm) \in Int
    <3>1. \A n \in Int : U64(n) \in Int BY DEF U64
    <3>2. regs[i.rn] + i.imm \in Int BY <2>1
    <3> QED BY <3>1, <3>2
  <2>4. U64(regs[i.rn] + OffsetOf(i)) \in Int BY PointerIsInt
  <2> QED BY <2>1, <2>2, <2>3, <2>4 DEF FloatPtr, SYSGetValueFromReg
<1>6. v \in 0 .. 2^i.size - 1 BY <1>1, <1>5, ValueIsBounded
<1> HIDE DEF v, x
<1>7. y \in 0 .. 255
  <2>1. CASE i.size = 8 BY <2>1, <1>6, PowersOfTwo
  <2>2. CASE i.size = 4
    <3>1. v \in 0 .. 15 BY <2>2, <1>6, PowersOfTwo
    <3>2. x - U32(x) + v \in 0 .. 255 BY <3>1, <1>4, SingleIsLow
    <3> QED BY <2>2, <3>2
  <2> QED BY <1>1, <2>1, <2>2
<1>8. /\ bus' = bus /\ (regs' = regs \/ regs' = Updated(i, regs))
      /\ fregs' = fregs \/ fregs' = [fregs EXCEPT ![i.rt] = y]
  BY DEF LoadFloat, Hangs, set_fpn, v, x
<1> HIDE DEF y
<1>9. ValuesIn(regs', Registers)
  <2>1. ValuesIn(Updated(i, regs), Registers) BY <1>3, UpdateIsTyped
  <2> QED BY <1>3, <1>8, <2>1
<1>10. ValuesIn(fregs', {0, 1})
  <2>1. ValuesIn([fregs EXCEPT ![i.rt] = y], {0, 1}) BY <1>3, <1>7, PutIsTyped
  <2> QED BY <1>3, <1>8, <2>1
<1>11. bus' # <<>> => bus'.at \in 0 .. 15 /\ Len(bus'.bytes) \in {1, 2, 4, 8, 16}
  BY <1>8 DEF HandlerTypeOK
<1> QED BY <1>9, <1>10, <1>11 DEF HandlerTypeOK, ValuesIn

LEMMA LoadFloatSteps ==
  ASSUME HandlerTypeOK, NEW i \in Instructions, ~Mishandled(i), done = <<>>, LoadFloat(i)
  PROVE  Cpu!Next /\ HandlerTypeOK'
<1>1. i.kind = "load" /\ i.fp /\ i.size \in {4, 8} /\ i.form \in {"imm9", "imm12", "reg"}
  BY DEF LoadFloat, FloatLoadForms, Mishandled
<1>2. i.form # "literal" /\ i.form \notin WriteBack BY <1>1 DEF WriteBack
<1>3. Before(i) = Cpu!Address(i) /\ Before(i) \in 0 .. 255 BY <1>2, PointerIsAddress, PointerIsInt
<1>4. FloatPtr(i) = Cpu!Address(i)
  <2>1. CASE i.form \in {"imm9", "reg"} BY <2>1 DEF FloatPtr, FAR
  <2>2. CASE i.form = "imm12"
    <3>1. FloatPtr(i) = U64(regs[i.rn] + OffsetOf(i)) BY <2>2 DEF FloatPtr, SYSGetValueFromReg
    <3>2. Before(i) = U64(regs[i.rn] + OffsetOf(i)) BY <2>2 DEF Before, SYSGetValueFromReg
    <3> QED BY <1>3, <3>1, <3>2
  <2> QED BY <1>1, <2>1, <2>2
<1>a. Cpu!Address(i) \in Int BY <1>3
<1> DEFINE a == Cpu!Address(i)
           v == ValueAt(a, i.size)
           x == fregs[i.rt]
           y == IF i.size = 8 THEN v ELSE x - U32(x) + v
<1>5. CASE Reached(a)
  <2>1. /\ Ended(i) /\ bus' = bus /\ fregs' = [fregs EXCEPT ![i.rt] = y]
        /\ regs' = regs
    BY <1>2, <1>4, <1>5 DEF LoadFloat, set_fpn, Updated
  <2>2. i.sign = 0 BY <1>1, Fields DEF WellFormed
  <2>3. Cpu!Loaded(i, a) = v BY <2>2 DEF Cpu!Loaded, ValueAt
  <2>4. i.rt \in {0, 1} BY <1>1, OperandsOf
  <2>5. x \in 0 .. 255 BY <2>4, FloatValue
  <2>6. v \in 0 .. 2^i.size - 1 BY <1>a, <1>1, ValueIsBounded
  <2>7. y \in 0 .. 255 /\ y % (2^i.size) = v
    <3> HIDE DEF v, x
    <3>1. CASE i.size = 8 BY <3>1, <2>6, PowersOfTwo
    <3>2. CASE i.size = 4
      <4>1. v \in 0 .. 15 BY <3>2, <2>6, PowersOfTwo
      <4>2. x - U32(x) + v \in 0 .. 255 /\ (x - U32(x) + v) % 16 = v BY <4>1, <2>5, SingleIsLow
      <4> QED BY <3>2, <4>2, PowersOfTwo
    <3> QED BY <1>1, <3>1, <3>2
  <2> HIDE DEF v, x, y
  <2>8. Cpu!Based(regs, i) = regs BY <1>2 DEF WriteBack, Cpu!Based, Cpu!WritesBack
  <2>9. Cpu!LoadFloat(i) BY <1>1, <2>1, <2>3, <2>7, <2>8 DEF Cpu!LoadFloat
  <2>10. Cpu!Reaches(Cpu!Address(i)) BY <1>5 DEF Reached, Cpu!Reaches
  <2>11. Cpu!Execute(i) BY <2>1, <2>9, <2>10 DEF Cpu!Execute, Ended
  <2> QED BY <2>1, <2>11, StepEnds, LoadFloatKeepsTypes
<1>6. CASE ~Reached(a)
  <2>1. Hangs(i, regs) BY <1>4, <1>6 DEF LoadFloat
  <2>2. ~Cpu!Reaches(Cpu!Address(i)) BY <1>6 DEF Reached, Cpu!Reaches
  <2>3. ValuesIn(regs, Registers) BY TypesAre
  <2> QED BY <1>1, <2>1, <2>2, <2>3, MissSteps
<1> QED BY <1>5, <1>6

LEMMA CacheFlushSteps ==
  ASSUME HandlerTypeOK, NEW i \in Instructions, done = <<>>, CacheFlush(i)
  PROVE  Cpu!Next /\ HandlerTypeOK'
<1>1. i.kind = "flush" /\ Ended(i) /\ regs' = regs /\ fregs' = fregs /\ bus' = bus BY DEF CacheFlush
<1>2. Cpu!Execute(i) BY <1>1 DEF Cpu!Execute, Cpu!Flush, Ended
<1>3. HandlerTypeOK' BY <1>1, TypesAre, TypesComeFrom
<1> QED BY <1>1, <1>2, <1>3, StepEnds

LEMMA UnhandledSteps ==
  ASSUME HandlerTypeOK, NEW i \in Instructions, done = <<>>, Unhandled(i)
  PROVE  Cpu!Next /\ HandlerTypeOK'
<1>1. Hangs(i, regs) BY DEF Unhandled
<1>2. i \notin Emulated BY DEF Unhandled, Emulated
<1>3. ValuesIn(regs, Registers) BY TypesAre
<1> QED BY <1>1, <1>2, <1>3, StepStops, HangKeepsTypes

-----------------------------------------------------------------------------

LEMMA HandlerInitIsTyped == HandlerInit => HandlerTypeOK
<1> SUFFICES ASSUME HandlerInit PROVE HandlerTypeOK OBVIOUS
<1>1. regs \in [Registers -> 0 .. 255] /\ fregs \in [{0, 1} -> 0 .. 255] /\ bus = <<>>
  BY HandlerAssumption DEF HandlerInit
<1>2. ValuesIn(regs, Registers) /\ ValuesIn(fregs, {0, 1}) BY <1>1 DEF ValuesIn
<1> QED BY <1>1, <1>2, TypesAre, Zenon

LEMMA HandleKeepsTypes ==
  ASSUME HandlerTypeOK, [HandlerNext]_handlerVars PROVE HandlerTypeOK'
<1>1. CASE UNCHANGED handlerVars
  <2>1. regs' = regs /\ fregs' = fregs /\ bus' = bus BY <1>1 DEF handlerVars
  <2> QED BY <2>1, TypesAre, TypesComeFrom
<1>2. CASE HandlerNext
  <2>1. PICK i \in Instructions : Handle(i) BY <1>2 DEF HandlerNext
  <2>2. done = <<>> BY <1>2 DEF HandlerNext
  <2>3. CASE CacheFlush(i) BY <2>2, <2>3, CacheFlushSteps
  <2>4. CASE StoreFloat(i) BY <2>2, <2>4, StoreFloatSteps
  <2>5. CASE StoreInteger(i) BY <2>2, <2>5, StoreIntegerSteps
  <2>6. CASE StoreExclusive(i) BY <2>2, <2>6, StoreExclusiveSteps
  <2>7. CASE StorePair(i) BY <2>2, <2>7, StorePairSteps
  <2>8. CASE LoadFloat(i) BY <2>8, LoadFloatKeepsTypes
  <2>9. CASE LoadInteger(i) BY <2>2, <2>9, LoadIntegerSteps
  <2>10. CASE LoadPair(i) BY <2>2, <2>10, LoadPairSteps
  <2>11. CASE LoadLiteral(i) BY <2>11, LoadLiteralKeepsTypes
  <2>12. CASE Unhandled(i) BY <2>2, <2>12, UnhandledSteps
  <2> QED BY <2>1, <2>3, <2>4, <2>5, <2>6, <2>7, <2>8, <2>9, <2>10, <2>11, <2>12 DEF Handle
<1> QED BY <1>1, <1>2

\* Registers keep 64 bits, and what a store puts on the bus lies in the 32-bit
\* address space (SYSWriteValToAddr), whatever the instruction.
THEOREM HandlerTypeCorrect == HandlerSpec => []HandlerTypeOK
<1>1. HandlerInit => HandlerTypeOK BY HandlerInitIsTyped
<1>2. HandlerTypeOK /\ [HandlerNext]_handlerVars => HandlerTypeOK' BY HandleKeepsTypes
<1> QED BY <1>1, <1>2, PTL DEF HandlerSpec

\* The step that handles an instruction is a step of the CPU.
LEMMA HandledLikeTheCpu ==
  ASSUME NothingMishandled, HandlerTypeOK, HandlerNext
  PROVE  Cpu!Next
<1>1. PICK i \in Instructions : Handle(i) BY DEF HandlerNext
<1>2. done = <<>> /\ ~Mishandled(i) BY DEF HandlerNext, NothingMishandled
<1>3. CASE CacheFlush(i) BY <1>2, <1>3, CacheFlushSteps
<1>4. CASE StoreFloat(i) BY <1>2, <1>4, StoreFloatSteps
<1>5. CASE StoreInteger(i) BY <1>2, <1>5, StoreIntegerSteps
<1>6. CASE StoreExclusive(i) BY <1>2, <1>6, StoreExclusiveSteps
<1>7. CASE StorePair(i) BY <1>2, <1>7, StorePairSteps
<1>8. CASE LoadFloat(i) BY <1>2, <1>8, LoadFloatSteps
<1>9. CASE LoadInteger(i) BY <1>2, <1>9, LoadIntegerSteps
<1>10. CASE LoadPair(i) BY <1>2, <1>10, LoadPairSteps
<1>11. CASE LoadLiteral(i) BY <1>2, <1>11, LoadLiteralSteps
<1>12. CASE Unhandled(i) BY <1>2, <1>12, UnhandledSteps
<1> QED BY <1>1, <1>3, <1>4, <1>5, <1>6, <1>7, <1>8, <1>9, <1>10, <1>11, <1>12 DEF Handle

\* For every instruction that SYSPageFaultReadHandler does not get wrong (floating
\* point loads with write-back, literals without sign): every content of memory and
\* of the registers, every offset and register, the handlers do what the CPU does.
THEOREM HandlersActLikeTheCpu ==
  ASSUME NothingMishandled PROVE HandlerSpec => ActsLikeTheCpu
<1>1. HandlerInit => Cpu!Init
  BY DEF HandlerInit, Cpu!Init
<1>2. HandlerTypeOK /\ [HandlerNext]_handlerVars => [Cpu!Next]_(Cpu!vars)
  <2> SUFFICES ASSUME HandlerTypeOK, [HandlerNext]_handlerVars
               PROVE  [Cpu!Next]_(Cpu!vars)
    OBVIOUS
  <2>1. CASE HandlerNext BY <2>1, HandledLikeTheCpu
  <2>2. CASE UNCHANGED handlerVars
    BY <2>2 DEF handlerVars, Cpu!vars
  <2> QED BY <2>1, <2>2
<1> QED BY <1>1, <1>2, HandlerTypeCorrect, PTL DEF HandlerSpec, ActsLikeTheCpu, Cpu!Spec

=============================================================================
