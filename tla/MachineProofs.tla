---------------------------- MODULE MachineProofs -----------------------------
(***************************************************************************)
(* Proofs about the interrupts of the 68k, the start of the cores, the     *)
(* HDMI output and the resets.  They share no variable.                    *)
(***************************************************************************)
EXTENDS Interrupts, CoreStart, HdmiOutput, AmigaReset, SequenceTheorems, FiniteSetTheorems, TLAPS

-----------------------------------------------------------------------------
(***************************************************************************)
(* Proofs about Interrupts, for any lines and any number of System Errors  *)
(* and accesses, so for exceptions nested to any depth.                    *)
(*                                                                         *)
(* Neither half of InterruptsAreExact is inductive.  The first needs that  *)
(* INT_shadow is INTENA (Shadowed), which is where the widths of the       *)
(* accesses come in.  The second needs the frames below the top: only the  *)
(* first exception came from user mode (Nested), so that an RTE that goes  *)
(* back to it finds one frame on the stack; then all four stack pointers   *)
(* are determined by the number of frames (Stacked).                       *)
(***************************************************************************)

Empty(k) == [of |-> k, depth |-> 0]
Modes == [s : BOOLEAN, m : BOOLEAN, mask : 0 .. 7]
Frame == [sr : Modes, level : 0 .. 7]

Shadowed == shadow = intena

Nested ==
  /\ frames \in Seq(Frame)
  /\ sr.s <=> Len(frames) # 0
  /\ \A i \in 1 .. Len(frames) : (frames[i].sr.s <=> i # 1) /\ frames[i].sr.m = sr.m

Stacked ==
  /\ usp = Empty("usp")
  /\ ssp = [k \in Stacks |-> Empty(k)]
  /\ sp = [of |-> IF sr.s THEN SupervisorStack(sr.m) ELSE "usp", depth |-> Len(frames)]

ArmInv == IrqTypeOK /\ Shadowed /\ ArmFollowsEnable
StackInv == IrqTypeOK /\ Nested /\ Stacked

-----------------------------------------------------------------------------

LEMMA LineTypes ==
  ASSUME InterruptsAssumption
  PROVE  0 \in Lines /\ Lines \subseteq 0 .. 6
BY DEF InterruptsAssumption

\* Where Deliver and RTE are not taken, the exceptions are as they were.
LEMMA StackUnchanged ==
  ASSUME Nested, Stacked, UNCHANGED StackVars
  PROVE  Nested' /\ Stacked'
BY DEF Nested, Stacked, StackVars

\* An exception is entered on the stack of supervisor mode, wherever it came from.
LEMMA DeliverKeepsStacks ==
  ASSUME InterruptsAssumption, StackInv, Deliver
  PROVE  Nested' /\ Stacked'
<1> USE DEF StackInv, IrqTypeOK, Modes
<1> DEFINE f == [sr |-> sr, level |-> level]
<1>1. f \in Frame
  BY DEF Frame
<1>2. frames' = Append(frames, f) /\ sr' = [sr EXCEPT !.s = TRUE, !.mask = level]
  BY DEF Deliver
<1>3. Len(frames') = Len(frames) + 1 /\ Len(frames) \in Nat
  BY <1>1, <1>2 DEF Nested
<1>4. sr'.s = TRUE /\ sr'.m = sr.m
  BY <1>2
<1>5. Nested'
  <2>1. frames' \in Seq(Frame)
    BY <1>1, <1>2 DEF Nested
  <2>2. ASSUME NEW i \in 1 .. Len(frames')
        PROVE  (frames'[i].sr.s <=> i # 1) /\ frames'[i].sr.m = sr'.m
    <3>1. CASE i \in 1 .. Len(frames)
      BY <1>1, <1>2, <1>4, <3>1 DEF Nested
    <3>2. CASE i = Len(frames) + 1
      <4>1. frames'[i] = f
        BY <1>1, <1>2, <3>2 DEF Nested
      <4> QED
        BY <1>3, <1>4, <3>2, <4>1 DEF Nested
    <3> QED
      BY <1>3, <3>1, <3>2
  <2> QED
    BY <1>3, <1>4, <2>1, <2>2 DEF Nested
<1>6. Stacked'
  <2>1. UspSaved = Empty("usp")
    BY DEF UspSaved, Stacked, Nested, Empty
  <2>2. EntryStack = [of |-> SupervisorStack(sr.m), depth |-> Len(frames)]
    BY DEF EntryStack, Stacked, Nested, Empty, Stacks, SupervisorStack
  <2>3. sp' = [of |-> SupervisorStack(sr.m), depth |-> Len(frames) + 1]
    BY <2>2 DEF Deliver
  <2> QED
    BY <1>3, <1>4, <2>1, <2>3 DEF Deliver, Stacked, SupervisorStack
<1> QED
  BY <1>5, <1>6

\* RTE goes back to the mode of the frame; to user mode, from the first frame only.
LEMMA RteKeepsStacks ==
  ASSUME InterruptsAssumption, StackInv, RTE
  PROVE  Nested' /\ Stacked' /\ sr' \in Modes
<1> USE DEF StackInv, IrqTypeOK
<1> DEFINE n == Len(frames)
           f == frames[n]
           popped == [sp EXCEPT !.depth = @ - 1]
<1>1. n \in Nat /\ n # 0 /\ n \in 1 .. n /\ f \in Frame
  <2>1. frames # <<>> /\ frames \in Seq(Frame)
    BY DEF RTE, Nested
  <2>2. n \in Nat /\ n # 0
    BY <2>1, EmptySeq
  <2>3. n \in 1 .. n
    BY <2>2
  <2> QED
    BY <2>1, <2>2, <2>3
<1>2. (f.sr.s <=> n # 1) /\ f.sr.m = sr.m /\ sr.s /\ f.sr \in Modes
  BY <1>1 DEF Nested, Frame
<1>3. frames' = SubSeq(frames, 1, n - 1) /\ sr' = f.sr
  BY DEF RTE
<1>4. /\ frames' \in Seq(Frame)
      /\ Len(frames') = n - 1
      /\ \A i \in 1 .. n - 1 : frames'[i] = frames[i]
  <2>1. \A i \in 1 .. n - 1 : frames[i] \in Frame
    <3>1. frames \in Seq(Frame)
      BY DEF Nested
    <3> QED
      BY <1>1, <3>1
  <2>2. 1 \in Int /\ n - 1 \in Int
    BY <1>1
  <2> HIDE DEF n
  <2>3. /\ SubSeq(frames, 1, n - 1) \in Seq(Frame)
        /\ Len(SubSeq(frames, 1, n - 1)) = IF 1 <= n - 1 THEN n - 1 - 1 + 1 ELSE 0
        /\ \A i \in 1 .. n - 1 - 1 + 1 : SubSeq(frames, 1, n - 1)[i] = frames[1 + i - 1]
    BY <2>1, <2>2, SubSeqProperties
  <2> QED
    BY <1>1, <1>3, <2>3
<1>5. Nested'
  BY <1>1, <1>2, <1>3, <1>4 DEF Nested
<1>6. Stacked'
  <2>1. sp = [of |-> SupervisorStack(sr.m), depth |-> n]
    BY <1>2 DEF Stacked
  <2>2. popped = [of |-> SupervisorStack(sr.m), depth |-> n - 1]
    BY <2>1
  <2>3. CASE f.sr.s
    <3>1. sp' = popped /\ UNCHANGED <<usp, ssp>>
      BY <2>3 DEF RTE
    <3> QED
      BY <1>2, <1>3, <1>4, <2>2, <2>3, <3>1 DEF Stacked, SupervisorStack
  <2>4. CASE ~ f.sr.s
    <3>1. n = 1 /\ sp' = usp /\ usp' = usp
      BY <1>2, <2>4 DEF RTE
    <3>2. ssp' = [ssp EXCEPT ![SupervisorStack(sr.m)] = popped]
      BY <1>2, <2>4 DEF RTE
    <3>3. ssp' = ssp
      <4>1. SupervisorStack(sr.m) \in Stacks
        BY DEF SupervisorStack, Stacks
      <4>2. popped = ssp[SupervisorStack(sr.m)]
        BY <2>2, <3>1, <4>1 DEF Stacked, Empty
      <4> QED
        BY <3>2, <4>1, <4>2
    <3> QED
      BY <1>3, <1>4, <2>4, <3>1, <3>3 DEF Stacked, Empty
  <2> QED
    BY <2>3, <2>4
<1> QED
  BY <1>2, <1>3, <1>5, <1>6

\* All but Deliver and RTE leave the exceptions as they were.
LEMMA StackStep ==
  ASSUME InterruptsAssumption, StackInv, [IrqNext]_irqVars
  PROVE  Nested' /\ Stacked' /\ sr' \in Modes
<1> USE DEF StackInv
<1>1. CASE UNCHANGED StackVars
  BY <1>1, StackUnchanged DEF StackVars, IrqTypeOK, Modes
<1>2. CASE Deliver
  <2>1. sr' \in Modes
    BY <1>2 DEF Deliver, IrqTypeOK, Modes
  <2> QED
    BY <1>2, <2>1, DeliverKeepsStacks
<1>3. CASE RTE
  BY <1>3, RteKeepsStacks
<1>4. CASE Assert \/ IrqVector \/ SErrorVector \/ PpcRequest \/ LineChanges \/ ps_housekeeper
  BY <1>1, <1>4 DEF Assert, IrqVector, SErrorVector, PpcRequest, LineChanges, ps_housekeeper,
                    loopVars, StackVars
<1>5. CASE WriteINTENA \/ WriteINTREQ \/ ReadINTENAR \/ Serve
  BY <1>1, <1>5 DEF WriteINTENA, WriteINTREQ, ReadINTENAR, Serve, Accessing, loopVars, StackVars
<1>6. CASE Return \/ ReadINT64 \/ ReadErr \/ ReadFlags \/ ReadLine \/ Masked
  BY <1>1, <1>6 DEF Return, ReadINT64, ReadErr, ReadFlags, ReadLine, Masked, StackVars
<1>7. CASE UNCHANGED irqVars
  BY <1>1, <1>7 DEF irqVars, loopVars, StackVars
<1> QED
  BY <1>2, <1>3, <1>4, <1>5, <1>6, <1>7 DEF IrqNext, Dispatch

LEMMA AfterTypes ==
  ASSUME NEW ena \in SUBSET Bits, NEW w \in Words
  PROVE  After(ena, w) \in SUBSET Bits
BY DEF After, Words

LEMMA SeenTypes ==
  ASSUME InterruptsAssumption, NEW width \in Widths, NEW w \in Words, NEW following \in Words
  PROVE  Seen(width, w, following) \in Words
<1>1. [set |-> FALSE, bits |-> {}] \in Words
  BY DEF Words
<1>2. CASE width = 1
  BY <1>1, <1>2 DEF Seen
<1>3. CASE width = 2
  BY <1>3 DEF Seen
<1>4. CASE width = 4
  BY <1>4 DEF Seen
<1> QED
  BY <1>2, <1>3, <1>4 DEF InterruptsAssumption

\* The devices, the shadow, the flags and the lines keep to their types.
FlagTypes ==
  /\ device \in BOOLEAN /\ masked \in BOOLEAN /\ pending \in BOOLEAN
  /\ intena \in SUBSET Bits /\ shadow \in SUBSET Bits
  /\ arm \in {0, 1, 6} /\ err \in BOOLEAN /\ ppc \in BOOLEAN
  /\ line \in Lines /\ ipl \in BOOLEAN

LEMMA FlagStep ==
  ASSUME InterruptsAssumption, IrqTypeOK, [IrqNext]_irqVars
  PROVE  FlagTypes'
<1>1. FlagTypes
  BY DEF FlagTypes, IrqTypeOK
<1> USE <1>1 DEF FlagTypes
<1>2. CASE Assert \/ SErrorVector \/ PpcRequest \/ LineChanges \/ ps_housekeeper
  BY <1>2 DEF Assert, SErrorVector, PpcRequest, LineChanges, ps_housekeeper,
              deviceVars, shadowVars, flagVars, lineVars
<1>3. CASE IrqVector
  BY <1>3 DEF IrqVector, lineVars
<1>4. CASE WriteINTENA
  <2>1. PICK width \in Widths, w \in Words, following \in Words :
          /\ intena' = After(intena, w)
          /\ shadow' = After(shadow, Seen(width, w, following))
          /\ arm' = ArmAfter(shadow')
    BY <1>4 DEF WriteINTENA
  <2>2. intena' \in SUBSET Bits
    BY <2>1, AfterTypes
  <2>3. shadow' \in SUBSET Bits
    BY <2>1, SeenTypes, AfterTypes
  <2>4. arm' \in {0, 1, 6}
    BY <2>1 DEF ArmAfter
  <2> QED
    BY <1>4, <2>2, <2>3, <2>4 DEF WriteINTENA, Accessing, deviceVars, lineVars
<1>5. CASE WriteINTREQ
  BY <1>5 DEF WriteINTREQ, Accessing, ArmAcknowledged, deviceVars, lineVars
<1>6. CASE ReadINTENAR
  BY <1>6 DEF ReadINTENAR, Accessing, deviceVars, lineVars
<1>7. CASE Serve
  BY <1>7 DEF Serve, Running, shadowVars, lineVars
<1>8. CASE RTE \/ Return
  BY <1>8 DEF RTE, Return, Running, deviceVars, shadowVars, lineVars
<1>9. CASE Dispatch
  BY <1>9 DEF Dispatch, ReadINT64, ReadErr, ReadFlags, ReadLine, Deliver, Masked, Looping,
              deviceVars, shadowVars, lineVars
<1>10. CASE UNCHANGED irqVars
  BY <1>10 DEF irqVars, deviceVars, shadowVars, flagVars, lineVars
<1> QED
  BY <1>2, <1>3, <1>4, <1>5, <1>6, <1>7, <1>8, <1>9, <1>10 DEF IrqNext

\* The dispatcher's place and level keep to theirs.
LEMMA LevelStep ==
  ASSUME InterruptsAssumption, IrqTypeOK, [IrqNext]_irqVars
  PROVE  pc' \in {"top", "err", "flags", "line", "deliver", "run"} /\ level' \in 0 .. 7
<1> USE DEF IrqTypeOK
<1>1. CASE UNCHANGED <<pc, level>>
  BY <1>1
<1>2. CASE Dispatch
  <2>1. LineLevel \in 0 .. 7 /\ FlagLevel \in 0 .. 7
    BY LineTypes DEF LineLevel, FlagLevel
  <2> QED
    BY <1>2, <2>1 DEF Dispatch, ReadINT64, ReadErr, ReadFlags, ReadLine, Deliver, Masked
<1>3. CASE RTE \/ Return
  BY <1>3 DEF RTE, Return, Running
<1>4. CASE Assert \/ IrqVector \/ SErrorVector \/ PpcRequest \/ LineChanges \/ ps_housekeeper
  BY <1>1, <1>4 DEF Assert, IrqVector, SErrorVector, PpcRequest, LineChanges, ps_housekeeper,
     loopVars
<1>5. CASE WriteINTENA \/ WriteINTREQ \/ ReadINTENAR \/ Serve
  BY <1>1, <1>5 DEF WriteINTENA, WriteINTREQ, ReadINTENAR, Serve, Accessing, loopVars
<1>6. CASE UNCHANGED irqVars
  BY <1>1, <1>6 DEF irqVars, loopVars
<1> QED
  BY <1>2, <1>3, <1>4, <1>5, <1>6 DEF IrqNext

LEMMA StackInvStep ==
  ASSUME InterruptsAssumption, StackInv, [IrqNext]_irqVars
  PROVE  StackInv'
<1>1. Nested' /\ Stacked' /\ sr' \in Modes
  BY StackStep
<1>2. FlagTypes' /\ pc' \in {"top", "err", "flags", "line", "deliver", "run"} /\ level' \in 0 .. 7
  BY FlagStep, LevelStep DEF StackInv
<1>3. Len(frames') \in Nat
  BY <1>1 DEF Nested
<1>4. /\ usp' = [of |-> "usp", depth |-> 0]
      /\ ssp' \in [Stacks -> [of : Stacks, depth : Nat]]
      /\ sp' \in [of : Stacks \union {"usp"}, depth : Nat]
  BY <1>1, <1>3 DEF Stacked, Empty, Stacks, SupervisorStack
<1> QED
  BY <1>1, <1>2, <1>4 DEF StackInv, IrqTypeOK, FlagTypes, Modes

-----------------------------------------------------------------------------

\* With accesses by words, the shadow is INTENA and INTF.ARM follows both.
LEMMA ArmStep ==
  ASSUME InterruptsAssumption, Widths \subseteq {2}, IrqTypeOK, Shadowed, ArmFollowsEnable, [IrqNext]_irqVars
  PROVE  Shadowed' /\ ArmFollowsEnable'
<1> USE DEF Shadowed, ArmFollowsEnable
<1>1. CASE UNCHANGED <<shadowVars, arm>>
  BY <1>1 DEF shadowVars
<1>2. CASE IrqVector
  BY <1>2 DEF IrqVector
<1>3. CASE WriteINTENA
  <2>1. PICK width \in Widths, w \in Words, following \in Words :
          /\ intena' = After(intena, w)
          /\ shadow' = After(shadow, Seen(width, w, following))
          /\ arm' = ArmAfter(shadow')
    BY <1>3 DEF WriteINTENA
  <2>2. width = 2
    OBVIOUS
  <2>3. Seen(width, w, following) = w
    BY <2>2 DEF Seen
  <2> QED
    BY <1>3, <2>1, <2>3 DEF WriteINTENA, ArmAfter
<1>4. CASE WriteINTREQ
  BY <1>4 DEF WriteINTREQ, ArmAcknowledged
<1>5. CASE ReadINTENAR
  BY <1>5 DEF ReadINTENAR
<1>6. CASE Assert \/ SErrorVector \/ PpcRequest \/ LineChanges \/ ps_housekeeper \/ Serve
  BY <1>1, <1>6 DEF Assert, SErrorVector, PpcRequest, LineChanges, ps_housekeeper, Serve, flagVars
<1>7. CASE RTE \/ Return
  BY <1>1, <1>7 DEF RTE, Return
<1>8. CASE Dispatch
  BY <1>1, <1>8 DEF Dispatch, ReadINT64, ReadErr, ReadFlags, ReadLine, Deliver, Masked, Looping
<1>9. CASE UNCHANGED irqVars
  BY <1>1, <1>9 DEF irqVars, flagVars
<1> QED
  BY <1>2, <1>3, <1>4, <1>5, <1>6, <1>7, <1>8, <1>9 DEF IrqNext

LEMMA InitInterrupts ==
  ASSUME InterruptsAssumption, IrqInit
  PROVE  StackInv /\ Shadowed /\ ArmFollowsEnable
<1> USE DEF IrqInit
<1>1. sr \in Modes /\ ~ sr.s
  <2>1. sr \in [s : {FALSE}, m : BOOLEAN, mask : {0, 3}]
    OBVIOUS
  <2> HIDE DEF IrqInit
  <2>2. sr = [s |-> sr.s, m |-> sr.m, mask |-> sr.mask]
    BY <2>1
  <2>3. sr.s \in {FALSE}
    BY <2>1
  <2>4. sr.m \in BOOLEAN
    BY <2>1
  <2>5. sr.mask \in 0 .. 7
    BY <2>1
  <2> QED
    BY <2>2, <2>3, <2>4, <2>5 DEF Modes
<1>2. frames = <<>> /\ Len(frames) = 0
  OBVIOUS
<1>3. Nested
  <2>1. frames \in Seq(Frame)
    BY <1>2, EmptySeq
  <2>2. \A i \in 1 .. Len(frames) : FALSE
    BY <1>2
  <2> QED
    BY <1>1, <1>2, <2>1, <2>2 DEF Nested
<1>4. Stacked
  BY <1>1, <1>2 DEF Stacked, Empty
<1>5. IrqTypeOK
  <2>1. FlagTypes
    BY LineTypes DEF FlagTypes
  <2>2. ssp \in [Stacks -> [of : Stacks, depth : Nat]]
        /\ sp \in [of : Stacks \union {"usp"}, depth : Nat]
    OBVIOUS
  <2> QED
    BY <1>1, <2>1, <2>2 DEF IrqTypeOK, FlagTypes, Modes
<1>6. Shadowed /\ ArmFollowsEnable
  BY DEF Shadowed, ArmFollowsEnable
<1> QED
  BY <1>3, <1>4, <1>5, <1>6 DEF StackInv

LEMMA StackInvAlways ==
  ASSUME InterruptsAssumption
  PROVE  IrqSpec => []StackInv
<1>1. IrqInit => StackInv
  BY InitInterrupts
<1>2. StackInv /\ [IrqNext]_irqVars => StackInv'
  BY StackInvStep
<1> QED
  BY <1>1, <1>2, PTL DEF IrqSpec

(* The variables keep to their types, for accesses of all widths.            *)
THEOREM IrqTypeCorrect ==
  ASSUME InterruptsAssumption
  PROVE  IrqSpec => []IrqTypeOK
<1>1. StackInv => IrqTypeOK
  BY DEF StackInv
<1> QED
  BY <1>1, StackInvAlways, PTL

(* However deep the exceptions nest and whichever core, line or error asked  *)
(* for them: A7 is the stack of the mode and carries one frame for each, and *)
(* the M68K code's exception entry and RTE leave USP and the stack not in    *)
(* use as they were.                                                         *)
THEOREM StackAlwaysFollows ==
  ASSUME InterruptsAssumption
  PROVE  IrqSpec => []StackFollowsMode
<1>1. StackInv => StackFollowsMode
  <2> SUFFICES ASSUME StackInv PROVE StackFollowsMode
    OBVIOUS
  <2>1. sp.of = (IF sr.s THEN SupervisorStack(sr.m) ELSE "usp") /\ sp.depth = Len(frames)
    BY DEF StackInv, Stacked
  <2>2. \A k \in Stacks : ssp[k].depth = 0
    BY DEF StackInv, Stacked, Empty
  <2> QED
    BY <2>1, <2>2 DEF StackFollowsMode
<1> QED
  BY <1>1, StackInvAlways, PTL

(* A program that accesses INTENA by words: the ARM device's interrupt is    *)
(* asked for exactly while it is pending and enabled, whichever came first   *)
(* and however often the program changes its mind, and the stacks follow.    *)
(* Bytes and longs break it: the handler that keeps INT_shadow takes them    *)
(* for other words.                                                          *)
THEOREM InterruptsAlwaysExact ==
  ASSUME InterruptsAssumption, Widths \subseteq {2}
  PROVE  IrqSpec => []InterruptsAreExact
<1>1. IrqInit => IrqTypeOK /\ Shadowed /\ ArmFollowsEnable
  BY InitInterrupts DEF StackInv
<1>2. IrqTypeOK /\ Shadowed /\ ArmFollowsEnable /\ [IrqNext]_irqVars => (Shadowed /\ ArmFollowsEnable)'
  BY ArmStep
<1>3. IrqSpec => []ArmFollowsEnable
  BY <1>1, <1>2, IrqTypeCorrect, PTL DEF IrqSpec
<1> QED
  BY <1>3, StackAlwaysFollows, PTL DEF InterruptsAreExact

-----------------------------------------------------------------------------
(***************************************************************************)
(* Proofs about CoreStart, for any number of secondary cores from three    *)
(* on, any number of steps of the platform and any time of the panel.      *)
(*                                                                         *)
(* StacksAreSeparate and its companions are not inductive: that the boot   *)
(* core may write temp_stack follows from who holds boot_lock.  BootInv    *)
(* adds                                                                    *)
(*   - Handover: at most one woken core, the last, has not yet let go of   *)
(*     boot_lock; while it has not, CPU0 is waiting for the lock and       *)
(*     temp_stack is the stack of that core;                               *)
(*   - Order: what has been opened, built and let go, by where CPU0 is.    *)
(***************************************************************************)

\* The boot of the secondary cores, before the platform is initialised.
Waking == {"lock", "stack", "wake", "unlock"}

\* A woken core that has not yet let go of boot_lock.
Begins(c) == c \in released /\ doing[c] \in {"asleep", "entered", "ready"}

\* boot_lock is CPU0's from TakeLock to Wake, then the woken core's.
LockOfCpu0 ==
  /\ boot \in {"stack", "wake", "unlock"} => boot_lock
  /\ boot \in {"stack", "wake"} => next \in Cores
  /\ boot = "wake" => temp_stack = next
  /\ boot \notin {"lock", "stack", "wake"} => next = NCores + 1

Handover ==
  /\ released = {c \in Cores : c < next}
  /\ \A c \in Cores : doing[c] # "asleep" => c \in released /\ sp_of[c] = c
  /\ \A c \in Cores : Begins(c) => boot = "lock" /\ boot_lock /\ c + 1 = next /\ temp_stack = c

Order ==
  /\ ppc_enable /\ doing[PpcCore] \notin {"asleep", "entered"} => ppcReady
  /\ poc_start => steps = Steps /\ boot \notin Waking \cup {"platform"}
  /\ doing[1] \in {"arming", "works"} => poc_start
  /\ boot \in {"keeper", "ppc", "emulate"} => context = "complete"
  /\ housekeeper_enabled => boot \in {"ppc", "emulate"}
  /\ ppc_start => boot = "emulate"
  /\ ContextBeforeWork

BootInv == StartTypeOK /\ LockOfCpu0 /\ Handover /\ Order

-----------------------------------------------------------------------------

LEMMA CoreTypes ==
  ASSUME CoreAssumption
  PROVE  /\ NCores \in Nat /\ Steps \in Nat /\ Seconds \in Nat
         /\ 1 \in Cores /\ KeeperCore \in Cores /\ PpcCore \in Cores
         /\ 1 # PpcCore /\ Cores \subseteq Nat
BY DEF CoreAssumption, Cores, KeeperCore, PpcCore

\* The variables keep to their types.
LEMMA StartTypeStep ==
  ASSUME CoreAssumption, StartTypeOK, LockOfCpu0, [StartNext]_startVars
  PROVE  StartTypeOK'
<1> USE CoreTypes DEF StartTypeOK
<1>1. CASE TakeLock
  BY <1>1 DEF TakeLock, Others, Secondaries, emuVars
<1>2. CASE SetStack
  BY <1>2 DEF SetStack, Others, Secondaries, emuVars, LockOfCpu0, Cores
<1>3. CASE Wake
  BY <1>3 DEF Wake, Others, Secondaries, emuVars, LockOfCpu0, Cores
<1>4. CASE Unlock
  BY <1>4 DEF Unlock, Others, Secondaries, emuVars
<1>5. CASE Platform
  BY <1>5 DEF Platform, Others, Secondaries, emuVars
<1>6. CASE OpenGate
  BY <1>6 DEF OpenGate, Others, Secondaries, emuVars
<1>7. CASE ShowPanel
  BY <1>7 DEF ShowPanel, Others, Secondaries, emuVars
<1>8. CASE EndPanel
  BY <1>8 DEF EndPanel, Others, Secondaries, emuVars
<1>9. CASE M68K_StartEmu
  <2> USE DEF Starts, Secondaries
  <2>1. CASE NewContext
    BY <2>1 DEF NewContext, Contexts
  <2>2. CASE SetRegisters
    BY <2>2 DEF SetRegisters, Contexts
  <2>3. CASE ReadOptions
    BY <2>3 DEF ReadOptions, Contexts
  <2>4. CASE EnableKeeper
    BY <2>4 DEF EnableKeeper, Contexts
  <2>5. CASE StartPpc
    BY <2>5 DEF StartPpc, Contexts
  <2> QED
    BY <1>9, <2>1, <2>2, <2>3, <2>4, <2>5 DEF M68K_StartEmu
<1>10. ASSUME NEW c \in Cores, Enter(c)
       PROVE  StartTypeOK'
  BY <1>10 DEF Enter, Moves, cpu0Vars, emuVars
<1>11. ASSUME NEW c \in Cores, Prepare(c)
       PROVE  StartTypeOK'
  BY <1>11 DEF Prepare, Moves, cpu0Vars, emuVars, IsInit
<1>12. ASSUME NEW c \in Cores, Clear(c)
       PROVE  StartTypeOK'
  BY <1>12 DEF Clear, Moves, cpu0Vars, emuVars
<1>13. CASE PassGate
  BY <1>13 DEF PassGate, Moves, cpu0Vars, emuVars
<1>14. CASE Arm
  BY <1>14 DEF Arm, Moves, cpu0Vars, emuVars
<1>15. ASSUME NEW c \in Cores, WorksOn(c)
       PROVE  StartTypeOK'
  BY <1>15 DEF WorksOn, cpu0Vars, emuVars
<1>16. CASE UNCHANGED startVars
  BY <1>16 DEF startVars, cpu0Vars, emuVars
<1> QED
  BY <1>1, <1>2, <1>3, <1>4, <1>5, <1>6, <1>7, <1>8, <1>9, <1>10, <1>11, <1>12, <1>13, <1>14,
     <1>15, <1>16 DEF StartNext, CPU0, Housekeep, StartupPPC

\* The actions that leave CPU0 and boot_lock, and the cores, where they are.
NoHandover ==
  UNCHANGED <<boot_lock, temp_stack, next, released, doing, sp_of>>

\* A core that has not yet let go of boot_lock is the last one that was woken,
\* and finds its own stack in temp_stack.
LEMMA HandoverStep ==
  ASSUME CoreAssumption, StartTypeOK, LockOfCpu0, Handover, [StartNext]_startVars
  PROVE  LockOfCpu0' /\ Handover'
<1> USE CoreTypes DEF StartTypeOK, LockOfCpu0, Handover, Begins
<1>1. CASE TakeLock
  <2>1. \A c \in Cores : ~ Begins(c)
    BY <1>1 DEF TakeLock, Takes
  <2>2. \A c \in Cores : ~ Begins(c)'
    BY <1>1, <2>1 DEF TakeLock, Others, Secondaries
  <2>3. next > NCores => next = NCores + 1
    OBVIOUS
  <2>4. LockOfCpu0'
    BY <1>1, <2>3 DEF TakeLock, Takes, ToWake, Others, Secondaries, Cores
  <2>5. Handover'
    BY <1>1, <2>2 DEF TakeLock, Others, Secondaries
  <2> QED
    BY <2>4, <2>5
<1>2. CASE SetStack
  BY <1>2 DEF SetStack, Others, Secondaries
<1>3. CASE Wake
  <2>1. next \in Cores /\ temp_stack = next /\ boot_lock
    BY <1>3 DEF Wake
  <2>2. \A c \in Cores : ~ Begins(c)
    BY <1>3 DEF Wake
  <2>3. released' = {c \in Cores : c < next'}
    <3>1. next \in Nat /\ next' = next + 1 /\ \A c \in Cores : c \in Nat
      BY <1>3 DEF Wake
    <3>2. \A c \in Cores : c < next' <=> c < next \/ c = next
      BY <3>1
    <3> QED
      BY <1>3, <2>1, <3>2 DEF Wake
  <2>4. \A c \in Cores : Begins(c)' => c = next
    BY <1>3, <2>2 DEF Wake, Others, Secondaries
  <2> QED
    BY <1>3, <2>1, <2>3, <2>4 DEF Wake, Others, Secondaries
<1>4. CASE Unlock
  BY <1>4 DEF Unlock, Others, Secondaries
<1>5. CASE NoHandover /\ (boot' = boot \/ {boot, boot'} \cap {"lock", "stack", "wake", "unlock"} = {})
  BY <1>5 DEF NoHandover
<1>6. CASE Platform \/ OpenGate \/ ShowPanel \/ EndPanel \/ M68K_StartEmu
  <2>1. NoHandover /\ (boot' = boot \/ {boot, boot'} \cap {"lock", "stack", "wake", "unlock"} = {})
    BY <1>6 DEF NoHandover, Platform, OpenGate, ShowPanel, EndPanel, M68K_StartEmu, NewContext,
                SetRegisters, ReadOptions, EnableKeeper, StartPpc, Starts, Others, Secondaries
  <2> QED
    BY <1>5, <2>1
<1>7. ASSUME NEW c \in Cores, Enter(c)
      PROVE  LockOfCpu0' /\ Handover'
  <2>1. Begins(c) /\ temp_stack = c
    BY <1>7 DEF Enter, Moves
  <2> QED
    BY <1>7, <2>1 DEF Enter, Moves, cpu0Vars
<1>8. ASSUME NEW c \in Cores, Prepare(c)
      PROVE  LockOfCpu0' /\ Handover'
  <2>1. Begins(c)
    BY <1>8 DEF Prepare, Moves
  <2> QED
    BY <1>8, <2>1 DEF Prepare, Moves, cpu0Vars
<1>9. ASSUME NEW c \in Cores, Clear(c)
      PROVE  LockOfCpu0' /\ Handover'
  <2>1. Begins(c) /\ boot = "lock"
    BY <1>9 DEF Clear, Moves
  <2>2. \A d \in Cores : Begins(d) => d = c
    BY <2>1
  <2>3. \A d \in Cores : ~ Begins(d)'
    BY <1>9, <2>2 DEF Clear, Moves, cpu0Vars
  <2> QED
    BY <1>9, <2>1, <2>3 DEF Clear, Moves, cpu0Vars
<1>10. CASE PassGate
  BY <1>10 DEF PassGate, Moves, cpu0Vars
<1>11. CASE Arm
  BY <1>11 DEF Arm, Moves, cpu0Vars
<1>12. ASSUME NEW c \in Cores, WorksOn(c)
       PROVE  LockOfCpu0' /\ Handover'
  <2>1. NoHandover /\ boot' = boot
    BY <1>12 DEF NoHandover, WorksOn, cpu0Vars
  <2> QED
    BY <1>5, <2>1
<1>13. CASE UNCHANGED startVars
  BY <1>5, <1>13 DEF NoHandover, startVars, cpu0Vars
<1> QED
  BY <1>1, <1>2, <1>3, <1>4, <1>6, <1>7, <1>8, <1>9, <1>10, <1>11, <1>12, <1>13
     DEF StartNext, CPU0, Housekeep, StartupPPC

\* What CPU0 has opened, built and let go, and what a core has seen of it.
LEMMA OrderStep ==
  ASSUME CoreAssumption, StartTypeOK, LockOfCpu0, Handover, Order, [StartNext]_startVars
  PROVE  Order'
<1> USE CoreTypes DEF StartTypeOK, Order, Waking, ContextBeforeWork
<1>1. CASE TakeLock \/ SetStack \/ Wake \/ Unlock \/ Platform \/ OpenGate \/ ShowPanel \/ EndPanel
  <2>1. boot \in Waking \cup {"platform", "test"} /\ boot' \in Waking \cup {"platform", "test", "context"}
    BY <1>1 DEF TakeLock, SetStack, Wake, Unlock, Platform, OpenGate, ShowPanel, EndPanel
  <2>2. UNCHANGED <<ppc_enable, doing, ppcReady, context, saw, housekeeper_enabled, ppc_start>>
    BY <1>1 DEF TakeLock, SetStack, Wake, Unlock, Platform, OpenGate, ShowPanel, EndPanel,
                Others, Secondaries, emuVars
  <2>3. poc_start' => steps' = Steps /\ boot' \notin Waking \cup {"platform"}
    BY <1>1 DEF TakeLock, SetStack, Wake, Unlock, Platform, OpenGate, ShowPanel, EndPanel
  <2>4. poc_start => poc_start'
    BY <1>1 DEF TakeLock, SetStack, Wake, Unlock, Platform, OpenGate, ShowPanel, EndPanel
  <2> QED
    BY <2>1, <2>2, <2>3, <2>4
<1>2. CASE M68K_StartEmu
  BY <1>2 DEF M68K_StartEmu, NewContext, SetRegisters, ReadOptions, EnableKeeper, StartPpc,
              Starts, Secondaries
<1>3. ASSUME NEW c \in Cores, Enter(c) \/ Prepare(c) \/ Clear(c)
      PROVE  Order'
  <2>1. UNCHANGED <<temp_stack, cpu0Vars, released, poc_start, saw>>
    BY <1>3 DEF Enter, Prepare, Clear, Moves
  <2>2. ppc_enable /\ doing'[PpcCore] \notin {"asleep", "entered"} => ppcReady'
    BY <1>3, <2>1 DEF Enter, Prepare, Clear, Moves, IsInit, cpu0Vars
  <2>3. doing'[1] \in {"arming", "works"} => doing[1] \in {"arming", "works"}
    BY <1>3 DEF Enter, Prepare, Clear, Moves
  <2> QED
    BY <2>1, <2>2, <2>3 DEF cpu0Vars, emuVars
<1>4. CASE PassGate
  BY <1>4 DEF PassGate, Gate, Moves, cpu0Vars, emuVars
<1>5. CASE Arm
  BY <1>5 DEF Arm, Moves, cpu0Vars, emuVars
<1>6. ASSUME NEW c \in Cores, WorksOn(c), context = "complete"
      PROVE  Order'
  BY <1>6 DEF WorksOn, cpu0Vars, emuVars
<1>7. CASE Housekeep
  BY <1>6, <1>7 DEF Housekeep, KeeperMay
<1>8. CASE StartupPPC
  BY <1>6, <1>8 DEF StartupPPC
<1>9. CASE UNCHANGED startVars
  BY <1>9 DEF startVars, cpu0Vars, emuVars
<1> QED
  BY <1>1, <1>2, <1>3, <1>4, <1>5, <1>7, <1>8, <1>9 DEF StartNext, CPU0

-----------------------------------------------------------------------------

LEMMA InitBoot ==
  ASSUME CoreAssumption, StartInit
  PROVE  BootInv
<1> USE CoreTypes DEF StartInit
<1>1. StartTypeOK
  <2>1. boot_lock \in BOOLEAN /\ ppcReady \in BOOLEAN /\ poc_start \in BOOLEAN /\ enabled \in BOOLEAN
        /\ housekeeper_enabled \in BOOLEAN /\ ppc_start \in BOOLEAN
    OBVIOUS
  <2>2. temp_stack \in 0 .. NCores /\ next \in 1 .. NCores + 1 /\ steps \in 0 .. Steps
        /\ elapsed \in 0 .. Seconds
    OBVIOUS
  <2>3. doing \in [Cores -> {"asleep", "entered", "ready", "gate", "arming", "works"}]
        /\ sp_of \in [Cores -> 0 .. NCores]
        /\ saw \in [Cores -> Contexts \cup {"none"}]
    OBVIOUS
  <2> QED
    BY <2>1, <2>2, <2>3 DEF StartTypeOK, Contexts
<1>2. LockOfCpu0 /\ Handover
  <2>1. {c \in Cores : c < next} = {}
    BY DEF Cores
  <2> QED
    BY <2>1 DEF LockOfCpu0, Handover, Begins
<1>3. Order
  BY DEF Order, Waking, ContextBeforeWork
<1> QED
  BY <1>1, <1>2, <1>3 DEF BootInv

LEMMA BootInvImplies ==
  ASSUME CoreAssumption, BootInv
  PROVE  BootIsOrdered
<1> USE CoreTypes DEF BootInv, StartTypeOK, LockOfCpu0, Handover, Begins, Order
<1>1. StacksAreSeparate
  BY DEF StacksAreSeparate
<1>2. PlatformAfterCores
  <2>1. ASSUME boot \notin {"lock", "stack", "wake", "unlock"}
        PROVE  \A c \in Cores : doing[c] \notin {"asleep", "entered", "ready"}
    <3>1. \A c \in Cores : c \in released
      BY <2>1 DEF Cores
    <3> QED
      BY <2>1, <3>1
  <2> QED
    BY <2>1 DEF PlatformAfterCores
<1>3. MirrorAfterPlatform
  BY DEF MirrorAfterPlatform, Waking
<1>4. ContextBeforeWork
  OBVIOUS
<1> QED
  BY <1>1, <1>2, <1>3, <1>4 DEF BootIsOrdered

LEMMA BootAlways ==
  ASSUME CoreAssumption
  PROVE  StartSpec => []BootInv
<1>1. StartInit => BootInv
  BY InitBoot
<1>2. BootInv /\ [StartNext]_startVars => BootInv'
  BY StartTypeStep, HandoverStep, OrderStep DEF BootInv
<1> QED
  BY <1>1, <1>2, PTL DEF StartSpec

(* The variables keep to their types; no more cores are woken than there are.*)
THEOREM StartTypeCorrect ==
  ASSUME CoreAssumption
  PROVE  StartSpec => []StartTypeOK
<1>1. BootInv => StartTypeOK
  BY DEF BootInv
<1> QED
  BY <1>1, BootAlways, PTL

(* Whatever the number of cores and however slowly each of them wakes: no    *)
(* core enters with the stack of another (temp_stack is written under        *)
(* boot_lock, which the woken core gives back); the platform is initialised  *)
(* when all have begun and InitPPC is done; the mirror is enabled after the  *)
(* platform; and neither the housekeeper nor the PPC core sees __m68k_state  *)
(* before M68K_StartEmu has completed the context.                           *)
THEOREM BootAlwaysOrdered ==
  ASSUME CoreAssumption
  PROVE  StartSpec => []BootIsOrdered
<1>1. BootInv => BootIsOrdered
  BY BootInvImplies
<1> QED
  BY <1>1, BootAlways, PTL

-----------------------------------------------------------------------------
(***************************************************************************)
(* Proofs about HdmiOutput, for a mailbox of any number of lines, any      *)
(* number of messages and any timeouts.                                    *)
(*                                                                         *)
(* PanelIsWhole speaks of what CPU0 shows; it holds because of what the    *)
(* mailbox is at every place of a message: while a message moves the lines *)
(* up, row says which have moved (LinesMove); while it copies its text, all *)
(* other lines are in their new places (LineComes) and the text is there by *)
(* halves (TextComes).  As the lock keeps the two apart (OneHolds), what   *)
(* CPU0 has copied is a part of the view of one moment (ViewComes), and    *)
(* later messages do not change the views of earlier moments (ViewStays).  *)
(***************************************************************************)

\* CPU1 has the lock of poc_diag.
InMessage == msg \in {"place", "shift", "left", "right", "unlock"}

\* How many messages have begun.
TextBound ==
  /\ text <= MaxPosts + 2
  /\ cpu1 = "report" => text <= MaxPosts + 1
  /\ cpu1 \in {"init", "play", "fifo", "fail"} => text <= MaxPosts

\* The parts of the type invariant.
MailboxTypes ==
  /\ lock \in BOOLEAN /\ count \in 0 .. PocLines /\ row \in 0 .. PocLines
  /\ lines \in [Rows -> Texts \X Texts] /\ status \in Texts \X Texts
MessageTypes ==
  /\ msg \in {"idle", "try", "place", "shift", "left", "right", "unlock"}
  /\ live \in BOOLEAN /\ spent \in 0 .. Timeout
Cpu1Types ==
  /\ cpu1 \in {"init", "play", "fifo", "fail", "report", "stop", "halt"}
  /\ text \in Texts /\ waited \in 0 .. MaxFull
  /\ full \in BOOLEAN /\ mai_on \in BOOLEAN /\ failed \in BOOLEAN /\ rendering \in BOOLEAN
Views == [count : 0 .. PocLines, lines : [Rows -> Texts \X Texts], status : Texts \X Texts]
PanelTypes ==
  /\ cpu0 \in {"try", "copy", "splash", "emulate"}
  /\ round \in 0 .. Rounds /\ copied \in 0 .. PocLines /\ shown \in Views
HistoryTypes ==
  /\ posted \in [lines : Seq(Texts), status : Seq(Texts)]
  /\ taken \in [lines : 0 .. Len(posted.lines), status : 0 .. Len(posted.status)]

\* The lock excludes CPU0's copy and CPU1's message.
OneHolds ==
  /\ lock <=> InMessage \/ cpu0 = "copy"
  /\ ~(InMessage /\ cpu0 = "copy")

\* A line is not, or not yet, being written.
LinesKept ==
  ~InMessage \/ msg = "place" \/ live =>
    /\ count = Below(Len(posted.lines), PocLines)
    /\ \A r \in Rows : lines[r] = LineOf(Len(posted.lines), r)

\* The lines above row have moved up by one.
LinesMove ==
  msg = "shift" =>
    /\ ~live /\ row \in Rows /\ count = PocLines /\ Len(posted.lines) >= PocLines
    /\ \A r \in Rows : lines[r] = LineOf(Len(posted.lines), IF r < row THEN r + 1 ELSE r)

\* The other lines are in their new places.
LineComes ==
  msg \in {"left", "right", "unlock"} /\ ~live =>
    /\ count = Below(Len(posted.lines) + 1, PocLines) /\ row = count
    /\ \A r \in Rows : /\ r < row => lines[r] = Whole(posted.lines[Len(posted.lines) + 1 - count + r])
                       /\ r > row => lines[r] = NoText

\* The status is not, or not yet, being written.
StatusKept ==
  ~InMessage \/ ~live \/ msg \in {"place", "left"} => status = StatusOf(Len(posted.status))

\* The halves of the text that have been copied.
Target == IF live THEN status ELSE lines[row]
TextComes ==
  /\ InMessage /\ msg # "place" /\ ~live => row \in Rows
  /\ msg = "right" => Target[1] = text
  /\ msg = "unlock" => Target = Whole(text)

\* CPU0 has copied some rows of the mailbox, which is at rest.
ViewComes ==
  cpu0 = "copy" =>
    /\ taken = Posted
    /\ shown.count = Below(taken.lines, PocLines)
    /\ \A r \in 1 .. copied : shown.lines[r] = LineOf(taken.lines, r)

\* What CPU0 shows is the mailbox of one moment.
ViewKept == cpu0 # "copy" => shown = View(taken)
OutputInv ==
  /\ OutputTypeOK /\ TextBound /\ OneHolds
  /\ LinesKept /\ LinesMove /\ LineComes /\ StatusKept /\ TextComes
  /\ ViewComes /\ ViewKept

\* A step outside the mailbox.
Quiet == (Free /\ Cpu1) \/ WaitForLock \/ WaitForFifo \/ Drain \/ UNCHANGED outputVars

LEMMA PairHalves ==
  ASSUME NEW S, NEW p \in S \X S, NEW t \in S
  PROVE  /\ [p EXCEPT ![1] = t] = <<t, p[2]>> /\ [p EXCEPT ![2] = t] = <<p[1], t>>
         /\ p = <<p[1], p[2]>> /\ p[1] \in S /\ p[2] \in S
  OBVIOUS

LEMMA AppendKeeps ==
  ASSUME NEW S, NEW q \in Seq(S), NEW t \in S
  PROVE  /\ Append(q, t) \in Seq(S) /\ Len(q) \in Nat /\ Len(Append(q, t)) = Len(q) + 1
         /\ \A i \in 1 .. Len(q) : Append(q, t)[i] = q[i]
         /\ Append(q, t)[Len(q) + 1] = t
  OBVIOUS

LEMMA Placed ==
  ASSUME OutputAssumption, OutputInv, Place
  PROVE  LinesKept' /\ LinesMove' /\ LineComes' /\ StatusKept' /\ TextComes'
<1> DEFINE n == Len(posted.lines)
<1>1. /\ n \in Nat /\ PocLines \in Nat \ {0} /\ msg = "place" /\ InMessage
      /\ count = Below(n, PocLines) /\ \A r \in Rows : lines[r] = LineOf(n, r)
      /\ status = StatusOf(Len(posted.status))
      /\ lines' = lines /\ status' = status /\ posted' = posted /\ live' = live
  BY DEF Place, OutputInv, OutputTypeOK, LinesKept, StatusKept, InMessage, OutputAssumption
<1>2. CASE live
  <2>1. msg' = "left" /\ count' = count
    BY <1>2 DEF Place
  <2> QED
    BY <1>1, <1>2, <2>1 DEF LinesKept, LinesMove, LineComes, StatusKept, TextComes, InMessage,
       LineOf, Below, Whole, StatusOf
<1>3. CASE ~live /\ HasRoom(count)
  <2>1. msg' = "left" /\ count' = count + 1 /\ row' = count + 1 /\ n < PocLines /\ count = n
    BY <1>1, <1>3 DEF Place, HasRoom, Below
  <2>2. row' \in Rows /\ count' = Below(n + 1, PocLines)
    BY <1>1, <2>1 DEF Rows, Below
  <2>3. ASSUME NEW r \in Rows
        PROVE  /\ r < row' => lines[r] = Whole(posted.lines[n + 1 - count' + r])
               /\ r > row' => lines[r] = NoText
    <3>1. r \in Nat /\ lines[r] = LineOf(n, r)
      BY <1>1 DEF Rows
    <3> QED
      BY <1>1, <2>1, <3>1 DEF LineOf, Below
  <2> QED
    BY <1>1, <1>3, <2>1, <2>2, <2>3 DEF LinesKept, LinesMove, LineComes, StatusKept, TextComes,
       InMessage, StatusOf, Whole
<1>4. CASE ~live /\ ~HasRoom(count)
  <2>1. msg' = "shift" /\ count' = count /\ row' = 1 /\ count = PocLines /\ n >= PocLines
    BY <1>1, <1>4 DEF Place, HasRoom, Below
  <2>2. 1 \in Rows /\ \A r \in Rows : ~(r < 1)
    BY <1>1 DEF Rows
  <2> QED
    BY <1>1, <1>4, <2>1, <2>2 DEF LinesKept, LinesMove, LineComes, StatusKept, TextComes,
       InMessage, StatusOf, LineOf, Below, Whole
<1> QED
  BY <1>2, <1>3, <1>4

LEMMA Shifted ==
  ASSUME OutputAssumption, OutputInv, Shift
  PROVE  LinesKept' /\ LinesMove' /\ LineComes' /\ StatusKept' /\ TextComes'
<1> DEFINE n == Len(posted.lines)
<1>1. /\ n \in Nat /\ PocLines \in Nat \ {0} /\ msg = "shift" /\ InMessage /\ ~live
      /\ row \in Rows /\ count = PocLines /\ n >= PocLines
      /\ \A r \in Rows : lines[r] = LineOf(n, IF r < row THEN r + 1 ELSE r)
      /\ status = StatusOf(Len(posted.status)) /\ DOMAIN lines = Rows
      /\ status' = status /\ posted' = posted /\ live' = live /\ count' = count
  BY DEF Shift, OutputInv, OutputTypeOK, LinesMove, StatusKept, InMessage, OutputAssumption
<1>2. CASE row = PocLines
  <2>1. msg' = "left" /\ row' = row /\ lines' = lines
    BY <1>2 DEF Shift
  <2>2. count' = Below(n + 1, PocLines)
    BY <1>1 DEF Below
  <2>3. ASSUME NEW r \in Rows
        PROVE  /\ r < row => lines[r] = Whole(posted.lines[n + 1 - count + r])
               /\ ~(r > row)
    <3>1. r \in 1 .. PocLines /\ lines[r] = LineOf(n, IF r < row THEN r + 1 ELSE r)
      BY <1>1 DEF Rows
    <3>2. ~(r > row) /\ (r < row => r + 1 <= PocLines)
      BY <1>1, <1>2, <3>1
    <3>3. Below(n, PocLines) = PocLines
      BY <1>1 DEF Below
    <3>4. r < row => lines[r] = Whole(posted.lines[n - PocLines + (r + 1)])
      BY <3>1, <3>2, <3>3 DEF LineOf
    <3>5. n - PocLines + (r + 1) = n + 1 - count + r
      <4>1. r \in Nat /\ n \in Nat /\ PocLines \in Nat /\ count = PocLines
        BY <1>1, <3>1
      <4> HIDE DEF n
      <4> QED
        BY <4>1
    <3> QED
      BY <3>2, <3>4, <3>5
  <2> QED
    BY <1>1, <1>2, <2>1, <2>2, <2>3 DEF LinesKept, LinesMove, LineComes, StatusKept, TextComes,
       InMessage, StatusOf, Whole
<1>3. CASE row # PocLines
  <2>1. msg' = "shift" /\ row' = row + 1 /\ lines' = [lines EXCEPT ![row] = lines[row + 1]]
    BY <1>1, <1>3 DEF Shift
  <2>2. row \in 1 .. PocLines - 1 /\ row + 1 \in Rows
    BY <1>1, <1>3 DEF Rows
  <2>3. lines[row + 1] = LineOf(n, row + 1)
    BY <1>1, <2>2
  <2>4. ASSUME NEW r \in Rows PROVE lines'[r] = LineOf(n, IF r < row + 1 THEN r + 1 ELSE r)
    <3>1. r \in 1 .. PocLines
      BY DEF Rows
    <3>2. CASE r = row
      BY <1>1, <2>1, <2>2, <2>3, <3>2
    <3>3. CASE r # row
      <4>1. lines'[r] = lines[r] /\ (r < row + 1 <=> r < row)
        BY <1>1, <2>1, <2>2, <3>1, <3>3
      <4> QED
        BY <1>1, <4>1
    <3> QED
      BY <3>2, <3>3
  <2>5. \A r, k : LineOf(k, r)' = LineOf(k, r)
    BY <1>1 DEF LineOf, Below, Whole
  <2> QED
    BY <1>1, <2>1, <2>2, <2>4 DEF LinesKept, LinesMove, LineComes, StatusKept, TextComes,
       InMessage, StatusOf, Whole, LineOf, Below
<1> QED
  BY <1>2, <1>3

LEMMA LeftCopied ==
  ASSUME OutputAssumption, OutputInv, Copy(1, "left", "right")
  PROVE  LinesKept' /\ LinesMove' /\ LineComes' /\ StatusKept' /\ TextComes'
<1>1. /\ msg = "left" /\ msg' = "right" /\ InMessage
      /\ posted' = posted /\ live' = live /\ count' = count /\ row' = row /\ text' = text
      /\ live \in BOOLEAN
  BY DEF Copy, OutputInv, OutputTypeOK, InMessage
<1>2. /\ text \in Texts /\ status \in Texts \X Texts /\ lines \in [Rows -> Texts \X Texts]
  BY DEF OutputInv, OutputTypeOK
<1>3. CASE live
  <2>1. status' = [status EXCEPT ![1] = text] /\ lines' = lines
    BY <1>3 DEF Copy
  <2>2. status'[1] = text
    BY <1>2, <2>1, PairHalves
  <2> QED
    BY <1>1, <1>3, <2>1, <2>2
    DEF OutputInv, LinesKept, LinesMove, LineComes, StatusKept, TextComes, Target, InMessage, LineOf, Below, Whole, StatusOf
<1>4. CASE ~live
  <2>1. lines' = [lines EXCEPT ![row] = [lines[row] EXCEPT ![1] = text]] /\ status' = status
    BY <1>4 DEF Copy
  <2>2. row \in Rows
    BY <1>1, <1>4 DEF OutputInv, TextComes
  <2>3. lines'[row] = <<text, lines[row][2]>> /\ \A r \in Rows : r # row => lines'[r] = lines[r]
    BY <1>2, <2>1, <2>2, PairHalves
  <2>4. \A r \in Rows : r < row \/ r > row => r # row
    BY <2>2 DEF Rows
  <2>5. status = StatusOf(Len(posted.status)) /\ StatusOf(Len(posted.status))' = StatusOf(Len(posted.status))
    BY <1>1, <1>4 DEF OutputInv, StatusKept, StatusOf, Whole
  <2>6. LineComes'
    BY <1>1, <1>4, <2>3, <2>4 DEF OutputInv, LineComes, Below, Whole
  <2>7. TextComes'
    BY <1>1, <1>4, <2>2, <2>3 DEF TextComes, Target
  <2>8. LinesKept' /\ LinesMove' /\ StatusKept'
    BY <1>1, <1>4, <2>1, <2>5 DEF LinesKept, LinesMove, StatusKept, InMessage
  <2> QED
    BY <2>6, <2>7, <2>8
<1> QED
  BY <1>3, <1>4

LEMMA RightCopied ==
  ASSUME OutputAssumption, OutputInv, Copy(2, "right", "unlock")
  PROVE  LinesKept' /\ LinesMove' /\ LineComes' /\ StatusKept' /\ TextComes'
<1>1. /\ msg = "right" /\ msg' = "unlock" /\ InMessage
      /\ posted' = posted /\ live' = live /\ count' = count /\ row' = row /\ text' = text
      /\ live \in BOOLEAN
  BY DEF Copy, OutputInv, OutputTypeOK, InMessage
<1>2. /\ text \in Texts /\ status \in Texts \X Texts /\ lines \in [Rows -> Texts \X Texts]
  BY DEF OutputInv, OutputTypeOK
<1>3. CASE live
  <2>1. status' = [status EXCEPT ![2] = text] /\ lines' = lines
    BY <1>3 DEF Copy
  <2>2. status[1] = text
    BY <1>1, <1>3 DEF OutputInv, TextComes, Target
  <2>3. status' = Whole(text)
    BY <1>2, <2>1, <2>2, PairHalves DEF Whole
  <2> QED
    BY <1>1, <1>3, <2>1, <2>3
    DEF OutputInv, LinesKept, LinesMove, LineComes, StatusKept, TextComes, Target, InMessage, LineOf, Below, Whole, StatusOf
<1>4. CASE ~live
  <2>1. lines' = [lines EXCEPT ![row] = [lines[row] EXCEPT ![2] = text]] /\ status' = status
    BY <1>4 DEF Copy
  <2>2. row \in Rows /\ lines[row][1] = text
    BY <1>1, <1>4 DEF OutputInv, TextComes, Target
  <2>3. lines'[row] = Whole(text) /\ \A r \in Rows : r # row => lines'[r] = lines[r]
    BY <1>2, <2>1, <2>2, PairHalves DEF Whole
  <2>4. \A r \in Rows : r < row \/ r > row => r # row
    BY <2>2 DEF Rows
  <2>5. status = StatusOf(Len(posted.status)) /\ StatusOf(Len(posted.status))' = StatusOf(Len(posted.status))
    BY <1>1, <1>4 DEF OutputInv, StatusKept, StatusOf, Whole
  <2>6. LineComes'
    BY <1>1, <1>4, <2>3, <2>4 DEF OutputInv, LineComes, Below, Whole
  <2>7. TextComes'
    BY <1>1, <1>4, <2>2, <2>3 DEF TextComes, Target, Whole
  <2>8. LinesKept' /\ LinesMove' /\ StatusKept'
    BY <1>1, <1>4, <2>1, <2>5 DEF LinesKept, LinesMove, StatusKept, InMessage
  <2> QED
    BY <2>6, <2>7, <2>8
<1> QED
  BY <1>3, <1>4

LEMMA Unlocked ==
  ASSUME OutputAssumption, OutputInv, poc_unlock
  PROVE  LinesKept' /\ LinesMove' /\ LineComes' /\ StatusKept' /\ TextComes'
<1> DEFINE n == Len(posted.lines)
           k == Len(posted.status)
<1>1. /\ msg = "unlock" /\ msg' = "idle" /\ InMessage /\ ~InMessage'
      /\ live' = live /\ count' = count /\ row' = row /\ text' = text
      /\ lines' = lines /\ status' = status
      /\ live \in BOOLEAN /\ text \in Texts
      /\ posted \in [lines : Seq(Texts), status : Seq(Texts)]
      /\ PocLines \in Nat \ {0}
  BY DEF poc_unlock, OutputInv, OutputTypeOK, InMessage, OutputAssumption
<1>2. n \in Nat /\ k \in Nat /\ posted.lines \in Seq(Texts) /\ posted.status \in Seq(Texts)
  BY <1>1
<1>3. CASE live
  <2>1. posted'.lines = posted.lines /\ posted'.status = Append(posted.status, text)
    BY <1>1, <1>3 DEF poc_unlock
  <2>2. Len(posted'.status) = k + 1 /\ posted'.status[k + 1] = text
    BY <1>1, <1>2, <2>1, AppendKeeps
  <2>3. status = Whole(text)
    BY <1>1, <1>3 DEF OutputInv, TextComes, Target
  <2>4. StatusKept'
    BY <1>1, <1>2, <2>2, <2>3 DEF StatusKept, StatusOf, Whole
  <2>5. LinesKept' /\ LinesMove' /\ LineComes' /\ TextComes'
    BY <1>1, <1>3, <2>1
    DEF OutputInv, LinesKept, LinesMove, LineComes, TextComes, LineOf, Below, Whole
  <2> QED
    BY <2>4, <2>5
<1>4. CASE ~live
  <2>1. posted'.status = posted.status /\ posted'.lines = Append(posted.lines, text)
    BY <1>1, <1>4 DEF poc_unlock
  <2>2. /\ Len(posted'.lines) = n + 1 /\ posted'.lines[n + 1] = text
        /\ \A i \in 1 .. n : posted'.lines[i] = posted.lines[i]
    BY <1>1, <1>2, <2>1, AppendKeeps
  <2>3. /\ count = Below(n + 1, PocLines) /\ row = count /\ row \in Rows
        /\ lines[row] = Whole(text)
    BY <1>1, <1>4 DEF OutputInv, TextComes, Target, LineComes
  <2>4. ASSUME NEW r \in Rows 
        PROVE lines[r] = IF r <= count THEN Whole(posted'.lines[n + 1 - count + r]) ELSE NoText
    <3>1. r \in Nat \ {0} /\ count \in Nat \ {0} /\ count <= n + 1
      BY <1>1, <1>2, <2>3 DEF Rows, Below
    <3>2. /\ r < row => lines[r] = Whole(posted.lines[n + 1 - count + r])
          /\ r > row => lines[r] = NoText
      BY <1>1, <1>4 DEF OutputInv, LineComes
    <3>3. CASE r < row
      <4>1. n + 1 - count + r \in 1 .. n
        BY <1>2, <2>3, <3>1, <3>3
      <4> QED
        BY <2>2, <2>3, <3>1, <3>2, <3>3, <4>1
    <3>4. CASE r = row
      <4>1. n + 1 - count + r = n + 1
        BY <1>2, <2>3, <3>1, <3>4
      <4> QED
        BY <2>2, <2>3, <3>1, <3>4, <4>1
    <3>5. CASE r > row
      BY <2>3, <3>1, <3>2, <3>5
    <3> QED
      BY <2>3, <3>1, <3>3, <3>4, <3>5
  <2>5. \A r \in Rows : LineOf(Len(posted.lines), r)' =
           IF r <= count' THEN Whole(posted'.lines[Len(posted'.lines) - count' + r]) ELSE NoText
    BY <1>1, <2>2, <2>3 DEF LineOf
  <2>8. LinesKept'
    <3>1. count' = Below(Len(posted'.lines), PocLines)
      BY <1>1, <2>2, <2>3
    <3>2. ASSUME NEW r \in Rows PROVE lines'[r] = LineOf(Len(posted.lines), r)'
      <4>1. lines'[r] =
              IF r <= count THEN Whole(posted'.lines[Len(posted'.lines) - count + r]) ELSE NoText
        <5>1. Len(posted'.lines) - count + r = n + 1 - count + r
          <6>1. n \in Nat /\ count \in Nat /\ r \in Nat /\ Len(posted'.lines) = n + 1
            BY <1>2, <2>2, <2>3 DEF Rows
          <6> HIDE DEF n
          <6> QED
            BY <6>1
        <5> QED
          BY <1>1, <2>4, <5>1
      <4>2. LineOf(Len(posted.lines), r)' =
              IF r <= count THEN Whole(posted'.lines[Len(posted'.lines) - count + r]) ELSE NoText
        BY <1>1, <2>5
      <4> QED
        BY <4>1, <4>2
    <3> QED
      BY <3>1, <3>2 DEF LinesKept
  <2>6. LinesMove' /\ LineComes' /\ TextComes'
    BY <1>1 DEF LinesMove, LineComes, TextComes
  <2>7. StatusKept'
    BY <1>1, <1>4, <2>1 DEF OutputInv, StatusKept, StatusOf, Whole
  <2> QED
    BY <2>6, <2>7, <2>8
<1> QED
  BY <1>3, <1>4

\* The steps that leave the mailbox alone, and CPU1 at the place it is in it.
LEMMA MailboxRests ==
  ASSUME OutputInv, UNCHANGED <<count, lines, status, posted>>,
         \/ UNCHANGED <<msg, live, text, row>>
         \/ ~InMessage /\ msg' \in {"idle", "try", "place"}
  PROVE  LinesKept' /\ LinesMove' /\ LineComes' /\ StatusKept' /\ TextComes'
<1>1. CASE UNCHANGED <<msg, live, text, row>>
  BY <1>1 DEF OutputInv, LinesKept, LinesMove, LineComes, StatusKept, TextComes, Target,
              InMessage, LineOf, Below, Whole, StatusOf
<1>2. CASE ~InMessage /\ msg' \in {"idle", "try", "place"}
  BY <1>2 DEF OutputInv, LinesKept, LinesMove, LineComes, StatusKept, TextComes, Target,
              InMessage, LineOf, Below, Whole, StatusOf
<1> QED
  BY <1>1, <1>2

LEMMA QuietSteps ==
  ASSUME Quiet
  PROVE  /\ UNCHANGED <<diag, panel, posted>>
         /\ \/ UNCHANGED <<msg, live, text, row>>
            \/ ~InMessage /\ msg' \in {"idle", "try"}
<1>1. CASE Free /\ Cpu1
  <2>1. UNCHANGED <<diag, panel, posted>> /\ msg = "idle" /\ ~InMessage
    BY <1>1 DEF Free, InMessage
  <2>2. ~Message
    BY <2>1 DEF Message, poc_try_lock, Place, Shift, Copy, poc_unlock
  <2>3. UNCHANGED message \/ msg' = "try"
    BY <1>1, <2>1, <2>2 DEF Cpu1, Report, InitFails, InitEnds, Remark, SampleReady,
       poc_wait_fifo, Fail, Halt, Stop,
                 WaitForLock, WaitForFifo, Drain, outputVars, message, Post
  <2> QED
    BY <2>1, <2>3 DEF message
<1>2. CASE WaitForLock \/ WaitForFifo \/ Drain \/ UNCHANGED outputVars
  BY <1>2 DEF WaitForLock, WaitForFifo, Drain, outputVars, message, panel, diag, InMessage
<1> QED
  BY <1>1, <1>2 DEF Quiet

LEMMA Cpu0Steps ==
  ASSUME Cpu0
  PROVE  UNCHANGED <<count, lines, status, message, posted>>
  BY DEF Cpu0, TrySnapshot, CopyRow, CopyStatus, Splash, Keeps

LEMMA OutputSteps ==
  ASSUME [OutputNext]_outputVars
  PROVE  \/ poc_try_lock \/ Place \/ Shift
         \/ Copy(1, "left", "right") \/ Copy(2, "right", "unlock") \/ poc_unlock
         \/ Cpu0
         \/ Quiet
<1>1. Cpu1 => Message \/ Free
  BY DEF Cpu1, Report, InitFails, InitEnds, Remark, SampleReady, poc_wait_fifo, Fail, Halt, Stop
<1> QED
  BY <1>1 DEF OutputNext, Message, Quiet

LEMMA MailboxStep ==
  ASSUME OutputAssumption, OutputInv, [OutputNext]_outputVars
  PROVE  LinesKept' /\ LinesMove' /\ LineComes' /\ StatusKept' /\ TextComes'
<1>1. CASE poc_try_lock
  <2>1. /\ UNCHANGED <<count, lines, status, posted>> /\ ~InMessage
        /\ msg' \in {"idle", "try", "place"}
    BY <1>1 DEF poc_try_lock, InMessage
  <2> QED
    BY <2>1, MailboxRests
<1>2. CASE Cpu0
  BY <1>2, Cpu0Steps, MailboxRests DEF message
<1>3. CASE Quiet
  BY <1>3, QuietSteps, MailboxRests DEF diag
<1> QED
  BY <1>1, <1>2, <1>3, OutputSteps, Placed, Shifted, LeftCopied, RightCopied, Unlocked

LEMMA LockStep ==
  ASSUME OutputInv, [OutputNext]_outputVars
  PROVE  OneHolds'
<1>1. CASE poc_try_lock
  BY <1>1 DEF poc_try_lock, Acquires, OutputInv, OneHolds, InMessage, panel
<1>2. CASE Place \/ Shift \/ Copy(1, "left", "right") \/ Copy(2, "right", "unlock")
  <2>1. InMessage /\ InMessage' /\ lock' = lock /\ cpu0' = cpu0
    BY <1>2 DEF Place, Shift, Copy, InMessage, panel
  <2> QED
    BY <2>1 DEF OutputInv, OneHolds
<1>3. CASE poc_unlock
  BY <1>3 DEF poc_unlock, OutputInv, OneHolds, InMessage, panel
<1>4. CASE Cpu0
  <2>1. InMessage' = InMessage
    BY <1>4, Cpu0Steps DEF message, InMessage
  <2> QED
    BY <1>4, <2>1 DEF Cpu0, TrySnapshot, CopyRow, CopyStatus, Splash, NextRound, OutputInv, OneHolds
<1>5. CASE Quiet
  <2>1. lock' = lock /\ cpu0' = cpu0 /\ InMessage' = InMessage
    BY <1>5, QuietSteps DEF diag, panel, InMessage
  <2> QED
    BY <2>1 DEF OutputInv, OneHolds
<1> QED
  BY <1>1, <1>2, <1>3, <1>4, <1>5, OutputSteps

\* What has been shown stays as it was: messages are added only.
LEMMA ViewStays ==
  ASSUME OutputAssumption, OutputInv, [OutputNext]_outputVars
  PROVE  /\ View(taken)' = View(taken) \/ taken' # taken
         /\ \A r \in Rows : taken' = taken => LineOf(taken.lines, r)' = LineOf(taken.lines, r)
<1> SUFFICES ASSUME taken' = taken
             PROVE  /\ \A r \in Rows : LineOf(taken.lines, r)' = LineOf(taken.lines, r)
                    /\ StatusOf(taken.status)' = StatusOf(taken.status)
  BY DEF View
<1>1. /\ posted \in [lines : Seq(Texts), status : Seq(Texts)]
      /\ taken \in [lines : 0 .. Len(posted.lines), status : 0 .. Len(posted.status)]
      /\ PocLines \in Nat /\ text \in Texts
  BY DEF OutputInv, OutputTypeOK, OutputAssumption
<1>2. /\ taken.lines \in Nat /\ taken.lines <= Len(posted.lines)
      /\ taken.status \in Nat /\ taken.status <= Len(posted.status)
  BY <1>1
<1>3. /\ \A i \in 1 .. Len(posted.lines) : posted'.lines[i] = posted.lines[i]
      /\ \A i \in 1 .. Len(posted.status) : posted'.status[i] = posted.status[i]
  <2>1. CASE poc_unlock
    <3>1. \/ posted'.lines = posted.lines /\ posted'.status = Append(posted.status, text)
          \/ posted'.lines = Append(posted.lines, text) /\ posted'.status = posted.status
      BY <1>1, <2>1 DEF poc_unlock
    <3>2. posted.lines \in Seq(Texts) /\ posted.status \in Seq(Texts)
      BY <1>1
    <3>3. \A i \in 1 .. Len(posted.lines) : Append(posted.lines, text)[i] = posted.lines[i]
      BY <1>1, <3>2, AppendKeeps
    <3>4. \A i \in 1 .. Len(posted.status) : Append(posted.status, text)[i] = posted.status[i]
      BY <1>1, <3>2, AppendKeeps
    <3> QED
      BY <3>1, <3>3, <3>4
  <2>2. posted' = posted \/ poc_unlock
    <3>1. poc_try_lock \/ Place \/ Shift \/ Copy(1, "left", "right") \/ Copy(2, "right", "unlock")
            => posted' = posted
      BY DEF poc_try_lock, Place, Shift, Copy
    <3> QED
      BY <3>1, OutputSteps, Cpu0Steps, QuietSteps
  <2> QED
    BY <2>1, <2>2
<1>4. ASSUME NEW r \in Rows PROVE LineOf(taken.lines, r)' = LineOf(taken.lines, r)
  <2> DEFINE c == Below(taken.lines, PocLines)
  <2>1. c \in Nat /\ c <= taken.lines /\ r \in Nat \ {0}
    BY <1>1, <1>2 DEF Below, Rows
  <2>2. r <= c => taken.lines - c + r \in 1 .. Len(posted.lines)
    <3> HIDE DEF c
    <3> QED
      BY <1>1, <1>2, <2>1
  <2>3. r <= c => posted'.lines[taken.lines - c + r] = posted.lines[taken.lines - c + r]
    BY <1>3, <2>2
  <2> QED
    BY <2>3 DEF LineOf, Whole, Below
<1>5. StatusOf(taken.status)' = StatusOf(taken.status)
  <2>1. taken.status = 0 \/ taken.status \in 1 .. Len(posted.status)
    BY <1>1, <1>2
  <2> QED
    BY <1>3, <2>1 DEF StatusOf, Whole
<1> QED
  BY <1>4, <1>5

LEMMA PanelStep ==
  ASSUME OutputAssumption, OutputInv, [OutputNext]_outputVars
  PROVE  ViewComes' /\ ViewKept'
<1>1. /\ shown \in [count : 0 .. PocLines, lines : [Rows -> Texts \X Texts], status : Texts \X Texts]
      /\ count \in 0 .. PocLines /\ lines \in [Rows -> Texts \X Texts] /\ status \in Texts \X Texts
      /\ copied \in 0 .. PocLines /\ PocLines \in Nat
  BY DEF OutputInv, OutputTypeOK, OutputAssumption
<1>2. CASE TrySnapshot
  <2>1. CASE lock
    <3>1. cpu0 # "copy" /\ cpu0' # "copy" /\ shown' = shown /\ taken' = taken
      BY <1>2, <2>1 DEF TrySnapshot, NextRound
    <3>2. shown = View(taken)
      BY <3>1 DEF OutputInv, ViewKept
    <3>3. View(taken)' = View(taken)
      BY <3>1, ViewStays
    <3> QED
      BY <3>1, <3>2, <3>3 DEF ViewComes, ViewKept
  <2>2. CASE ~lock
    <3>1. ~InMessage
      BY <2>2 DEF OutputInv, OneHolds
    <3>2. /\ cpu0' = "copy" /\ taken' = Posted /\ copied' = 0 /\ posted' = posted
          /\ shown'.count = count
      BY <1>1, <1>2, <2>2 DEF TrySnapshot, Keeps
    <3>3. count = Below(Len(posted.lines), PocLines)
      BY <3>1 DEF OutputInv, LinesKept
    <3>4. taken' = Posted' /\ taken'.lines = Len(posted.lines)
      BY <3>2 DEF Posted
    <3>5. \A r \in 1 .. copied' : FALSE
      BY <3>2
    <3> QED
      BY <3>2, <3>3, <3>4, <3>5 DEF ViewComes, ViewKept
  <2> QED
    BY <2>1, <2>2
<1>3. CASE CopyRow
  <2>1. /\ cpu0 = "copy" /\ cpu0' = "copy" /\ copied' = copied + 1 /\ copied + 1 \in Rows
        /\ posted' = posted /\ taken' = taken
        /\ shown' = [shown EXCEPT !.lines = [shown.lines EXCEPT ![copied + 1] = lines[copied + 1]]]
    BY <1>1, <1>3 DEF CopyRow, Keeps, Rows
  <2>2. /\ shown'.count = shown.count
        /\ shown'.lines = [shown.lines EXCEPT ![copied + 1] = lines[copied + 1]]
    BY <1>1, <2>1
  <2>3. /\ shown'.lines[copied + 1] = lines[copied + 1]
        /\ \A r \in Rows : r # copied + 1 => shown'.lines[r] = shown.lines[r]
    BY <1>1, <2>1, <2>2
  <2>4. taken = Posted /\ shown.count = Below(taken.lines, PocLines)
        /\ \A r \in 1 .. copied : shown.lines[r] = LineOf(taken.lines, r)
    BY <2>1 DEF OutputInv, ViewComes
  <2>5. \A r \in Rows : lines[r] = LineOf(taken.lines, r)
    <3>1. ~InMessage /\ taken.lines = Len(posted.lines)
      BY <2>1, <2>4 DEF OutputInv, OneHolds, Posted
    <3> QED
      BY <3>1 DEF OutputInv, LinesKept
  <2>6. \A r \in Rows : LineOf(taken.lines, r)' = LineOf(taken.lines, r)
    BY <2>1, ViewStays
  <2>7. ASSUME NEW r \in 1 .. copied + 1
        PROVE  r \in Rows /\ (r = copied + 1 \/ (r \in 1 .. copied /\ r # copied + 1))
    <3>1. copied \in Nat /\ PocLines \in Nat
      BY <1>1
    <3>2. copied + 1 \in 1 .. PocLines
      BY <2>1 DEF Rows
    <3>3. r \in 1 .. PocLines
      BY <3>1, <3>2
    <3>4. r = copied + 1 \/ (r \in 1 .. copied /\ r # copied + 1)
      BY <3>1
    <3> QED
      BY <3>3, <3>4 DEF Rows
  <2>8. \A r \in 1 .. copied' : shown'.lines[r] = LineOf(taken.lines, r)'
    BY <2>1, <2>3, <2>4, <2>5, <2>6, <2>7
  <2>9. taken' = Posted'
    BY <2>1, <2>4 DEF Posted
  <2> QED
    BY <2>1, <2>2, <2>4, <2>8, <2>9 DEF ViewComes, ViewKept
<1>4. CASE CopyStatus
  <2>1. /\ cpu0 = "copy" /\ cpu0' = "splash" /\ copied = PocLines
        /\ posted' = posted /\ taken' = taken /\ shown' = [shown EXCEPT !.status = status]
    BY <1>4 DEF CopyStatus, Keeps
  <2>2. taken = Posted /\ shown.count = Below(taken.lines, PocLines)
        /\ \A r \in Rows : shown.lines[r] = LineOf(taken.lines, r)
    BY <2>1 DEF OutputInv, ViewComes, Rows
  <2>3. status = StatusOf(taken.status)
    <3>1. ~InMessage /\ taken.status = Len(posted.status)
      BY <2>1, <2>2 DEF OutputInv, OneHolds, Posted
    <3> QED
      BY <3>1 DEF OutputInv, StatusKept
  <2>4. shown.lines = [r \in Rows |-> LineOf(taken.lines, r)]
    BY <1>1, <2>2
  <2>5. shown' = View(taken)
    <3>1. shown' = [count |-> shown.count, lines |-> shown.lines, status |-> status]
      BY <1>1, <2>1
    <3> QED
      BY <2>2, <2>3, <2>4, <3>1 DEF View
  <2>6. View(taken)' = View(taken)
    BY <2>1, ViewStays
  <2> QED
    BY <2>1, <2>5, <2>6 DEF ViewComes, ViewKept
<1>5. CASE Splash
  <2>1. cpu0 # "copy" /\ cpu0' # "copy" /\ shown' = shown /\ taken' = taken
    BY <1>5 DEF Splash
  <2>2. shown = View(taken)
    BY <2>1 DEF OutputInv, ViewKept
  <2>3. View(taken)' = View(taken)
    BY <2>1, ViewStays
  <2> QED
    BY <2>1, <2>2, <2>3 DEF ViewComes, ViewKept
<1>6. ASSUME UNCHANGED panel, posted' = posted \/ poc_unlock
      PROVE  ViewComes' /\ ViewKept'
  <2>1. UNCHANGED <<cpu0, shown, copied, taken>>
    BY <1>6 DEF panel
  <2>2. cpu0 = "copy" => posted' = posted
    BY <1>6 DEF poc_unlock, OutputInv, OneHolds, InMessage
  <2>3. View(taken)' = View(taken) /\ \A r \in Rows : LineOf(taken.lines, r)' = LineOf(taken.lines, r)
    BY <2>1, ViewStays
  <2>4. \A r \in 1 .. copied : r \in Rows
    BY <1>1 DEF Rows
  <2>5. CASE cpu0 = "copy"
    BY <2>1, <2>2, <2>3, <2>4, <2>5 DEF OutputInv, ViewComes, ViewKept, Posted
  <2>6. CASE cpu0 # "copy"
    BY <2>1, <2>3, <2>6 DEF OutputInv, ViewComes, ViewKept
  <2> QED
    BY <2>5, <2>6
<1>7. CASE poc_try_lock \/ Place \/ Shift \/ Copy(1, "left", "right") \/ Copy(2, "right", "unlock") \/ poc_unlock
  <2>1. UNCHANGED panel /\ (posted' = posted \/ poc_unlock)
    BY <1>7 DEF poc_try_lock, Place, Shift, Copy, poc_unlock
  <2> QED
    BY <1>6, <2>1
<1>8. CASE Quiet
  BY <1>6, <1>8, QuietSteps
<1> QED
  BY <1>2, <1>3, <1>4, <1>5, <1>7, <1>8, OutputSteps DEF Cpu0

LEMMA TypeParts ==
  OutputTypeOK <=> MailboxTypes /\ MessageTypes /\ Cpu1Types /\ PanelTypes /\ HistoryTypes
  BY DEF OutputTypeOK, MailboxTypes, MessageTypes, Cpu1Types, PanelTypes, HistoryTypes, Views

LEMMA MailboxTypesStep ==
  ASSUME OutputAssumption, OutputInv, [OutputNext]_outputVars
  PROVE  MailboxTypes'
<1>1. MailboxTypes /\ PocLines \in Nat \ {0} /\ text \in Texts
  BY TypeParts DEF OutputInv, OutputAssumption, Cpu1Types
<1>2. CASE poc_try_lock
  BY <1>1, <1>2 DEF poc_try_lock, MailboxTypes
<1>3. CASE Place
  <2>1. count \in 0 .. PocLines /\ (HasRoom(count) => count + 1 \in 0 .. PocLines)
        /\ 0 \in 0 .. PocLines /\ 1 \in 0 .. PocLines
    BY <1>1 DEF HasRoom, MailboxTypes
  <2> QED
    BY <1>1, <1>3, <2>1 DEF Place, MailboxTypes
<1>4. CASE Shift
  <2>1. row \in Rows
    BY <1>4 DEF Shift, OutputInv, LinesMove
  <2>2. row # PocLines => row + 1 \in Rows /\ row + 1 \in 0 .. PocLines
    BY <1>1, <2>1 DEF Rows
  <2>3. lines' \in [Rows -> Texts \X Texts] /\ row' \in 0 .. PocLines
    BY <1>1, <1>4, <2>1, <2>2 DEF Shift, MailboxTypes
  <2> QED
    BY <1>1, <1>4, <2>3 DEF Shift, MailboxTypes
<1>5. ASSUME NEW half \in {1, 2}, NEW from \in {"left", "right"}, NEW to \in {"right", "unlock"},
             Copy(half, from, to)
      PROVE  MailboxTypes'
  <2>1. text \in Texts /\ status \in Texts \X Texts /\ lines \in [Rows -> Texts \X Texts]
    BY <1>1 DEF MailboxTypes
  <2>2. ASSUME NEW p \in Texts \X Texts PROVE [p EXCEPT ![half] = text] \in Texts \X Texts
    <3>1. p[1] \in Texts /\ p[2] \in Texts
          /\ ([p EXCEPT ![1] = text] = <<text, p[2]>>) /\ [p EXCEPT ![2] = text] = <<p[1], text>>
      BY <2>1, PairHalves
    <3>2. <<text, p[2]>> \in Texts \X Texts /\ <<p[1], text>> \in Texts \X Texts
      BY <2>1, <3>1
    <3>3. half = 1 \/ half = 2
      OBVIOUS
    <3> QED
      BY <3>1, <3>2, <3>3
  <2>3. status' \in Texts \X Texts /\ lines' \in [Rows -> Texts \X Texts]
    <3>1. CASE live
      BY <1>5, <2>1, <2>2, <3>1 DEF Copy
    <3>2. CASE ~live
      <4>1. row \in Rows
        BY <1>5, <3>2 DEF Copy, OutputInv, TextComes, InMessage
      <4>2. lines' = [lines EXCEPT ![row] = [lines[row] EXCEPT ![half] = text]] /\ status' = status
        BY <1>5, <3>2 DEF Copy
      <4>3. [lines[row] EXCEPT ![half] = text] \in Texts \X Texts
        BY <2>1, <2>2, <4>1
      <4> QED
        BY <2>1, <4>2, <4>3
    <3> QED
      BY <3>1, <3>2
  <2> QED
    BY <1>1, <1>5, <2>3 DEF Copy, MailboxTypes
<1>6. CASE poc_unlock
  BY <1>1, <1>6 DEF poc_unlock, MailboxTypes
<1>7. CASE Cpu0
  <2>1. lock' \in BOOLEAN
    BY <1>1, <1>7 DEF Cpu0, TrySnapshot, CopyRow, CopyStatus, Splash, MailboxTypes
  <2> QED
    BY <1>1, <1>7, <2>1, Cpu0Steps DEF message, MailboxTypes
<1>8. CASE Quiet
  <2>1. UNCHANGED diag /\ (row' = row \/ row' = 0)
    <3>1. UNCHANGED diag
      BY <1>8, QuietSteps
    <3>2. CASE WaitForLock \/ WaitForFifo \/ Drain \/ UNCHANGED outputVars
      BY <3>2 DEF WaitForLock, WaitForFifo, Drain, outputVars, message
    <3>3. CASE Free /\ Cpu1
      BY <3>3 DEF Free, Cpu1, Message, poc_try_lock, Place, Shift, Copy, poc_unlock, Report,
         InitFails,
        InitEnds, Remark, SampleReady, poc_wait_fifo, Fail, Halt, Stop, Post, message
    <3> QED
      BY <1>8, <3>1, <3>2, <3>3 DEF Quiet
  <2> QED
    BY <1>1, <2>1 DEF diag, MailboxTypes
<1> QED
  BY <1>2, <1>3, <1>4, <1>5, <1>6, <1>7, <1>8, OutputSteps

LEMMA Cpu1Steps ==
  ASSUME Free, Cpu1
  PROVE  Report \/ InitFails \/ InitEnds \/ Remark(TRUE) \/ Remark(FALSE)
         \/ SampleReady \/ poc_wait_fifo \/ Fail \/ Halt \/ Stop
<1>1. ~Message
  BY DEF Free, Message, poc_try_lock, Place, Shift, Copy, poc_unlock
<1> QED
  BY <1>1 DEF Cpu1

LEMMA MessageTypesStep ==
  ASSUME OutputAssumption, OutputInv, [OutputNext]_outputVars
  PROVE  MessageTypes'
<1>1. MessageTypes /\ Timeout \in Nat
  BY TypeParts DEF OutputInv, OutputAssumption
<1>2. CASE poc_try_lock
  BY <1>1, <1>2 DEF poc_try_lock, MessageTypes
<1>3. CASE Place \/ Shift \/ Copy(1, "left", "right") \/ Copy(2, "right", "unlock") \/ poc_unlock
  <2>1. live' = live /\ spent' = spent /\ msg' \in {"idle", "shift", "left", "right", "unlock"}
    BY <1>3 DEF Place, Shift, Copy, poc_unlock
  <2> QED
    BY <1>1, <2>1 DEF MessageTypes
<1>4. CASE Cpu0
  BY <1>1, <1>4, Cpu0Steps DEF message, MessageTypes
<1>5. CASE Free /\ Cpu1
  <2>1. (UNCHANGED <<msg, live, spent>>) \/ (msg' = "try" /\ live' \in BOOLEAN /\ spent' = 0)
    BY <1>5, Cpu1Steps DEF Report, InitFails,
        InitEnds, Remark, SampleReady, poc_wait_fifo, Fail, Halt, Stop, Post, message
  <2> QED
    BY <1>1, <2>1 DEF MessageTypes
<1>6. CASE WaitForLock
  <2>1. spent' \in 0 .. Timeout
    BY <1>1, <1>6 DEF WaitForLock, MessageTypes
  <2> QED
    BY <1>1, <1>6, <2>1 DEF WaitForLock, MessageTypes
<1>7. CASE WaitForFifo \/ Drain \/ UNCHANGED outputVars
  BY <1>1, <1>7 DEF WaitForFifo, Drain, outputVars, message, MessageTypes
<1> QED
  BY <1>2, <1>3, <1>4, <1>5, <1>6, <1>7, OutputSteps DEF Quiet

LEMMA Cpu1TypesStep ==
  ASSUME OutputAssumption, OutputInv, [OutputNext]_outputVars
  PROVE  Cpu1Types' /\ TextBound'
<1>1. /\ Cpu1Types /\ TextBound /\ MaxFull \in Nat /\ MaxPosts \in Nat /\ text \in Nat
      /\ waited \in 0 .. MaxFull
  BY TypeParts DEF OutputInv, OutputAssumption, Cpu1Types, Texts
<1>2. CASE UNCHANGED <<text, audio>>
  BY <1>1, <1>2 DEF audio, Cpu1Types, TextBound
<1>3. CASE Free /\ Cpu1
  <2>1. CASE Report \/ Remark(TRUE) \/ Remark(FALSE)
    <3>1. text' = text + 1 /\ text < MaxPosts /\ UNCHANGED audio /\ cpu1 \in {"init", "play"}
      BY <2>1 DEF Report, Remark, Post
    <3>2. text' \in Texts /\ TextBound'
      BY <1>1, <3>1 DEF Texts, audio, TextBound
    <3> QED
      BY <1>1, <3>1, <3>2 DEF audio, Cpu1Types
  <2>2. CASE InitFails \/ Fail \/ Halt
    <3>1. /\ text' = text + 1 /\ UNCHANGED <<full, waited, mai_on, rendering>> /\ failed' \in {TRUE, failed}
          /\ \/ cpu1 = "init" /\ cpu1' = "halt"
             \/ cpu1 = "fail" /\ cpu1' = "report"
             \/ cpu1 = "report" /\ cpu1' = "stop"
      BY <2>2 DEF InitFails, Fail, Halt, Post
    <3>2. text' \in Texts /\ TextBound'
      BY <1>1, <3>1 DEF Texts, TextBound
    <3> QED
      BY <1>1, <3>1, <3>2 DEF Cpu1Types
  <2>3. CASE InitEnds \/ SampleReady \/ poc_wait_fifo \/ Stop
    <3>1. /\ text' = text /\ waited' \in {0, waited} /\ full' \in BOOLEAN
          /\ mai_on' \in BOOLEAN /\ failed' \in BOOLEAN /\ rendering' \in BOOLEAN
          /\ \/ cpu1 \in {"init", "play", "fifo"} /\ cpu1' \in {"play", "fifo", "fail"}
             \/ cpu1' = "halt"
      BY <1>1, <2>3 DEF InitEnds, SampleReady, poc_wait_fifo, Stop, message, Cpu1Types
    <3> QED
      BY <1>1, <3>1 DEF Cpu1Types, TextBound
  <2> QED
    BY <1>3, <2>1, <2>2, <2>3, Cpu1Steps
<1>4. CASE WaitForFifo
  <2>1. waited' \in 0 .. MaxFull
    BY <1>1, <1>4 DEF WaitForFifo
  <2> QED
    BY <1>1, <1>4, <2>1 DEF WaitForFifo, message, Cpu1Types, TextBound
<1>5. CASE Drain
  BY <1>1, <1>5 DEF Drain, message, Cpu1Types, TextBound
<1>6. \/ poc_try_lock \/ Place \/ Shift \/ Copy(1, "left", "right") \/ Copy(2, "right", "unlock")
      \/ poc_unlock \/ Cpu0 \/ WaitForLock \/ UNCHANGED outputVars
      => UNCHANGED <<text, audio>>
  <2>1. Cpu0 => UNCHANGED <<text, audio>>
    BY DEF Cpu0, TrySnapshot, CopyRow, CopyStatus, Splash, Keeps, message
  <2> QED
    BY <2>1 DEF poc_try_lock, Place, Shift, Copy, poc_unlock, WaitForLock, outputVars, message
<1> QED
  BY <1>2, <1>3, <1>4, <1>5, <1>6, OutputSteps DEF Quiet

LEMMA PanelTypesStep ==
  ASSUME OutputAssumption, OutputInv, [OutputNext]_outputVars
  PROVE  PanelTypes'
<1>1. /\ PanelTypes /\ PocLines \in Nat \ {0} /\ Rounds \in Nat /\ copied \in 0 .. PocLines
      /\ round \in 0 .. Rounds
      /\ count \in 0 .. PocLines /\ lines \in [Rows -> Texts \X Texts] /\ status \in Texts \X Texts
  BY TypeParts DEF OutputInv, OutputAssumption, MailboxTypes, PanelTypes
<1>2. shown \in Views
  BY <1>1 DEF PanelTypes
<1>3. CASE TrySnapshot
  <2>1. shown' \in Views
    BY <1>1, <1>2, <1>3 DEF TrySnapshot, Views
  <2> QED
    BY <1>1, <1>3, <2>1 DEF TrySnapshot, NextRound, PanelTypes
<1>4. CASE CopyRow
  <2>1. copied + 1 \in Rows /\ copied' \in 0 .. PocLines
    BY <1>1, <1>4 DEF CopyRow, Rows
  <2>2. shown' \in Views
    BY <1>1, <1>2, <1>4, <2>1 DEF CopyRow, Views
  <2> QED
    BY <1>1, <1>4, <2>1, <2>2 DEF CopyRow, PanelTypes
<1>5. CASE CopyStatus
  <2>1. shown' \in Views
    BY <1>1, <1>2, <1>5 DEF CopyStatus, Views
  <2> QED
    BY <1>1, <1>5, <2>1 DEF CopyStatus, PanelTypes
<1>6. CASE Splash
  <2>1. round' \in 0 .. Rounds
    BY <1>1, <1>6 DEF Splash
  <2> QED
    BY <1>1, <1>6, <2>1 DEF Splash, PanelTypes
<1>7. CASE UNCHANGED panel
  BY <1>1, <1>7 DEF panel, PanelTypes
<1>8. poc_try_lock \/ Place \/ Shift \/ Copy(1, "left", "right") \/ Copy(2, "right", "unlock") \/ poc_unlock
        => UNCHANGED panel
  BY DEF poc_try_lock, Place, Shift, Copy, poc_unlock
<1> QED
  BY <1>3, <1>4, <1>5, <1>6, <1>7, <1>8, OutputSteps, QuietSteps DEF Cpu0

LEMMA HistoryTypesStep ==
  ASSUME OutputAssumption, OutputInv, [OutputNext]_outputVars
  PROVE  HistoryTypes'
<1>1. /\ posted \in [lines : Seq(Texts), status : Seq(Texts)] /\ text \in Texts
      /\ taken \in [lines : 0 .. Len(posted.lines), status : 0 .. Len(posted.status)]
  BY TypeParts DEF OutputInv, HistoryTypes, Cpu1Types
<1>2. posted.lines \in Seq(Texts) /\ posted.status \in Seq(Texts)
  BY <1>1
<1>3. CASE poc_unlock
  <2>1. /\ Append(posted.lines, text) \in Seq(Texts) /\ Len(posted.lines) \in Nat
        /\ Len(Append(posted.lines, text)) = Len(posted.lines) + 1
    BY <1>1, <1>2, AppendKeeps
  <2>2. /\ Append(posted.status, text) \in Seq(Texts) /\ Len(posted.status) \in Nat
        /\ Len(Append(posted.status, text)) = Len(posted.status) + 1
    BY <1>1, <1>2, AppendKeeps
  <2>3. taken' = taken
    BY <1>3 DEF poc_unlock, panel
  <2>4. CASE live
    <3>1. posted' = [lines |-> posted.lines, status |-> Append(posted.status, text)]
      BY <1>1, <1>3, <2>4 DEF poc_unlock
    <3> QED
      BY <1>1, <1>2, <2>1, <2>2, <2>3, <3>1 DEF HistoryTypes
  <2>5. CASE ~live
    <3>1. posted' = [lines |-> Append(posted.lines, text), status |-> posted.status]
      BY <1>1, <1>3, <2>5 DEF poc_unlock
    <3> QED
      BY <1>1, <1>2, <2>1, <2>2, <2>3, <3>1 DEF HistoryTypes
  <2> QED
    BY <2>4, <2>5
<1>4. CASE TrySnapshot
  <2>1. Posted \in [lines : 0 .. Len(posted.lines), status : 0 .. Len(posted.status)]
    BY <1>2 DEF Posted
  <2>2. taken' \in {taken, Posted} /\ posted' = posted
    BY <1>4 DEF TrySnapshot, Keeps
  <2> QED
    BY <1>1, <2>1, <2>2 DEF HistoryTypes
<1>5. CASE UNCHANGED <<taken, posted>>
  BY <1>1, <1>5 DEF HistoryTypes
<1>6. poc_try_lock \/ Place \/ Shift \/ Copy(1, "left", "right") \/ Copy(2, "right", "unlock")
        => UNCHANGED <<taken, posted>>
  BY DEF poc_try_lock, Place, Shift, Copy, panel
<1>7. Cpu0 => TrySnapshot \/ UNCHANGED <<taken, posted>>
  BY DEF Cpu0, CopyRow, CopyStatus, Splash, Keeps
<1> QED
  BY <1>3, <1>4, <1>5, <1>6, <1>7, OutputSteps, QuietSteps DEF panel

LEMMA OutputTypes ==
  ASSUME OutputAssumption, OutputInv, [OutputNext]_outputVars
  PROVE  OutputTypeOK' /\ TextBound'
<1>1. MailboxTypes' /\ MessageTypes' /\ Cpu1Types' /\ TextBound' /\ PanelTypes' /\ HistoryTypes'
  BY MailboxTypesStep, MessageTypesStep, Cpu1TypesStep, PanelTypesStep, HistoryTypesStep
<1> QED
  BY <1>1 DEF OutputTypeOK, MailboxTypes, MessageTypes, Cpu1Types, PanelTypes, HistoryTypes, Views

LEMMA OutputStarts ==
  ASSUME OutputAssumption, OutputInit
  PROVE  OutputInv
<1>1. /\ 0 \in Texts /\ NoText \in Texts \X Texts /\ 0 \in 0 .. PocLines
      /\ PocLines \in Nat \ {0} /\ Rounds \in Nat \ {0}
      /\ Timeout \in Nat /\ MaxFull \in Nat /\ MaxPosts \in Nat
  BY DEF OutputAssumption, Texts, NoText
<1>2. /\ posted = [lines |-> <<>>, status |-> <<>>] /\ posted.lines = <<>> /\ posted.status = <<>>
      /\ Len(posted.lines) = 0 /\ Len(posted.status) = 0 /\ Below(0, PocLines) = 0
      /\ \A r \in Rows : LineOf(0, r) = NoText
      /\ StatusOf(0) = NoText
  BY <1>1 DEF OutputInit, Below, LineOf, StatusOf, Rows
<1>3. OutputTypeOK
  <2>1. posted \in [lines : Seq(Texts), status : Seq(Texts)]
        /\ taken \in [lines : 0 .. Len(posted.lines), status : 0 .. Len(posted.status)]
    <3>1. <<>> \in Seq(Texts) /\ 0 \in 0 .. 0
      OBVIOUS
    <3>2. posted = [lines |-> <<>>, status |-> <<>>] /\ taken = [lines |-> 0, status |-> 0]
      BY DEF OutputInit
    <3> QED
      BY <1>2, <3>1, <3>2
  <2>2. HistoryTypes
    BY <2>1 DEF HistoryTypes
  <2>3. shown \in Views
    BY <1>1 DEF OutputInit, Views
  <2>4. PanelTypes
    BY <1>1, <2>3 DEF OutputInit, PanelTypes
  <2>5. MailboxTypes
    BY <1>1 DEF OutputInit, MailboxTypes
  <2>6. MessageTypes
    <3>1. 0 \in 0 .. Timeout
      BY <1>1
    <3> QED
      BY <3>1 DEF OutputInit, MessageTypes
  <2>7. Cpu1Types
    <3>1. 0 \in 0 .. MaxFull
      BY <1>1
    <3> QED
      BY <1>1, <3>1 DEF OutputInit, Cpu1Types
  <2> QED
    BY <2>2, <2>4, <2>5, <2>6, <2>7, TypeParts
<1>4. TextBound /\ OneHolds /\ LinesKept /\ LinesMove /\ LineComes /\ StatusKept /\ TextComes /\ ViewComes
  BY <1>1, <1>2 DEF OutputInit, TextBound, OneHolds, LinesKept, LinesMove, LineComes, StatusKept,
     TextComes,
                    ViewComes, InMessage
<1>5. ViewKept
  BY <1>1, <1>2 DEF OutputInit, ViewKept, View
<1> QED
  BY <1>3, <1>4, <1>5 DEF OutputInv

LEMMA OutputStep ==
  ASSUME OutputAssumption, OutputInv, [OutputNext]_outputVars
  PROVE  OutputInv'
  BY OutputTypes, LockStep, MailboxStep, PanelStep DEF OutputInv

(* The mailbox, the wait for the FIFO and the boot keep to their types: the  *)
(* count never exceeds POC_LINES, and no wait its timeout.                   *)
THEOREM OutputTypeCorrect ==
  ASSUME OutputAssumption
  PROVE  OutputSpec => []OutputTypeOK
<1>1. OutputInit => OutputInv
  BY OutputStarts
<1>2. OutputInv /\ [OutputNext]_outputVars => OutputInv'
  BY OutputStep
<1>3. OutputInv => OutputTypeOK
  BY DEF OutputInv
<1> QED
  BY <1>1, <1>2, <1>3, PTL DEF OutputSpec

(* However messages, their timeouts and the snapshots of the boot test       *)
(* interleave, the panel shows the mailbox of one moment: the last lines in  *)
(* order and the last status, none of them in parts.                         *)
THEOREM PanelAlwaysWhole ==
  ASSUME OutputAssumption
  PROVE  OutputSpec => []PanelIsWhole
<1>1. OutputInit => OutputInv
  BY OutputStarts
<1>2. OutputInv /\ [OutputNext]_outputVars => OutputInv'
  BY OutputStep
<1>3. OutputInv => PanelIsWhole
  BY DEF OutputInv, ViewKept, PanelIsWhole
<1> QED
  BY <1>1, <1>2, <1>3, PTL DEF OutputSpec

-----------------------------------------------------------------------------
(***************************************************************************)
(* Proofs about AmigaReset, for any chain of boards of either kind, and    *)
(* resets from the machine and the keyboard at any time.                   *)
(*                                                                         *)
(* Neither half of ResetsAreHandled is inductive.  That the housekeeper    *)
(* restarts only for the keyboard needs that its turn ends before the      *)
(* pulse it saw (PulseSeen), so that ignore_reset is still set when the    *)
(* sample is tested.  That no enabled board is left out needs that those   *)
(* before board_idx are done (BoardsPassed), through reads that pass over  *)
(* any number of disabled boards: the first enabled one exists because     *)
(* every set of numbers has a smallest (SmallestOf).                       *)
(***************************************************************************)

Pulsing == pulse \in {"drive", "hold", "boards", "settle"}

\* The housekeeper's turn that has seen the pulse ends before the pulse does.
PulseSeen ==
  /\ ignore <=> Pulsing
  /\ driven <=> pulse = "hold"
  /\ keeper = "test" /\ low /\ ~why => pulse \in {"hold", "boards", "settle"}
  /\ OwnResetIsIgnored

\* The boards before idx are done, if enabled, and no others.
BoardsPassed ==
  /\ \A n \in DOMAIN order : order[n] < idx
  /\ \A m, n \in DOMAIN order : m < n => order[m] < order[n]
  /\ \A i \in DOMAIN Boards : state[i] # "silent" => i \in EnabledBoards
  /\ \A i \in EnabledBoards : i < idx => state[i] # "silent"
  /\ kick = "reply" => idx \in EnabledBoards
  /\ kick = "done" => idx = Last

ResetInv == ResetTypeOK /\ PulseSeen /\ BoardsPassed

\* A set of numbers has a smallest, by the order of the sets 0 .. x.
LEMMA SmallestOf ==
  ASSUME NEW T, T \subseteq Nat, T # {}
  PROVE  \E x \in T : \A y \in T : x <= y
<1> DEFINE F == {0 .. x : x \in T}
<1>1. F \subseteq FiniteSubsetsOf(Nat) /\ F # {}
  <2>1. ASSUME NEW x \in T PROVE IsFiniteSet(0 .. x) /\ 0 .. x \subseteq Nat
    BY FS_Interval
  <2> QED
    BY <2>1 DEF FiniteSubsetsOf
<1>2. PICK u \in F : \A v \in F : ~ (<<v, u>> \in StrictSubsetOrdering(Nat))
  <2> HIDE DEF F
  <2> QED
    BY <1>1, FS_StrictSubsetOrderingWellFounded, WFMin
<1>3. PICK x \in T : u = 0 .. x
  OBVIOUS
<1>4. ASSUME NEW y \in T, ~(x <= y) PROVE FALSE
  <2>1. 0 .. y \in F /\ x \in Nat /\ y \in Nat
    OBVIOUS
  <2>2. 0 .. y \subseteq 0 .. x /\ x \in 0 .. x /\ x \notin 0 .. y
    BY <1>4, <2>1
  <2>3. 0 .. y # 0 .. x /\ 0 .. y \in SUBSET Nat /\ 0 .. x \in SUBSET Nat
    BY <2>1, <2>2
  <2>4. <<0 .. y, u>> \in StrictSubsetOrdering(Nat)
    BY <1>3, <2>2, <2>3 DEF StrictSubsetOrdering
  <2> QED
    BY <1>2, <2>1, <2>4
<1> QED
  BY <1>4

LEMMA BoardNumbers ==
  ASSUME ResetAssumption
  PROVE  /\ Len(Boards) \in Nat /\ DOMAIN Boards = 1 .. Len(Boards)
         /\ Last \in Nat \ {0} /\ Last = Len(Boards) + 1 /\ EnabledBoards \subseteq 1 .. Len(Boards)
         /\ \A i \in DOMAIN Boards : Boards[i].enabled \in BOOLEAN
<1>1. Boards \in Seq([z3 : BOOLEAN, enabled : BOOLEAN])
  BY DEF ResetAssumption
<1>2. Len(Boards) \in Nat /\ DOMAIN Boards = 1 .. Len(Boards)
  BY <1>1
<1>3. Last \in Nat \ {0} /\ Last = Len(Boards) + 1
  BY <1>2 DEF Last
<1>4. EnabledBoards \subseteq 1 .. Len(Boards)
  BY <1>2 DEF EnabledBoards
<1>5. ASSUME NEW i \in DOMAIN Boards PROVE Boards[i].enabled \in BOOLEAN
  <2>1. i \in 1 .. Len(Boards)
    BY <1>2
  <2>2. Boards[i] \in [z3 : BOOLEAN, enabled : BOOLEAN]
    BY <1>1, <2>1, ElementOfSeq
  <2> QED
    BY <2>2
<1>6. \A i \in DOMAIN Boards : Boards[i].enabled \in BOOLEAN
  BY <1>5
<1> QED
  BY <1>2, <1>3, <1>4, <1>6

\* The board that answers a read: the first enabled one from i on.
LEMMA FirstEnabledIs ==
  ASSUME ResetAssumption, NEW i \in 1 .. Last
  PROVE  /\ FirstEnabled(i) \in i .. Last
         /\ FirstEnabled(i) = Last \/ FirstEnabled(i) \in EnabledBoards
         /\ \A k \in EnabledBoards : i <= k => FirstEnabled(i) <= k
<1>1. Last \in Nat /\ i \in Nat /\ i <= Last
  BY BoardNumbers
<1> DEFINE T == {j \in i .. Last : j = Last \/ Boards[j].enabled}
           First(j) == /\ j = Last \/ Boards[j].enabled
                       /\ \A k \in i .. j - 1 : ~Boards[k].enabled
<1>2. T \subseteq Nat /\ Last \in T
  BY <1>1
<1>3. PICK j \in T : \A y \in T : j <= y
  BY <1>2, SmallestOf
<1>4. \E c \in i .. Last : First(c)
  <2>1. ASSUME NEW k \in i .. j - 1 PROVE ~Boards[k].enabled
    <3>1. k \in i .. Last /\ ~(j <= k)
      BY <1>1, <1>3
    <3> QED
      BY <1>3, <3>1
  <2> QED
    BY <1>3, <2>1
<1>5. FirstEnabled(i) \in i .. Last /\ First(FirstEnabled(i))
  <2>1. FirstEnabled(i) = CHOOSE c \in i .. Last : First(c)
    BY DEF FirstEnabled
  <2> HIDE DEF First
  <2> QED
    BY <1>4, <2>1
<1>6. FirstEnabled(i) = Last \/ FirstEnabled(i) \in EnabledBoards
  <2>1. FirstEnabled(i) # Last => FirstEnabled(i) \in DOMAIN Boards
    BY <1>1, <1>5, BoardNumbers
  <2> QED
    BY <1>5, <2>1 DEF EnabledBoards
<1>7. ASSUME NEW k \in EnabledBoards, i <= k PROVE FirstEnabled(i) <= k
  <2>1. k \in Nat /\ k <= Last /\ Boards[k].enabled
    BY <1>1, BoardNumbers DEF EnabledBoards
  <2>2. FirstEnabled(i) \in Nat /\ ~(k \in i .. FirstEnabled(i) - 1)
    BY <1>1, <1>5, <2>1
  <2> QED
    BY <1>1, <1>7, <2>1, <2>2
<1> QED
  BY <1>5, <1>6, <1>7

LEMMA ResetStarts ==
  ASSUME ResetAssumption, ResetInit
  PROVE  ResetInv
<1>1. 1 \in 1 .. Last /\ <<>> \in Seq(DOMAIN Boards) /\ FastPage0 \in BOOLEAN
      /\ \A i \in EnabledBoards : ~(i < 1)
  BY BoardNumbers DEF ResetAssumption
<1>2. ResetTypeOK
  BY <1>1 DEF ResetInit, ResetTypeOK, Silent
<1>3. PulseSeen
  BY DEF ResetInit, PulseSeen, OwnResetIsIgnored, Pulsing
<1>4. BoardsPassed
  BY <1>1 DEF ResetInit, BoardsPassed, Silent
<1> QED
  BY <1>2, <1>3, <1>4 DEF ResetInv

LEMMA PulseStep ==
  ASSUME ResetAssumption, ResetInv, [ResetNext]_resetVars
  PROVE  PulseSeen'
<1>1. /\ PulseSeen /\ driven \in BOOLEAN /\ pulled \in BOOLEAN /\ ignore \in BOOLEAN
      /\ low \in BOOLEAN /\ why \in BOOLEAN
  BY DEF ResetInv, ResetTypeOK
<1>2. CASE CallPulse \/ WaitFree \/ Drive \/ ReleaseReset \/ ResetBoards \/ Settle
  BY <1>1, <1>2 DEF CallPulse, WaitFree, Drive, ReleaseReset, ResetBoards, Settle, Pulse,
    Ignored, Released, keeperVars, PulseSeen, OwnResetIsIgnored, Pulsing
<1>3. CASE SamplePins
  BY <1>1, <1>3 DEF SamplePins, IsLow, pulseVars, PulseSeen, OwnResetIsIgnored, Pulsing
<1>4. CASE TestPins
  BY <1>1, <1>4 DEF TestPins, pulseVars, PulseSeen, OwnResetIsIgnored, Pulsing
<1>5. CASE Pull \/ LetGo \/ Program \/ UNCHANGED resetVars
  <2>1. UNCHANGED <<pulseVars, keeperVars>>
    BY <1>5 DEF Pull, LetGo, Program, resetVars
  <2> QED
    BY <1>1, <2>1 DEF pulseVars, keeperVars, PulseSeen, OwnResetIsIgnored, Pulsing
<1>6. WriteOverlay \/ StartConfig \/ ReadBoard \/ Configure("44") \/ Configure("48") \/ ShutUp => Program
  BY DEF WriteOverlay, StartConfig, ReadBoard, Configure, ShutUp
<1> QED
  BY <1>2, <1>3, <1>4, <1>5, <1>6 DEF ResetNext

\* The board in turn is done.
LEMMA BoardPasses ==
  ASSUME ResetAssumption, ResetInv, kick = "reply", kick' = "read", NEW s \in {"mapped", "shut"}, Passes(s)
  PROVE  /\ idx' \in 1 .. Last /\ state' \in [DOMAIN Boards -> {"silent", "mapped", "shut"}]
         /\ order' \in Seq(DOMAIN Boards) /\ BoardsPassed'
<1>1. /\ BoardsPassed /\ idx \in EnabledBoards /\ idx \in DOMAIN Boards /\ idx \in 1 .. Len(Boards)
      /\ state \in [DOMAIN Boards -> {"silent", "mapped", "shut"}] /\ order \in Seq(DOMAIN Boards)
  BY BoardNumbers DEF ResetInv, ResetTypeOK, BoardsPassed
<1>2. /\ idx' = idx + 1 /\ idx' \in 1 .. Last
      /\ state' = [state EXCEPT ![idx] = s] /\ order' = Append(order, idx)
  BY <1>1, BoardNumbers DEF Passes, NextBoard
<1>3. /\ state' \in [DOMAIN Boards -> {"silent", "mapped", "shut"}] /\ state'[idx] = s
      /\ \A i \in DOMAIN Boards : i # idx => state'[i] = state[i]
  BY <1>1, <1>2
<1>4. /\ order' \in Seq(DOMAIN Boards) /\ Len(order) \in Nat /\ Len(order') = Len(order) + 1
      /\ \A n \in 1 .. Len(order) : order'[n] = order[n]
      /\ order'[Len(order) + 1] = idx
      /\ DOMAIN order = 1 .. Len(order) /\ DOMAIN order' = 1 .. Len(order) + 1
      /\ \A n \in 1 .. Len(order) : order[n] \in 1 .. Len(Boards)
  <2>1. /\ Append(order, idx) \in Seq(DOMAIN Boards) /\ Len(order) \in Nat
        /\ Len(Append(order, idx)) = Len(order) + 1
        /\ \A i \in 1 .. Len(order) : Append(order, idx)[i] = order[i]
        /\ Append(order, idx)[Len(order) + 1] = idx
    BY <1>1, AppendKeeps
  <2>2. DOMAIN order = 1 .. Len(order) /\ \A n \in 1 .. Len(order) : order[n] \in DOMAIN Boards
    BY <1>1
  <2>3. DOMAIN order' = 1 .. Len(order) + 1
    BY <1>2, <2>1
  <2> QED
    BY <1>2, <2>1, <2>2, <2>3, BoardNumbers
<1>5. \A n \in DOMAIN order' : (n \in DOMAIN order /\ order'[n] = order[n] /\ order[n] < idx)
                               \/ (n = Len(order) + 1 /\ order'[n] = idx)
  BY <1>1, <1>4 DEF BoardsPassed
<1>6. \A n \in DOMAIN order' : order'[n] < idx'
  BY <1>1, <1>2, <1>4, <1>5
<1>7. \A m, n \in DOMAIN order' : m < n => order'[m] < order'[n]
  <2>1. SUFFICES ASSUME NEW m \in DOMAIN order', NEW n \in DOMAIN order', m < n
                 PROVE  order'[m] < order'[n]
    OBVIOUS
  <2>2. m \in DOMAIN order
    BY <1>4, <2>1
  <2>3. CASE n \in DOMAIN order
    BY <1>1, <1>4, <2>1, <2>2, <2>3 DEF BoardsPassed
  <2>4. CASE n = Len(order) + 1
    BY <1>1, <1>4, <2>2, <2>4 DEF BoardsPassed
  <2> QED
    BY <1>5, <2>3, <2>4
<1>8. \A i \in DOMAIN Boards : state'[i] # "silent" => i \in EnabledBoards
  BY <1>1, <1>3 DEF BoardsPassed
<1>9. \A i \in EnabledBoards : i < idx' => state'[i] # "silent"
  <2>1. SUFFICES ASSUME NEW i \in EnabledBoards, i < idx' PROVE state'[i] # "silent"
    OBVIOUS
  <2>2. i \in DOMAIN Boards /\ (i = idx \/ i < idx)
    <3>1. i \in 1 .. Len(Boards) /\ i \in DOMAIN Boards /\ i \in Nat /\ idx \in Nat
      BY <1>1, <2>1, BoardNumbers
    <3> QED
      BY <1>2, <2>1, <3>1
  <2> QED
    BY <1>1, <1>3, <2>1, <2>2 DEF BoardsPassed
<1> QED
  BY <1>2, <1>3, <1>4, <1>6, <1>7, <1>8, <1>9 DEF BoardsPassed

\* What the boards keep to.
BoardTypes ==
  /\ idx \in 1 .. Last /\ kick \in {"start", "read", "reply", "done"}
  /\ state \in [DOMAIN Boards -> {"silent", "mapped", "shut"}]
  /\ order \in Seq(DOMAIN Boards)

LEMMA BoardStep ==
  ASSUME ResetAssumption, ResetInv, [ResetNext]_resetVars
  PROVE  BoardTypes' /\ BoardsPassed'
<1>1. BoardTypes /\ BoardsPassed
  BY DEF ResetInv, ResetTypeOK, BoardTypes
<1>2. CASE UNCHANGED <<boardVars, kick>>
  BY <1>1, <1>2 DEF boardVars, BoardTypes, BoardsPassed
<1>3. CASE ResetBoards
  <2>1. /\ idx' = 1 /\ state' = Silent /\ order' = <<>> /\ kick' = "start"
        /\ 1 \in 1 .. Last /\ <<>> \in Seq(DOMAIN Boards) /\ \A i \in EnabledBoards : ~(i < 1)
    BY <1>3, BoardNumbers DEF ResetBoards, FirstBoard
  <2>2. BoardTypes'
    BY <2>1 DEF BoardTypes, Silent
  <2>3. BoardsPassed'
    BY <2>1 DEF BoardsPassed, Silent
  <2> QED
    BY <2>2, <2>3
<1>4. CASE StartConfig
  BY <1>1, <1>4 DEF StartConfig, boardVars, BoardTypes, BoardsPassed
<1>5. CASE ReadBoard
  <2>1. /\ idx' = FirstEnabled(idx) /\ UNCHANGED <<state, order>>
        /\ kick' = IF idx' = Last THEN "done" ELSE "reply"
        /\ idx \in 1 .. Last
    BY <1>1, <1>5 DEF ReadBoard, BoardTypes
  <2>2. /\ idx' \in idx .. Last /\ (idx' = Last \/ idx' \in EnabledBoards)
        /\ \A k \in EnabledBoards : idx <= k => idx' <= k
    BY <2>1, FirstEnabledIs
  <2>3. Last \in Nat /\ idx \in Nat /\ idx' \in Nat /\ idx <= idx' /\ idx' \in 1 .. Last
        /\ \A k \in EnabledBoards : k \in Nat
    BY <2>1, <2>2, BoardNumbers
  <2>4. BoardTypes'
    BY <1>1, <2>1, <2>3 DEF BoardTypes
  <2>5. ASSUME NEW n \in DOMAIN order' PROVE order'[n] < idx'
    <3>1. order[n] < idx /\ order[n] \in Nat
      BY <1>1, <2>1, <2>5, BoardNumbers DEF BoardsPassed, BoardTypes
    <3> QED
      BY <2>1, <2>3, <3>1
  <2>6. ASSUME NEW k \in EnabledBoards, k < idx' PROVE state'[k] # "silent"
    <3>1. k < idx
      BY <2>2, <2>3, <2>6
    <3> QED
      BY <1>1, <2>1, <3>1 DEF BoardsPassed
  <2> QED
    BY <1>1, <2>1, <2>2, <2>4, <2>5, <2>6 DEF BoardsPassed
<1>6. ASSUME NEW offset \in {"44", "48"}, Configure(offset)
      PROVE  BoardTypes' /\ BoardsPassed'
  <2>1. CASE offset = MapsAt(Boards[idx])
    <3>1. Passes("mapped") /\ kick = "reply" /\ kick' = "read"
      BY <1>6, <2>1 DEF Configure
    <3> QED
      BY <3>1, BoardPasses DEF BoardTypes
  <2>2. CASE offset # MapsAt(Boards[idx])
    BY <1>2, <1>6, <2>2 DEF Configure
  <2> QED
    BY <2>1, <2>2
<1>7. CASE ShutUp
  <2>1. Passes("shut") /\ kick = "reply" /\ kick' = "read"
    BY <1>7 DEF ShutUp
  <2> QED
    BY <2>1, BoardPasses DEF BoardTypes
<1>8. CASE \/ CallPulse \/ WaitFree \/ Drive \/ ReleaseReset \/ Settle \/ SamplePins \/ TestPins
           \/ Pull \/ LetGo \/ WriteOverlay \/ UNCHANGED resetVars
  BY <1>2, <1>8 DEF CallPulse, WaitFree, Drive, ReleaseReset, Settle, SamplePins, TestPins, Pull, LetGo,
    WriteOverlay, KeepsBoards, resetVars
<1> QED
  BY <1>3, <1>4, <1>5, <1>6, <1>7, <1>8 DEF ResetNext

LEMMA ResetTypeStep ==
  ASSUME ResetAssumption, ResetInv, [ResetNext]_resetVars
  PROVE  ResetTypeOK'
<1>1. ResetTypeOK
  BY DEF ResetInv
<1>2. /\ pulse' \in {"off", "wait", "drive", "hold", "boards", "settle"}
      /\ driven' \in BOOLEAN /\ ignore' \in BOOLEAN
  BY <1>1 DEF ResetTypeOK, ResetNext, CallPulse, WaitFree, Drive, ReleaseReset, ResetBoards, Settle, Pulse,
    Ignored, Released, SamplePins, TestPins, Pull, LetGo, WriteOverlay, StartConfig, ReadBoard, Configure,
    ShutUp, Program, pulseVars, resetVars
<1>3. /\ keeper' \in {"sample", "test", "restart"} /\ low' \in BOOLEAN /\ why' \in BOOLEAN
      /\ pulled' \in BOOLEAN
  BY <1>1 DEF ResetTypeOK, ResetNext, CallPulse, WaitFree, Drive, ReleaseReset, ResetBoards, Settle, Pulse,
    SamplePins, IsLow, TestPins, Pull, LetGo, WriteOverlay, StartConfig, ReadBoard, Configure,
    ShutUp, Program, keeperVars, keyboardVars, resetVars
<1>4. overlay' \in BOOLEAN /\ page0' \in {"bus", "rom", "ram"}
  BY <1>1 DEF ResetTypeOK, ResetNext, CallPulse, WaitFree, Drive, ReleaseReset, ResetBoards, Settle, Pulse,
    SamplePins, TestPins, Pull, LetGo, WriteOverlay, StartConfig, ReadBoard, Configure,
    ShutUp, Program, KeepsBoards, romVars, resetVars
<1>5. BoardTypes'
  BY BoardStep
<1> QED
  BY <1>2, <1>3, <1>4, <1>5 DEF ResetTypeOK, BoardTypes

LEMMA ResetAlways ==
  ASSUME ResetAssumption
  PROVE  ResetSpec => []ResetInv
<1>1. ResetInit => ResetInv
  BY ResetStarts
<1>2. ResetInv /\ [ResetNext]_resetVars => ResetInv'
  BY ResetTypeStep, PulseStep, BoardStep DEF ResetInv
<1> QED
  BY <1>1, <1>2, PTL DEF ResetSpec

(* The pulse, the housekeeper and the chain of boards keep to their types:   *)
(* board_idx never passes the end of the boards.                             *)
THEOREM ResetTypeCorrect ==
  ASSUME ResetAssumption
  PROVE  ResetSpec => []ResetTypeOK
<1>1. ResetInv => ResetTypeOK
  BY DEF ResetInv
<1> QED
  BY <1>1, ResetAlways, PTL

(* For any number of boards of either kind, enabled or not, and resets of    *)
(* the machine and the keyboard at any time: the Pi restarts only when the   *)
(* keyboard pulled the line, never for ps_pulse_reset; and since the last    *)
(* reset every enabled board was configured in its turn and once, no other   *)
(* answered, and none is left when the chain has ended.                      *)
THEOREM ResetsAlwaysHandled ==
  ASSUME ResetAssumption
  PROVE  ResetSpec => []ResetsAreHandled
<1>1. ASSUME ResetInv PROVE ResetsAreHandled
  <2>1. Len(Boards) \in Nat /\ Last = Len(Boards) + 1 /\ EnabledBoards \subseteq 1 .. Len(Boards)
    BY BoardNumbers
  <2>2. \A i \in EnabledBoards : i < Last
    BY <2>1
  <2> QED
    BY <1>1, <2>2 DEF ResetInv, PulseSeen, BoardsPassed, ResetsAreHandled, ChainInOrder
<1> QED
  BY <1>1, ResetAlways, PTL

=============================================================================
