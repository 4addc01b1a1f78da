---------------------- MODULE RenderTransactionProofs -----------------------
(***************************************************************************)
(* Proofs about RenderTransaction, for any number of channels, any size of *)
(* memory, pages and frames: its type, and that speculative frames with    *)
(* their rollbacks implement PaulaStream, a Paula whose memory is always   *)
(* there.                                                                  *)
(*                                                                         *)
(* Between two frames the two agree.  Within a frame the invariant says    *)
(* what the renderer has done to the core since it took its copy: every    *)
(* channel has played some number of source samples, exactly those that    *)
(* lie in memory, unless a byte was missed, and then it does not matter.   *)
(***************************************************************************)
EXTENDS RenderTransaction, WellFoundedInduction, TLAPS

\* Induction over a set of numbers.
LEMMA AllNumbers ==
  ASSUME NEW S, S \subseteq Nat, 0 \in S, \A n \in S : n + 1 \in S
  PROVE  S = Nat
<1> DEFINE T == Nat \ S
<1>1. SUFFICES ASSUME T # {} PROVE FALSE
  OBVIOUS
<1>2. PICK x \in T : \A y \in T : ~ (<<y, x>> \in OpToRel(<, Nat))
  BY <1>1, NatLessThanWellFounded, WFMin
<1>3. x # 0 /\ x - 1 \in Nat /\ x - 1 < x
  OBVIOUS
<1>4. <<x - 1, x>> \in OpToRel(<, Nat)
  BY <1>3 DEF OpToRel
<1>5. x - 1 \in S
  BY <1>2, <1>3, <1>4
<1> QED
  BY <1>3, <1>5

-----------------------------------------------------------------------------
(* What PaulaStream computes.  Its functions are recursive: they exist by  *)
(* induction, and then they are what their equations say.                  *)

\* The samples of a channel, up to the k-th.
IsPlayed(g, on, first, k) ==
  g = [n \in 0 .. k |-> IF n = 0 THEN first ELSE Stream!PlaysOne(on, g[n - 1])]

LEMMA PlayedExists ==
  ASSUME NEW on, NEW first
  PROVE  \A k \in Nat : \E g : IsPlayed(g, on, first, k)
<1> DEFINE S == {k \in Nat : \E g : IsPlayed(g, on, first, k)}
<1>1. 0 \in S
  <2>1. IsPlayed([n \in 0 .. 0 |-> first], on, first, 0)
    BY DEF IsPlayed
  <2> QED
    BY <2>1
<1>2. ASSUME NEW k \in S PROVE k + 1 \in S
  <2>1. PICK g : IsPlayed(g, on, first, k)
    OBVIOUS
  <2> DEFINE h == [n \in 0 .. k + 1 |-> IF n = 0 THEN first ELSE Stream!PlaysOne(on, g[n - 1])]
  <2>2. \A n \in 0 .. k : h[n] = g[n]
    BY <2>1 DEF IsPlayed
  <2>3. \A n \in 0 .. k + 1 : n # 0 => n - 1 \in 0 .. k
    OBVIOUS
  <2>4. IsPlayed(h, on, first, k + 1)
    BY <2>2, <2>3 DEF IsPlayed
  <2> HIDE DEF h
  <2> QED
    BY <2>4
<1>3. S = Nat
  <2> HIDE DEF S
  <2> QED
    BY <1>1, <1>2, AllNumbers DEF S
<1> QED
  BY <1>3

LEMMA PlayedDef ==
  ASSUME NEW on, NEW c
  PROVE  IsPlayed(Stream!Played(on, c), on, [chan |-> c, reloads |-> 0], MaxSteps)
<1> DEFINE first == [chan |-> c, reloads |-> 0]
<1>1. MaxSteps \in Nat
  BY RenderAssumption DEF RenderAssumption
<1> HIDE DEF first
<1>2. PICK g : IsPlayed(g, on, first, MaxSteps)
  BY <1>1, PlayedExists
<1> USE DEF first
<1> QED
  BY <1>2 DEF Stream!Played, IsPlayed

-----------------------------------------------------------------------------
(* The values of the core.  *)

LEMMA Constants ==
  /\ NumChans \in Nat /\ Limit \in Nat /\ Half \in Nat \ {0} /\ FullLen \in Nat \ {0}
  /\ MaxSteps \in Nat /\ Ramp \in Nat \ {0} /\ Wrap \in Nat \ {0} /\ SweepEvery \in Nat \ {0}
  /\ PageSize \in Nat \ {0} /\ MaxEvictions \in Nat
  /\ Highs \subseteq Nat /\ Lows \subseteq Nat /\ Lens \subseteq 0 .. FullLen - 1
BY CoreAssumption, RenderAssumption DEF CoreAssumption, RenderAssumption

LEMMA ByteTypes ==
  ASSUME NEW a \in Nat PROVE ByteAt(a) \in Bytes
BY Constants DEF ByteAt, Bytes

LEMMA ResetTypes == ResetChannel \in Channels /\ ResetCore \in Cores
<1>1. ResetChannel \in Channels
  BY Constants DEF ResetChannel, Channels, Bytes
<1> QED
  BY <1>1 DEF ResetCore, Cores

LEMMA BlockTypes ==
  ASSUME NEW c \in Channels PROVE Block(c) \in Channels
BY DEF Block, Channels

LEMMA AdvanceTypes ==
  ASSUME NEW c \in Channels, NEW low \in Bytes, NEW high \in Bytes
  PROVE  Advance(c, low, high) \in Channels
<1>1. Block(c) \in Channels
  BY BlockTypes
<1>2. CASE c.boundary
  <2> DEFINE b == Block(c)
  <2>1. /\ b.ptr + 2 \in Nat
        /\ Counted(b.words) \in 0 .. FullLen
        /\ c.next \in Bytes
    BY <1>1, Constants DEF Channels, Counted
  <2>2. b \in Channels
    BY <1>1
  <2> HIDE DEF b
  <2>3. [b EXCEPT !.ptr = @ + 2, !.words = Counted(@), !.cur = c.next, !.next = low, !.held = high,
                  !.boundary = FALSE] \in Channels
    BY <2>1, <2>2 DEF Channels
  <2> QED
    BY <1>2, <2>3 DEF Advance, b
<1>3. CASE ~ c.boundary
  BY <1>3 DEF Advance, Channels
<1> QED
  BY <1>2, <1>3

LEMMA SilencedTypes ==
  ASSUME NEW c \in Channels PROVE Silenced(c) \in Channels
<1>1. 0 \in Bytes
  BY Constants DEF Bytes
<1> QED
  BY <1>1 DEF Silenced, Channels

LEMMA PrimedTypes ==
  ASSUME NEW c \in Channels PROVE Primed(c) \in Channels
<1>1. 0 \in Bytes
  BY Constants DEF Bytes
<1> QED
  BY <1>1 DEF Primed, Channels

LEMMA RestartTypes ==
  ASSUME NEW c \in Channels PROVE [c EXCEPT !.restart = TRUE] \in Channels
BY DEF Channels

LEMMA LocTypes ==
  ASSUME NEW c \in Channels, NEW loc \in Nat
  PROVE  [c EXCEPT !.loc = loc] \in Channels
BY DEF Channels

LEMMA LenTypes ==
  ASSUME NEW c \in Channels, NEW len \in 0 .. FullLen
  PROVE  [c EXCEPT !.len = len] \in Channels
BY DEF Channels

\* A channel replaced, or all of them.
LEMMA ChannelReplaced ==
  ASSUME NEW k \in Cores, NEW ch \in Chans, NEW c \in Channels
  PROVE  /\ [k EXCEPT !.chan[ch] = c] \in Cores
         /\ [k EXCEPT !.chan[ch] = c] = [k EXCEPT !.chan = [k.chan EXCEPT ![ch] = c]]
BY DEF Cores

LEMMA ChannelsReplaced ==
  ASSUME NEW k \in Cores, NEW f \in [Chans -> Channels]
  PROVE  [k EXCEPT !.chan = f] \in Cores
BY DEF Cores

LEMMA WriteDmaTypes ==
  ASSUME NEW k \in Cores, NEW set \in BOOLEAN, NEW bits \in SUBSET DmaBits
  PROVE  WriteDma(k, set, bits) \in Cores
<1> DEFINE new == [k EXCEPT !.dma = IF set THEN @ \cup bits ELSE @ \ bits]
           Switched(ch) == LET c == k.chan[ch] IN
                       IF ~On(new, ch) THEN [c EXCEPT !.restart = TRUE]
                       ELSE IF c.restart THEN Primed(c) ELSE c
<1>1. new \in Cores
  BY DEF Cores
<1>2. \A ch \in Chans : k.chan[ch] \in Channels
  BY DEF Cores
<1>3. \A ch \in Chans : Switched(ch) \in Channels
  BY <1>2, PrimedTypes, RestartTypes
<1>4. WriteDma(k, set, bits) = [new EXCEPT !.chan = [ch \in Chans |-> Switched(ch)]]
  BY DEF WriteDma
<1> HIDE DEF new, Switched
<1> QED
  BY <1>1, <1>3, <1>4, ChannelsReplaced

LEMMA RegisterTypes ==
  ASSUME NEW k \in Cores, NEW ch \in Chans
  PROVE  /\ \A h \in Highs : WriteHigh(k, ch, h) \in Cores
         /\ \A l \in Lows : WriteLow(k, ch, l) \in Cores
         /\ \A n \in Lens : WriteLen(k, ch, n) \in Cores
<1> DEFINE c == k.chan[ch]
<1>1. c \in Channels /\ c.loc \in Nat
  BY DEF Cores, Channels
<1>2. ASSUME NEW h \in Highs PROVE WriteHigh(k, ch, h) \in Cores
  <2> DEFINE loc == h * Half + (c.loc % Half)
  <2>1. h \in Nat /\ h * Half \in Nat /\ c.loc % Half \in Nat
    BY <1>1, Constants
  <2>2. [c EXCEPT !.loc = loc] \in Channels
    <3>1. loc \in Nat
      BY <2>1
    <3> HIDE DEF loc, c
    <3> QED
      BY <1>1, <3>1, LocTypes
  <2>3. WriteHigh(k, ch, h) = [k EXCEPT !.chan[ch] = [c EXCEPT !.loc = loc]]
    BY DEF WriteHigh, Cores
  <2> QED
    BY <2>2, <2>3, ChannelReplaced
<1>3. ASSUME NEW l \in Lows PROVE WriteLow(k, ch, l) \in Cores
  <2> DEFINE loc == (c.loc \div Half) * Half + l
  <2>1. l \in Nat /\ c.loc \div Half \in Nat
    BY <1>1, Constants
  <2>2. (c.loc \div Half) * Half \in Nat
    BY <2>1, Constants
  <2>3. [c EXCEPT !.loc = loc] \in Channels
    <3>1. loc \in Nat
      BY <2>1, <2>2
    <3> HIDE DEF loc, c
    <3> QED
      BY <1>1, <3>1, LocTypes
  <2>4. WriteLow(k, ch, l) = [k EXCEPT !.chan[ch] = [c EXCEPT !.loc = loc]]
    BY DEF WriteLow, Cores
  <2> QED
    BY <2>3, <2>4, ChannelReplaced
<1>4. ASSUME NEW n \in Lens PROVE WriteLen(k, ch, n) \in Cores
  <2> DEFINE len == IF n = 0 THEN FullLen ELSE n
  <2>1. len \in 0 .. FullLen
    BY Constants
  <2>2. [c EXCEPT !.len = len] \in Channels
    BY <1>1, <2>1, LenTypes
  <2>3. WriteLen(k, ch, n) = [k EXCEPT !.chan[ch] = [c EXCEPT !.len = len]]
    BY DEF WriteLen, Cores
  <2> QED
    BY <2>2, <2>3, ChannelReplaced
<1> QED
  BY <1>2, <1>3, <1>4

LEMMA RestoreTypes ==
  ASSUME NEW regs \in [Chans -> Registers], NEW dma \in SUBSET DmaBits
  PROVE  /\ WithRegisters(ResetCore, regs) \in Cores
         /\ DmaLast(regs, dma) \in Cores
<1>1. ASSUME NEW ch \in Chans
      PROVE  [ResetChannel EXCEPT !.loc = regs[ch].loc, !.len = regs[ch].len] \in Channels
  <2>1. regs[ch] \in Registers
    OBVIOUS
  <2>2. PICK h \in Highs \cup {0}, l \in Lows \cup {0} : regs[ch].loc = h * Half + l
    BY <2>1 DEF Registers
  <2>3. regs[ch].loc \in Nat
    <3>1. h \in Nat /\ l \in Nat
      BY Constants
    <3>2. h * Half \in Nat
      BY <3>1, Constants
    <3> QED
      BY <2>2, <3>1, <3>2
  <2>4. regs[ch].len \in 0 .. FullLen
    BY <2>1, Constants DEF Registers
  <2>5. ResetChannel \in Channels
    BY ResetTypes
  <2> QED
    BY <2>3, <2>4, <2>5 DEF Channels
<1>2. WithRegisters(ResetCore, regs) =
        [ResetCore EXCEPT !.chan =
           [ch \in Chans |-> [ResetChannel EXCEPT !.loc = regs[ch].loc, !.len = regs[ch].len]]]
  BY DEF WithRegisters, ResetCore
<1>3. WithRegisters(ResetCore, regs) \in Cores
  BY <1>1, <1>2, ResetTypes, ChannelsReplaced
<1> QED
  BY <1>3, WriteDmaTypes DEF DmaLast

LEMMA RequestedTypes ==
  ASSUME page \in [Pages -> {"missing", "queued", "ready"}], NEW pages
  PROVE  Requested(pages) \in [Pages -> {"missing", "queued", "ready"}]
BY DEF Requested

\* The word at the pointer of a channel, when it is fetched.
LEMMA FetchTypes ==
  ASSUME NEW c \in Channels
  PROVE  Block(c).ptr \in Nat /\ ByteAt(Block(c).ptr) \in Bytes /\ ByteAt(Block(c).ptr + 1) \in Bytes
<1>1. Block(c).ptr \in Nat
  BY BlockTypes DEF Channels
<1>2. Block(c).ptr + 1 \in Nat
  BY <1>1
<1> QED
  BY <1>1, <1>2, ByteTypes

LEMMA WriteStep ==
  ASSUME TypeOK, NEW after \in Cores, NEW warmed, Write(after, warmed)
  PROVE  TypeOK'
<1>1. page' \in [Pages -> {"missing", "queued", "ready"}]
  BY RequestedTypes DEF Write, TypeOK
<1> QED
  BY <1>1 DEF Write, TypeOK, frameVars, outputVars

LEMMA AdvanceStep ==
  ASSUME TypeOK, AdvanceWithin \/ AdvanceFetch
  PROVE  TypeOK'
<1> DEFINE c == core.chan[turn]
<1> USE DEF TypeOK
<1>1. turn \in Chans /\ steps + 1 \in 0 .. MaxSteps /\ pendingIrqs + 1 \in Nat
  <2>1. turn < NumChans /\ steps < MaxSteps
    BY DEF AdvanceWithin, AdvanceFetch
  <2>2. turn \in 0 .. NumChans /\ steps \in 0 .. MaxSteps /\ pendingIrqs \in Nat
    OBVIOUS
  <2> QED
    BY <2>1, <2>2, Constants DEF Chans
<1>2. c \in Channels /\ 0 \in Bytes
  BY <1>1, Constants DEF Cores, Bytes
<1>3. CASE AdvanceWithin
  <2> DEFINE d == IF On(core, turn) THEN Advance(c, 0, 0) ELSE Silenced(c)
  <2>1. d \in Channels
    BY <1>2, AdvanceTypes, SilencedTypes
  <2>2. core' = [core EXCEPT !.chan[turn] = d]
    BY <1>3 DEF AdvanceWithin
  <2> HIDE DEF c, d
  <2>3. core' \in Cores
    BY <1>1, <2>1, <2>2, ChannelReplaced
  <2> QED
    BY <1>1, <1>3, <2>3 DEF AdvanceWithin, outputVars
<1>4. CASE AdvanceFetch
  <2>1. /\ \E low \in Bytes, high \in Bytes : core' = [core EXCEPT !.chan[turn] = Advance(c, low, high)]
        /\ \E pages : page' = Requested(pages)
        /\ missed' \in BOOLEAN
    <3> DEFINE address == Block(c).ptr
               needed == address \div PageSize
               hit == address >= Limit \/ page[needed] = "ready"
               Byte(a) == IF hit THEN ByteAt(a) ELSE 0
               pages == IF hit THEN WarmedBy(address) ELSE {needed}
    <3>1. Byte(address) \in Bytes /\ Byte(address + 1) \in Bytes
      BY <1>2, FetchTypes
    <3>2. /\ core' = [core EXCEPT !.chan[turn] = Advance(c, Byte(address), Byte(address + 1))]
          /\ page' = Requested(pages)
          /\ missed' = AnyRead(hit)
      BY <1>4 DEF AdvanceFetch
    <3>3. missed' \in BOOLEAN
      BY <3>2 DEF AnyRead
    <3> HIDE DEF pages, Byte, hit, address, c
    <3> QED
      BY <3>1, <3>2, <3>3
  <2>2. PICK low \in Bytes, high \in Bytes : core' = [core EXCEPT !.chan[turn] = Advance(c, low, high)]
    BY <2>1
  <2>3. core' \in Cores
    <3>1. Advance(c, low, high) \in Channels
      BY <1>2, AdvanceTypes
    <3> HIDE DEF c
    <3> QED
      BY <1>1, <2>2, <3>1, ChannelReplaced
  <2>4. page' \in [Pages -> {"missing", "queued", "ready"}]
    BY <2>1, RequestedTypes
  <2>5. pendingIrqs' \in Nat /\ steps' \in 0 .. MaxSteps
    BY <1>1, <1>4 DEF AdvanceFetch
  <2> QED
    BY <1>4, <2>1, <2>3, <2>4, <2>5 DEF AdvanceFetch, outputVars
<1> QED
  BY <1>3, <1>4

LEMMA OutputTypes ==
  ASSUME TypeOK, Commit \/ Rollback
  PROVE  TypeOK'
<1> USE DEF TypeOK
<1>1. saved' \in Cores /\ missed' \in BOOLEAN /\ pendingIrqs' \in Nat /\ turn' \in 0 .. NumChans
  <2>1. FrameOver
    BY DEF Commit, Rollback
  <2>2. saved' = ResetCore /\ missed' = FALSE /\ pendingIrqs' = 0 /\ turn' = 0
    BY <2>1 DEF FrameOver, NotMissed
  <2>3. missed' \in BOOLEAN
    BY <2>2
  <2>4. pendingIrqs' \in Nat /\ turn' \in 0 .. NumChans
    BY <2>2, Constants
  <2> QED
    BY <2>2, <2>3, <2>4, ResetTypes
<1>2. CASE Commit
  <2>1. gain' \in 0 .. Ramp
    BY <1>2, Constants DEF Commit, Toward
  <2>2. gate' \in 0 .. Ramp
    BY <1>2, Constants DEF Commit, Least
  <2>3. irqs' \in 0 .. Wrap - 1
    <3>1. irqs + pendingIrqs \in Nat
      OBVIOUS
    <3> QED
      BY <1>2, <3>1, Constants DEF Commit
  <2>4. out' \in [samples : [Chans -> Bytes], gain : 0 .. Ramp]
    <3>1. \A ch \in Chans : core.chan[ch].cur \in Bytes
      BY DEF Cores, Channels
    <3> QED
      BY <1>2, <2>1, <3>1 DEF Commit
  <2> QED
    BY <1>1, <1>2, <2>1, <2>2, <2>3, <2>4 DEF Commit, FrameOver
<1>3. CASE Rollback
  <2>1. countdown' \in 0 .. SweepEvery - 1 /\ gate' \in 0 .. Ramp
    BY <1>3, Constants DEF Rollback
  <2> QED
    BY <1>1, <1>3, <2>1 DEF Rollback, FrameOver, Undone
<1> QED
  BY <1>2, <1>3

LEMMA TypeStep ==
  ASSUME TypeOK, [Next]_vars
  PROVE  TypeOK'
<1>1. ASSUME NEW ch \in Chans, WriteChannel(ch)
      PROVE  TypeOK'
  <2>1. CASE \E h \in Highs : Write(WriteHigh(core, ch, h), {})
    BY <2>1, RegisterTypes, WriteStep DEF TypeOK
  <2>2. CASE \E l \in Lows : Write(WriteLow(core, ch, l),
                                   IF core.chan[ch].len \in {0, FullLen} THEN {} ELSE {ch})
    BY <2>2, RegisterTypes, WriteStep DEF TypeOK
  <2>3. CASE \E n \in Lens : Write(WriteLen(core, ch, n), {ch})
    BY <2>3, RegisterTypes, WriteStep DEF TypeOK
  <2> QED
    BY <1>1, <2>1, <2>2, <2>3 DEF WriteChannel
<1>2. ASSUME NEW set \in BOOLEAN, NEW bits \in SUBSET DmaBits, WriteControl(set, bits)
      PROVE  TypeOK'
  <2>1. WriteDma(core, set, bits) \in Cores
    BY WriteDmaTypes DEF TypeOK
  <2> QED
    BY <1>2, <2>1, WriteStep DEF WriteControl
<1>3. ASSUME NEW regs \in [Chans -> Registers], NEW dma \in SUBSET DmaBits, Restore(regs, dma)
      PROVE  TypeOK'
  <2>1. core' \in Cores
    BY <1>3, RestoreTypes DEF Restore
  <2>2. page' \in [Pages -> {"missing", "queued", "ready"}]
    BY <1>3, RequestedTypes DEF Restore, TypeOK
  <2>3. out' \in [samples : [Chans -> Bytes], gain : 0 .. Ramp]
    BY <1>3, Constants DEF Restore, Silent, Bytes
  <2> QED
    <3>1. gate' \in 0 .. Ramp /\ countdown' \in 0 .. SweepEvery - 1
      BY <1>3, Constants DEF Restore
    <3>2. waiting' \in BOOLEAN
      BY <1>3 DEF Restore
    <3>3. UNCHANGED <<frameVars, irqs, gain, target, evictions>>
      BY <1>3 DEF Restore
    <3> QED
      BY <2>1, <2>2, <2>3, <3>1, <3>2, <3>3 DEF TypeOK, frameVars
<1>4. CASE ApplyMixer
  BY <1>4 DEF ApplyMixer, TypeOK, frameVars, outputVars
<1>5. CASE BeginFrame
  <2>1. page' \in [Pages -> {"missing", "queued", "ready"}]
    BY <1>5, RequestedTypes DEF BeginFrame, TypeOK
  <2>2. countdown' \in 0 .. SweepEvery - 1
    BY <1>5, Constants DEF BeginFrame, TypeOK
  <2> QED
    BY <1>5, <2>1, <2>2 DEF BeginFrame, TypeOK, NotMissed, outputVars
<1>6. CASE AdvanceWithin \/ AdvanceFetch
  BY <1>6, AdvanceStep
<1>7. CASE NextChannel
  BY <1>7, Constants DEF NextChannel, TypeOK, outputVars
<1>8. CASE Commit \/ Rollback
  BY <1>8, OutputTypes
<1>9. ASSUME NEW p \in Pages, Fill(p) \/ Evict(p)
      PROVE  TypeOK'
  <2>1. page' \in [Pages -> {"missing", "queued", "ready"}]
    BY <1>9 DEF Fill, Evict, TypeOK
  <2>2. evictions' \in 0 .. MaxEvictions
    BY <1>9, Constants DEF Fill, Evict, TypeOK
  <2> QED
    BY <1>9, <2>1, <2>2 DEF Fill, Evict, TypeOK, frameVars, outputVars
<1>10. CASE UNCHANGED vars
  BY <1>10 DEF vars, TypeOK, frameVars, outputVars
<1> QED
  BY <1>1, <1>2, <1>3, <1>4, <1>5, <1>6, <1>7, <1>8, <1>9, <1>10 DEF Next, FrameStep

LEMMA InitTypes == Init => TypeOK
<1> SUFFICES ASSUME Init PROVE TypeOK
  OBVIOUS
<1>1. core \in Cores /\ saved \in Cores
  BY ResetTypes DEF Init
<1>2. out \in [samples : [Chans -> Bytes], gain : 0 .. Ramp]
  BY Constants DEF Init, Silent, Bytes
<1>3. gain \in 0 .. Ramp /\ target \in 0 .. Ramp /\ gate \in 0 .. Ramp /\ irqs \in 0 .. Wrap - 1
  BY Constants DEF Init
<1>4. turn \in 0 .. NumChans /\ steps \in 0 .. MaxSteps /\ countdown \in 0 .. SweepEvery - 1
      /\ evictions \in 0 .. MaxEvictions
  BY Constants DEF Init
<1>5. page \in [Pages -> {"missing", "queued", "ready"}]
  BY DEF Init
<1> QED
  BY <1>1, <1>2, <1>3, <1>4, <1>5 DEF Init, TypeOK

(* Whatever the program writes and however the cache behaves, the variables  *)
(* keep to their types; in particular the count of words left in a block     *)
(* (paula.cpp) never goes below zero.                                        *)
THEOREM TypeCorrect == Spec => []TypeOK
BY InitTypes, TypeStep, PTL DEF Spec

-----------------------------------------------------------------------------
(* What a channel has played, and what all of them count.                  *)

\* The operators of the core are the same in both specifications.
LEMMA SameCore ==
  /\ Stream!Chans = Chans /\ Stream!ResetChannel = ResetChannel /\ Stream!Silent = Silent
  /\ \A k, ch : Stream!On(k, ch) <=> On(k, ch)
  /\ \A c : Stream!Primed(c) = Primed(c)
BY DEF Stream!Chans, Chans, Stream!ResetChannel, ResetChannel, Stream!Silent, Silent,
       Stream!On, On, Stream!Master, Master, Stream!Primed, Primed

LEMMA PlayedSteps ==
  ASSUME NEW on, NEW c
  PROVE  /\ Stream!Played(on, c)[0] = [chan |-> c, reloads |-> 0]
         /\ \A n \in 0 .. MaxSteps : n < MaxSteps =>
              Stream!Played(on, c)[n + 1] = Stream!PlaysOne(on, Stream!Played(on, c)[n])
<1> DEFINE p == Stream!Played(on, c)
           first == [chan |-> c, reloads |-> 0]
<1>1. IsPlayed(p, on, first, MaxSteps)
  BY PlayedDef
<1> HIDE DEF p, first
<1>2. p[0] = first
  BY <1>1, Constants DEF IsPlayed
<1>3. ASSUME NEW n \in 0 .. MaxSteps, n < MaxSteps
      PROVE  p[n + 1] = Stream!PlaysOne(on, p[n])
  <2>1. n + 1 \in 0 .. MaxSteps /\ n + 1 # 0 /\ (n + 1) - 1 = n
    BY <1>3, Constants
  <2> QED
    BY <1>1, <2>1 DEF IsPlayed
<1> QED
  BY <1>2, <1>3 DEF p, first

LEMMA PlaysOneIs ==
  ASSUME NEW on, NEW p
  PROVE  Stream!PlaysOne(on, p) =
           LET address == Block(p.chan).ptr IN
           IF on
           THEN [chan |-> Advance(p.chan, ByteAt(address), ByteAt(address + 1)),
                 reloads |-> p.reloads + (IF Reloads(p.chan) THEN 1 ELSE 0)]
           ELSE [chan |-> Silenced(p.chan), reloads |-> p.reloads]
BY DEF Stream!PlaysOne, Stream!Block, Block, Stream!Reloads, Reloads, Stream!Advance, Advance,
       Stream!Counted, Counted, Stream!ByteAt, ByteAt, Stream!Silenced, Silenced

LEMMA PlayedTypes ==
  ASSUME NEW on, NEW c \in Channels
  PROVE  \A n \in 0 .. MaxSteps : Stream!Played(on, c)[n] \in [chan : Channels, reloads : Nat]
<1> DEFINE p == Stream!Played(on, c)
           S == {n \in Nat : n <= MaxSteps => p[n] \in [chan : Channels, reloads : Nat]}
<1>1. 0 \in S
  <2>1. p[0] = [chan |-> c, reloads |-> 0]
    BY PlayedSteps
  <2> HIDE DEF p
  <2>2. p[0] \in [chan : Channels, reloads : Nat]
    BY <2>1
  <2> QED
    BY <2>2
<1>2. ASSUME NEW n \in S PROVE n + 1 \in S
  <2> SUFFICES ASSUME n + 1 <= MaxSteps
               PROVE  p[n + 1] \in [chan : Channels, reloads : Nat]
    OBVIOUS
  <2>1. n \in 0 .. MaxSteps /\ n < MaxSteps
    BY Constants
  <2>2. p[n + 1] = Stream!PlaysOne(on, p[n])
    BY <2>1, PlayedSteps
  <2>3. p[n].chan \in Channels /\ p[n].reloads \in Nat
    BY <2>1
  <2> HIDE DEF p
  <2>4. /\ Advance(p[n].chan, ByteAt(Block(p[n].chan).ptr), ByteAt(Block(p[n].chan).ptr + 1)) \in Channels
        /\ Silenced(p[n].chan) \in Channels
    BY <2>3, FetchTypes, AdvanceTypes, SilencedTypes
  <2> QED
    BY <2>2, <2>3, <2>4, PlaysOneIs
<1>3. S = Nat
  <2> HIDE DEF S
  <2> QED
    BY <1>1, <1>2, AllNumbers DEF S
<1> QED
  BY <1>3, Constants

\* The sums, by the same induction.
IsSums(g, counts, k) ==
  g = [n \in 0 .. k |-> IF n = 0 THEN 0 ELSE g[n - 1] + counts[n - 1]]

LEMMA SumsExist ==
  ASSUME NEW counts
  PROVE  \A k \in Nat : \E g : IsSums(g, counts, k)
<1> DEFINE S == {k \in Nat : \E g : IsSums(g, counts, k)}
<1>1. 0 \in S
  <2>1. IsSums([n \in 0 .. 0 |-> 0], counts, 0)
    BY DEF IsSums
  <2> QED
    BY <2>1
<1>2. ASSUME NEW k \in S PROVE k + 1 \in S
  <2>1. PICK g : IsSums(g, counts, k)
    OBVIOUS
  <2> DEFINE h == [n \in 0 .. k + 1 |-> IF n = 0 THEN 0 ELSE g[n - 1] + counts[n - 1]]
  <2>2. \A n \in 0 .. k : h[n] = g[n]
    BY <2>1 DEF IsSums
  <2>3. \A n \in 0 .. k + 1 : n # 0 => n - 1 \in 0 .. k
    OBVIOUS
  <2>4. IsSums(h, counts, k + 1)
    BY <2>2, <2>3 DEF IsSums
  <2> HIDE DEF h
  <2> QED
    BY <2>4
<1>3. S = Nat
  <2> HIDE DEF S
  <2> QED
    BY <1>1, <1>2, AllNumbers DEF S
<1> QED
  BY <1>3

LEMMA SumsSteps ==
  ASSUME NEW counts
  PROVE  /\ Stream!Sums(counts)[0] = 0
         /\ \A n \in Chans : Stream!Sums(counts)[n + 1] = Stream!Sums(counts)[n] + counts[n]
<1> DEFINE s == Stream!Sums(counts)
<1>1. PICK g : IsSums(g, counts, NumChans)
  BY SumsExist, Constants
<1>2. IsSums(s, counts, NumChans)
  BY <1>1 DEF Stream!Sums, IsSums
<1> HIDE DEF s
<1>3. s[0] = 0
  BY <1>2, Constants DEF IsSums
<1>4. ASSUME NEW n \in Chans PROVE s[n + 1] = s[n] + counts[n]
  <2>1. n + 1 \in 0 .. NumChans /\ n + 1 # 0 /\ (n + 1) - 1 = n
    BY Constants DEF Chans
  <2> QED
    BY <1>2, <2>1 DEF IsSums
<1> QED
  BY <1>3, <1>4 DEF s

LEMMA SumOfNone ==
  Stream!Sums([ch \in Chans |-> 0])[NumChans] = 0
<1> DEFINE s == Stream!Sums([ch \in Chans |-> 0])
           S == {n \in Nat : n <= NumChans => s[n] = 0}
<1>1. 0 \in S
  BY SumsSteps
<1>2. ASSUME NEW n \in S PROVE n + 1 \in S
  <2> SUFFICES ASSUME n + 1 <= NumChans PROVE s[n + 1] = 0
    OBVIOUS
  <2>1. n \in Chans /\ s[n] = 0
    BY Constants DEF Chans
  <2>2. s[n + 1] = s[n] + [ch \in Chans |-> 0][n]
    BY <2>1, SumsSteps
  <2> HIDE DEF s
  <2> QED
    BY <2>1, <2>2
<1>3. S = Nat
  <2> HIDE DEF S
  <2> QED
    BY <1>1, <1>2, AllNumbers DEF S
<1> QED
  BY <1>3, Constants

\* One more reload of one channel is one more of all.
LEMMA SumOfOneMore ==
  ASSUME NEW counts \in [Chans -> Nat], NEW ch \in Chans, NEW d \in Nat
  PROVE  Stream!Sums([counts EXCEPT ![ch] = @ + d])[NumChans] = Stream!Sums(counts)[NumChans] + d
<1> DEFINE more == [counts EXCEPT ![ch] = @ + d]
           s == Stream!Sums(counts)
           t == Stream!Sums(more)
           S == {n \in Nat : n <= NumChans =>
                   s[n] \in Nat /\ t[n] = s[n] + (IF ch < n THEN d ELSE 0)}
<1>1. ch \in Nat /\ ch < NumChans
  BY Constants DEF Chans
<1>2. 0 \in S
  <2>1. s[0] = 0 /\ t[0] = 0
    BY SumsSteps
  <2> HIDE DEF s, t
  <2> QED
    BY <1>1, <2>1
<1>3. ASSUME NEW n \in S PROVE n + 1 \in S
  <2> SUFFICES ASSUME n + 1 <= NumChans
               PROVE  s[n + 1] \in Nat /\ t[n + 1] = s[n + 1] + (IF ch < n + 1 THEN d ELSE 0)
    OBVIOUS
  <2>1. n \in Chans /\ s[n] \in Nat /\ t[n] = s[n] + (IF ch < n THEN d ELSE 0)
    BY Constants DEF Chans
  <2>2. s[n + 1] = s[n] + counts[n] /\ t[n + 1] = t[n] + more[n]
    BY <2>1, SumsSteps
  <2>3. counts[n] \in Nat /\ more[n] = counts[n] + (IF n = ch THEN d ELSE 0)
    BY <2>1
  <2> HIDE DEF s, t, more
  <2> QED
    BY <1>1, <2>1, <2>2, <2>3
<1>4. S = Nat
  <2> HIDE DEF S
  <2> QED
    BY <1>2, <1>3, AllNumbers DEF S
<1> HIDE DEF s, t
<1>5. NumChans \in S
  BY <1>4, Constants
<1> QED
  BY <1>1, <1>5 DEF s, t

-----------------------------------------------------------------------------
(* A frame in progress.                                                    *)

\* A channel after n source samples of this frame.
PlayedOf(ch, n) == Stream!Played(Stream!On(saved, ch), saved.chan[ch])[n]

\* The core has played count[ch] source samples of every channel since saved.
Rendered(count) ==
  /\ count \in [Chans -> 0 .. MaxSteps]
  /\ \A ch \in Chans : ch > turn => count[ch] = 0
  /\ turn \in Chans => count[turn] = steps
  /\ core = [saved EXCEPT !.chan = [ch \in Chans |-> PlayedOf(ch, count[ch]).chan]]
  /\ pendingIrqs = Stream!Sums([ch \in Chans |-> PlayedOf(ch, count[ch]).reloads])[NumChans]

FrameInv ==
  /\ pc = "idle" => turn = 0 /\ pendingIrqs = 0
  /\ pc = "idle" \/ turn = NumChans => steps = 0
  /\ pc = "render" /\ ~missed => \E count : Rendered(count)

LEMMA BeginRenders ==
  ASSUME TypeOK, FrameInv, BeginFrame
  PROVE  FrameInv'
<1> DEFINE count == [ch \in Chans |-> 0]
<1>1. pc = "idle" /\ pc' = "render" /\ saved' = core /\ core' = core /\ missed' = FALSE
      /\ turn' = 0 /\ steps' = 0 /\ pendingIrqs' = 0
  BY DEF BeginFrame, FrameInv, NotMissed
<1>2. \A ch \in Chans : PlayedOf(ch, 0)' = [chan |-> core.chan[ch], reloads |-> 0]
  BY <1>1, PlayedSteps DEF PlayedOf
<1>3. count \in [Chans -> 0 .. MaxSteps] /\ \A ch \in Chans : count[ch] = 0
  BY Constants
<1>4. core = [core EXCEPT !.chan = [ch \in Chans |-> core.chan[ch]]]
  BY DEF TypeOK, Cores
<1>5. [ch \in Chans |-> PlayedOf(ch, count[ch])'.chan] = [ch \in Chans |-> core.chan[ch]]
      /\ [ch \in Chans |-> PlayedOf(ch, count[ch])'.reloads] = [ch \in Chans |-> 0]
  BY <1>2, <1>3
<1> HIDE DEF count
<1>6. Rendered(count)'
  BY <1>1, <1>3, <1>4, <1>5, SumOfNone DEF Rendered
<1> QED
  BY <1>1, <1>6 DEF FrameInv

\* One more source sample of the channel whose turn it is.
LEMMA OneMoreSample ==
  ASSUME TypeOK, pc = "render", turn \in Chans, steps < MaxSteps,
         NEW count, Rendered(count),
         NEW d, d = Stream!PlaysOne(On(saved, turn), PlayedOf(turn, steps)),
         core' = [core EXCEPT !.chan[turn] = d.chan],
         pendingIrqs' = pendingIrqs + (d.reloads - PlayedOf(turn, steps).reloads),
         steps' = steps + 1, UNCHANGED <<turn, saved>>
  PROVE  \E new : Rendered(new)'
<1> PICK new : new = [count EXCEPT ![turn] = steps + 1]
  OBVIOUS
<1> DEFINE p == PlayedOf(turn, steps)
           reloads == [ch \in Chans |-> PlayedOf(ch, count[ch]).reloads]
<1>1. steps \in 0 .. MaxSteps /\ steps + 1 \in 0 .. MaxSteps
  BY Constants DEF TypeOK
<1>2. new \in [Chans -> 0 .. MaxSteps] /\ new[turn] = steps + 1 /\ count[turn] = steps
      /\ \A ch \in Chans : ch # turn => new[ch] = count[ch]
  BY <1>1 DEF Rendered
<1>3. PlayedOf(turn, steps + 1) = d
  BY <1>1, PlayedSteps, SameCore DEF PlayedOf
<1>4. \A ch \in Chans : PlayedOf(ch, count[ch]) \in [chan : Channels, reloads : Nat]
  <2> TAKE ch \in Chans
  <2>1. saved.chan[ch] \in Channels /\ count[ch] \in 0 .. MaxSteps
    BY DEF TypeOK, Cores, Rendered
  <2> QED
    BY <2>1, PlayedTypes DEF PlayedOf
<1>5. \A ch \in Chans : PlayedOf(ch, new[ch])' = IF ch = turn THEN d ELSE PlayedOf(ch, count[ch])
  BY <1>2, <1>3 DEF PlayedOf
<1>6. core' = [saved EXCEPT !.chan = [ch \in Chans |-> PlayedOf(ch, new[ch])'.chan]]
  <2> DEFINE f == [ch \in Chans |-> PlayedOf(ch, count[ch]).chan]
             g == [ch \in Chans |-> PlayedOf(ch, new[ch])'.chan]
  <2>1. core = [saved EXCEPT !.chan = f] /\ saved \in Cores
    BY DEF Rendered, TypeOK
  <2>2. g = [f EXCEPT ![turn] = d.chan]
    <3>1. \A ch \in Chans : PlayedOf(ch, new[ch])'.chan = IF ch = turn THEN d.chan ELSE f[ch]
      BY <1>5
    <3> HIDE DEF f
    <3>2. f \in [Chans -> {f[ch] : ch \in Chans}]
      BY DEF f
    <3> QED
      BY <3>1, <3>2
  <2> HIDE DEF f, g
  <2>3. core' = [saved EXCEPT !.chan = [f EXCEPT ![turn] = d.chan]]
    BY <2>1 DEF Cores
  <2> QED
    BY <2>2, <2>3 DEF g
<1>10. d.reloads = p.reloads \/ d.reloads = p.reloads + 1
  <2> HIDE DEF p
  <2> DEFINE address == Block(p.chan).ptr
             low == ByteAt(address)
             high == ByteAt(address + 1)
  <2>1. d = Stream!PlaysOne(On(saved, turn), p)
    BY DEF p
  <2>2. d = IF On(saved, turn)
            THEN [chan |-> Advance(p.chan, low, high),
                  reloads |-> p.reloads + (IF Reloads(p.chan) THEN 1 ELSE 0)]
            ELSE [chan |-> Silenced(p.chan), reloads |-> p.reloads]
    BY <2>1, PlaysOneIs
  <2> HIDE DEF low, high
  <2>3. d.reloads = IF On(saved, turn) THEN p.reloads + (IF Reloads(p.chan) THEN 1 ELSE 0) ELSE p.reloads
    BY <2>2
  <2>4. p.reloads + 0 = p.reloads
    <3>1. p \in [chan : Channels, reloads : Nat]
      BY <1>2, <1>4 DEF p
    <3> QED
      BY <3>1
  <2> QED
    BY <2>3, <2>4
<1>7. pendingIrqs' = Stream!Sums([ch \in Chans |-> PlayedOf(ch, new[ch])'.reloads])[NumChans]
  <2> DEFINE more == d.reloads - p.reloads
  <2>1. p \in [chan : Channels, reloads : Nat]
    BY <1>2, <1>4
  <2>2. more \in Nat
    <3>1. d.reloads = p.reloads \/ d.reloads = p.reloads + 1
      BY <1>10
    <3> HIDE DEF p
    <3> QED
      BY <2>1, <3>1
  <2>3. reloads \in [Chans -> Nat] /\ reloads[turn] = p.reloads
    BY <1>2, <1>4
  <2>4. d.reloads = p.reloads + more
    <3>1. d.reloads = p.reloads \/ d.reloads = p.reloads + 1
      BY <1>10
    <3> HIDE DEF p
    <3> QED
      BY <2>1, <3>1
  <2>5. [ch \in Chans |-> PlayedOf(ch, new[ch])'.reloads] = [reloads EXCEPT ![turn] = @ + more]
    <3> HIDE DEF more, p
    <3>1. \A ch \in Chans : PlayedOf(ch, new[ch])'.reloads =
                              IF ch = turn THEN reloads[turn] + more ELSE reloads[ch]
      BY <1>5, <2>3, <2>4
    <3> HIDE DEF reloads
    <3> QED
      BY <2>3, <3>1
  <2> HIDE DEF more, reloads, p
  <2>6. Stream!Sums([reloads EXCEPT ![turn] = @ + more])[NumChans] = Stream!Sums(reloads)[NumChans] + more
    BY <2>2, <2>3, SumOfOneMore
  <2>7. pendingIrqs' = Stream!Sums(reloads)[NumChans] + more
    BY DEF Rendered, reloads, more, p
  <2> QED
    BY <2>5, <2>6, <2>7
<1>8. \A ch \in Chans : ch > turn => new[ch] = 0
  BY <1>2, Constants DEF Rendered, Chans
<1>9. Rendered(new)'
  BY <1>2, <1>6, <1>7, <1>8 DEF Rendered
<1> QED
  BY <1>9

LEMMA AdvanceRenders ==
  ASSUME TypeOK, FrameInv, AdvanceWithin \/ AdvanceFetch
  PROVE  FrameInv'
<1> DEFINE c == core.chan[turn]
<1>1. pc = "render" /\ pc' = "render" /\ turn \in Chans /\ steps < MaxSteps /\ steps' = steps + 1
      /\ UNCHANGED <<turn, saved>> /\ turn # NumChans
  <2>1. turn \in 0 .. NumChans
    BY DEF TypeOK
  <2>2. turn < NumChans /\ pc = "render" /\ steps < MaxSteps /\ steps' = steps + 1
        /\ UNCHANGED <<pc, turn, saved>>
    BY DEF AdvanceWithin, AdvanceFetch
  <2> QED
    BY <2>1, <2>2, Constants DEF Chans
<1> SUFFICES ASSUME ~ missed' PROVE \E new : Rendered(new)'
  BY <1>1 DEF FrameInv
<1>2. ~ missed
  BY DEF AdvanceWithin, AdvanceFetch, AnyRead
<1>3. PICK count : Rendered(count)
  BY <1>1, <1>2 DEF FrameInv
<1> DEFINE p == PlayedOf(turn, steps)
<1>4. /\ p \in [chan : Channels, reloads : Nat]
      /\ c = p.chan
      /\ On(core, turn) <=> On(saved, turn)
  <2>1. saved.chan[turn] \in Channels /\ steps \in 0 .. MaxSteps /\ saved \in Cores
    BY <1>1 DEF TypeOK, Cores
  <2>2. p \in [chan : Channels, reloads : Nat]
    BY <2>1, PlayedTypes DEF PlayedOf
  <2>3. count[turn] = steps
    BY <1>1, <1>3 DEF Rendered
  <2> DEFINE f == [ch \in Chans |-> PlayedOf(ch, count[ch]).chan]
  <2>4. core = [saved EXCEPT !.chan = f]
    BY <1>3 DEF Rendered
  <2>5. f[turn] = p.chan
    BY <1>1, <2>3
  <2> HIDE DEF f, p
  <2>6. core.chan = f /\ core.dma = saved.dma
    BY <2>1, <2>4 DEF Cores
  <2> QED
    BY <2>2, <2>5, <2>6 DEF On
<1> DEFINE address == Block(p.chan).ptr
           d == IF On(saved, turn)
                THEN [chan |-> Advance(p.chan, ByteAt(address), ByteAt(address + 1)),
                      reloads |-> p.reloads + (IF Reloads(p.chan) THEN 1 ELSE 0)]
                ELSE [chan |-> Silenced(p.chan), reloads |-> p.reloads]
<1>5. core' = [core EXCEPT !.chan[turn] = d.chan] /\ pendingIrqs' = pendingIrqs + (d.reloads - p.reloads)
  <2> HIDE DEF p
  <2>1. p.reloads \in Nat /\ pendingIrqs \in Nat
    BY <1>4 DEF TypeOK
  <2>2. CASE AdvanceWithin
    <3>1. ~ On(saved, turn) \/ ~ p.chan.boundary
      BY <1>4, <2>2 DEF AdvanceWithin
    <3>2. core' = [core EXCEPT !.chan[turn] =
                     IF On(saved, turn) THEN Advance(p.chan, 0, 0) ELSE Silenced(p.chan)]
          /\ pendingIrqs' = pendingIrqs
      BY <1>4, <2>2 DEF AdvanceWithin
    <3>3. CASE ~ On(saved, turn)
      <4>1. d = [chan |-> Silenced(p.chan), reloads |-> p.reloads]
        BY <3>3
      <4> HIDE DEF d
      <4> QED
        BY <2>1, <3>2, <3>3, <4>1
    <3>4. CASE On(saved, turn)
      <4>1. ~ p.chan.boundary /\ ~ Reloads(p.chan)
        BY <3>1, <3>4 DEF Reloads
      <4>2. Advance(p.chan, ByteAt(address), ByteAt(address + 1)) = Advance(p.chan, 0, 0)
        BY <4>1 DEF Advance
      <4> HIDE DEF address
      <4>3. d = [chan |-> Advance(p.chan, 0, 0), reloads |-> p.reloads + 0]
        BY <3>4, <4>1, <4>2
      <4> HIDE DEF d
      <4> QED
        BY <2>1, <3>2, <3>4, <4>3
    <3> QED
      BY <3>3, <3>4
  <2>3. CASE AdvanceFetch
    <3> DEFINE hit == address >= Limit \/ page[address \div PageSize] = "ready"
    <3>1. hit
      BY <1>4, <2>3 DEF AdvanceFetch, AnyRead
    <3>2. core' = [core EXCEPT !.chan[turn] =
                     Advance(p.chan, IF hit THEN ByteAt(address) ELSE 0,
                                     IF hit THEN ByteAt(address + 1) ELSE 0)]
      BY <1>4, <2>3 DEF AdvanceFetch
    <3>3. pendingIrqs' = IF Reloads(p.chan) THEN pendingIrqs + 1 ELSE pendingIrqs
      BY <1>4, <2>3 DEF AdvanceFetch
    <3>4. On(saved, turn)
      BY <1>4, <2>3 DEF AdvanceFetch
    <3> HIDE DEF hit, address
    <3>5. d = [chan |-> Advance(p.chan, ByteAt(address), ByteAt(address + 1)),
               reloads |-> p.reloads + (IF Reloads(p.chan) THEN 1 ELSE 0)]
      BY <3>4
    <3> HIDE DEF d
    <3> QED
      BY <2>1, <3>1, <3>2, <3>3, <3>5
  <2> QED
    BY <2>2, <2>3
<1>6. d = Stream!PlaysOne(On(saved, turn), p)
  BY PlaysOneIs
<1> HIDE DEF d
<1> QED
  BY <1>1, <1>3, <1>5, <1>6, OneMoreSample

LEMMA FrameStepKeeps ==
  ASSUME TypeOK, FrameInv, [Next]_vars
  PROVE  FrameInv'
<1>1. CASE BeginFrame
  BY <1>1, BeginRenders
<1>2. CASE AdvanceWithin \/ AdvanceFetch
  BY <1>2, AdvanceRenders
<1>3. CASE NextChannel
  <2>1. pc = "render" /\ pc' = "render" /\ turn' = turn + 1 /\ steps' = 0
        /\ UNCHANGED <<core, saved, missed, pendingIrqs>>
    BY <1>3 DEF NextChannel
  <2>2. ASSUME NEW count, Rendered(count)
        PROVE  Rendered(count)'
    <3>1. turn \in Nat
      BY Constants DEF TypeOK
    <3>2. \A ch \in Chans : ch > turn' => count[ch] = 0
      BY <2>1, <2>2, <3>1, Constants DEF Rendered, Chans
    <3>3. turn' \in Chans => count[turn'] = 0
      BY <2>1, <2>2, <3>1, Constants DEF Rendered, Chans
    <3>4. \A ch, n : PlayedOf(ch, n)' = PlayedOf(ch, n)
      BY <2>1 DEF PlayedOf
    <3>5. [ch \in Chans |-> PlayedOf(ch, count[ch])'.chan] = [ch \in Chans |-> PlayedOf(ch, count[ch]).chan]
          /\ [ch \in Chans |-> PlayedOf(ch, count[ch])'.reloads] = [ch \in Chans |-> PlayedOf(ch, count[ch]).reloads]
      BY <3>4
    <3> QED
      BY <2>1, <2>2, <3>2, <3>3, <3>5 DEF Rendered
  <2> QED
    BY <2>1, <2>2 DEF FrameInv
<1>4. CASE Commit \/ Rollback
  BY <1>4 DEF Commit, Rollback, FrameOver, FrameInv
<1>5. CASE UNCHANGED <<core, frameVars>>
  <2>1. ASSUME NEW count, Rendered(count) PROVE Rendered(count)'
    BY <1>5, <2>1 DEF Rendered, PlayedOf, frameVars
  <2> QED
    BY <1>5, <2>1 DEF FrameInv, frameVars
<1>6. CASE pc = "idle" /\ UNCHANGED frameVars
  BY <1>6 DEF FrameInv, frameVars
<1>7. ASSUME NEW after, NEW warmed, Write(after, warmed)
      PROVE  FrameInv'
  BY <1>6, <1>7 DEF Write
<1>8. CASE \E ch \in Chans : WriteChannel(ch)
  BY <1>7, <1>8 DEF WriteChannel
<1>9. CASE \E set \in BOOLEAN, bits \in SUBSET DmaBits : WriteControl(set, bits)
  BY <1>7, <1>9 DEF WriteControl
<1>10. CASE \E regs \in [Chans -> Registers], dma \in SUBSET DmaBits : Restore(regs, dma)
  BY <1>6, <1>10 DEF Restore
<1>11. CASE ApplyMixer
  BY <1>6, <1>11 DEF ApplyMixer
<1>12. CASE \E p \in Pages : Fill(p) \/ Evict(p)
  BY <1>5, <1>12 DEF Fill, Evict
<1>13. CASE UNCHANGED vars
  BY <1>5, <1>13 DEF vars
<1> QED
  BY <1>1, <1>2, <1>3, <1>4, <1>8, <1>9, <1>10, <1>11, <1>12, <1>13 DEF Next, FrameStep

LEMMA FrameStart == Init => FrameInv
BY DEF Init, FrameInv

LEMMA FrameAlways == Spec => []FrameInv
<1>1. Init => TypeOK /\ FrameInv
  BY InitTypes, FrameStart
<1>2. TypeOK /\ FrameInv /\ [Next]_vars => (TypeOK /\ FrameInv)'
  BY TypeStep, FrameStepKeeps
<1> QED
  BY <1>1, <1>2, PTL DEF Spec

-----------------------------------------------------------------------------
(* The refinement, step by step.                                           *)

\* The register writes are the same in both specifications.
LEMMA SameWrites ==
  /\ \A k, ch, h : /\ Stream!WriteHigh(k, ch, h) = WriteHigh(k, ch, h)
                   /\ Stream!WriteLow(k, ch, h) = WriteLow(k, ch, h)
                   /\ Stream!WriteLen(k, ch, h) = WriteLen(k, ch, h)
  /\ \A k, set, bits : Stream!WriteDma(k, set, bits) = WriteDma(k, set, bits)
  /\ Stream!DmaBits = DmaBits
<1>1. \A k, ch, h : /\ Stream!WriteHigh(k, ch, h) = WriteHigh(k, ch, h)
                    /\ Stream!WriteLow(k, ch, h) = WriteLow(k, ch, h)
                    /\ Stream!WriteLen(k, ch, h) = WriteLen(k, ch, h)
  BY DEF Stream!WriteHigh, WriteHigh, Stream!WriteLow, WriteLow, Stream!WriteLen, WriteLen
<1>2. \A k, set, bits : Stream!WriteDma(k, set, bits) = WriteDma(k, set, bits)
  BY DEF Stream!WriteDma, WriteDma, Stream!Chans, Chans, Stream!On, On, Stream!Master, Master,
         Stream!Primed, Primed
<1>3. Stream!DmaBits = DmaBits
  BY DEF Stream!DmaBits, DmaBits, Stream!Chans, Chans, Stream!Master, Master
<1> QED
  BY <1>1, <1>2, <1>3

LEMMA StartsAsStream == Init => Stream!Init
<1>1. Stream!ResetCore = ResetCore
  BY SameCore DEF Stream!ResetCore, ResetCore
<1> QED
  BY <1>1, SameCore DEF Init, Stream!Init

LEMMA WriteIsWrite ==
  ASSUME NEW after, NEW warmed, Write(after, warmed),
         \/ \E ch \in Chans : \/ \E h \in Highs : after = WriteHigh(core, ch, h)
                              \/ \E l \in Lows : after = WriteLow(core, ch, l)
                              \/ \E n \in Lens : after = WriteLen(core, ch, n)
         \/ \E set \in BOOLEAN, bits \in SUBSET DmaBits : after = WriteDma(core, set, bits)
  PROVE  Stream!Write
<1>1. pc = "idle" /\ pc' = "idle" /\ core' = after /\ UNCHANGED <<irqs, gain, target, out>>
  BY DEF Write, frameVars, outputVars
<1>2. Stream!Written(core, after)
  BY SameWrites, SameCore DEF Stream!Written
<1> QED
  BY <1>1, <1>2 DEF Stream!Write

\* A channel after a resynchronisation.
LEMMA RestoredChannel ==
  ASSUME NEW regs \in [Chans -> Registers], NEW dma \in SUBSET DmaBits, NEW ch \in Chans
  PROVE  LET c == DmaLast(regs, dma).chan[ch] IN
         IF On(DmaLast(regs, dma), ch)
         THEN c = Primed(c)
         ELSE c = [ResetChannel EXCEPT !.loc = c.loc, !.len = c.len]
<1> DEFINE before == WithRegisters(ResetCore, regs)
           after == DmaLast(regs, dma)
           r == [ResetChannel EXCEPT !.loc = regs[ch].loc, !.len = regs[ch].len]
<1>1. before \in Cores
  BY RestoreTypes
<1>2. before.chan[ch] = r
  BY DEF WithRegisters, ResetCore
<1> DEFINE new == [before EXCEPT !.dma = @ \cup dma]
<1>3. after.dma = new.dma /\ after.chan[ch] = LET c == before.chan[ch] IN
                               IF ~ On(new, ch) THEN [c EXCEPT !.restart = TRUE]
                               ELSE IF c.restart THEN Primed(c) ELSE c
  <2> HIDE DEF before
  <2>1. new \in [dma : SUBSET DmaBits, chan : [Chans -> Channels]]
    BY <1>1 DEF Cores
  <2>2. after = WriteDma(before, TRUE, dma)
    BY DEF DmaLast, before
  <2> QED
    BY <2>1, <2>2 DEF WriteDma
<1> HIDE DEF before, after, new
<1>4. On(new, ch) <=> On(after, ch)
  BY <1>3 DEF On
<1>5. r.restart = TRUE /\ [r EXCEPT !.restart = TRUE] = r
      /\ r = [ResetChannel EXCEPT !.loc = r.loc, !.len = r.len]
  <2> PICK reset : reset = ResetChannel
    OBVIOUS
  <2>1. reset \in Channels /\ r \in Channels
    BY <1>1, <1>2, ResetTypes DEF Cores
  <2>2. reset.restart = TRUE
    BY DEF ResetChannel
  <2>3. r = [reset EXCEPT !.loc = regs[ch].loc, !.len = regs[ch].len]
    OBVIOUS
  <2> HIDE DEF r
  <2>4. r.loc = regs[ch].loc /\ r.len = regs[ch].len /\ r.restart = TRUE
    BY <2>1, <2>2, <2>3 DEF Channels
  <2>5. [r EXCEPT !.restart = TRUE] = r
    BY <2>1, <2>4 DEF Channels
  <2>6. r = [ResetChannel EXCEPT !.loc = r.loc, !.len = r.len]
    BY <2>4 DEF r
  <2> QED
    BY <2>4, <2>5, <2>6
<1>6. Primed(r) = Primed(Primed(r))
  <2>1. r \in Channels
    BY <1>1, <1>2 DEF Cores
  <2> HIDE DEF r
  <2> DEFINE p == Primed(r)
  <2>2. /\ p.ptr = p.loc /\ p.words = p.len /\ p.boundary = TRUE
        /\ p.cur = 0 /\ p.next = 0 /\ p.held = 0 /\ p.restart = FALSE
    BY <2>1 DEF Primed, Channels
  <2>3. p \in Channels
    BY <2>1, PrimedTypes
  <2> HIDE DEF p
  <2>4. Primed(p) = p
    BY <2>2, <2>3 DEF Primed, Channels
  <2> QED
    BY <2>4 DEF p
<1> HIDE DEF r
<1>7. after.chan[ch] = IF On(after, ch) THEN Primed(r) ELSE r
  BY <1>2, <1>3, <1>4, <1>5
<1> USE DEF after
<1> QED
  BY <1>5, <1>6, <1>7

LEMMA RestoreIsResync ==
  ASSUME NEW regs \in [Chans -> Registers], NEW dma \in SUBSET DmaBits, Restore(regs, dma)
  PROVE  Stream!Resync
<1>1. pc' = "idle" /\ core' = DmaLast(regs, dma) /\ out' = Silent /\ UNCHANGED <<irqs, gain, target>>
  BY DEF Restore, frameVars
<1> DEFINE after == DmaLast(regs, dma)
<1>2. \A ch \in Stream!Chans :
        LET c == after.chan[ch] IN
        IF Stream!On(after, ch) THEN c = Stream!Primed(c)
        ELSE c = [Stream!ResetChannel EXCEPT !.loc = c.loc, !.len = c.len]
  <2> TAKE ch \in Stream!Chans
  <2> DEFINE c == after.chan[ch]
  <2>1. ch \in Chans /\ (Stream!On(after, ch) <=> On(after, ch)) /\ Stream!Primed(c) = Primed(c)
    BY SameCore
  <2>2. Stream!ResetChannel = ResetChannel
    BY SameCore
  <2>3. IF On(after, ch) THEN c = Primed(c)
        ELSE c = [ResetChannel EXCEPT !.loc = c.loc, !.len = c.len]
    BY <2>1, RestoredChannel
  <2> HIDE DEF c, after
  <2>4. IF Stream!On(after, ch) THEN c = Stream!Primed(c)
        ELSE c = [Stream!ResetChannel EXCEPT !.loc = c.loc, !.len = c.len]
    BY <2>1, <2>2, <2>3
  <2> QED
    BY <2>4 DEF c, after
<1> HIDE DEF after
<1>3. core' = after
  BY <1>1 DEF after
<1>4. Stream!Silent = Silent
  BY SameCore
<1> QED
  BY <1>1, <1>2, <1>3, <1>4, Zenon DEF Stream!Resync

\* A frame that missed nothing is a frame of the stream.
LEMMA CommitIsFrame ==
  ASSUME TypeOK, FrameInv, Commit
  PROVE  Stream!Frame
<1>1. /\ pc = "render" /\ pc' = "idle" /\ ~ missed /\ core' = core /\ target' = target
      /\ irqs' = (irqs + pendingIrqs) % Wrap
      /\ gain' = Toward(gain, target)
      /\ out' = [samples |-> [ch \in Chans |-> core.chan[ch].cur], gain |-> gain']
  BY DEF Commit, FrameOver
<1>2. PICK count : Rendered(count)
  BY <1>1 DEF FrameInv
<1> PICK played : played = [ch \in Chans |-> PlayedOf(ch, count[ch])]
  OBVIOUS
<1>3. played = [ch \in Stream!Chans |-> Stream!Played(Stream!On(saved, ch), saved.chan[ch])[count[ch]]]
  BY SameCore DEF PlayedOf
<1>4. core = [saved EXCEPT !.chan = [ch \in Chans |-> played[ch].chan]]
  <2>1. [ch \in Chans |-> PlayedOf(ch, count[ch]).chan] = [ch \in Chans |-> played[ch].chan]
    OBVIOUS
  <2> QED
    BY <1>2, <2>1 DEF Rendered
<1>5. pendingIrqs = Stream!Sums([ch \in Chans |-> played[ch].reloads])[NumChans]
  <2>1. [ch \in Chans |-> PlayedOf(ch, count[ch]).reloads] = [ch \in Chans |-> played[ch].reloads]
    OBVIOUS
  <2> QED
    BY <1>2, <2>1 DEF Rendered
<1>6. \A ch \in Chans : core.chan[ch].cur = played[ch].chan.cur
  <2>1. saved \in Cores
    BY DEF TypeOK
  <2> QED
    BY <1>4, <2>1 DEF Cores
<1>7. Toward(gain, target) = Stream!Toward(gain, target)
  BY DEF Toward, Stream!Toward
<1>8. count \in [Stream!Chans -> 0 .. MaxSteps]
  BY <1>2, SameCore DEF Rendered
<1>9. /\ core' = [saved EXCEPT !.chan = [ch \in Stream!Chans |-> played[ch].chan]]
      /\ irqs' = (irqs + Stream!Sums([ch \in Stream!Chans |-> played[ch].reloads])[NumChans]) % Wrap
      /\ gain' = Stream!Toward(gain, target)
      /\ out' = [samples |-> [ch \in Stream!Chans |-> played[ch].chan.cur], gain |-> gain']
      /\ UNCHANGED target
  BY <1>1, <1>4, <1>5, <1>6, <1>7, SameCore
<1> QED
  BY <1>1, <1>3, <1>8, <1>9 DEF Stream!Frame

LEMMA StepIsStreamStep ==
  ASSUME TypeOK, FrameInv, [Next]_vars
  PROVE  [Stream!Next]_(Stream!vars)
<1>1. ASSUME NEW ch \in Chans, WriteChannel(ch) PROVE Stream!Write
  BY <1>1, WriteIsWrite DEF WriteChannel
<1>2. ASSUME NEW set \in BOOLEAN, NEW bits \in SUBSET DmaBits, WriteControl(set, bits)
      PROVE  Stream!Write
  BY <1>2, WriteIsWrite DEF WriteControl
<1>3. ASSUME NEW regs \in [Chans -> Registers], NEW dma \in SUBSET DmaBits, Restore(regs, dma)
      PROVE  Stream!Resync
  BY <1>3, RestoreIsResync
<1>4. CASE ApplyMixer
  <2>1. Stream!SetTarget
    BY <1>4 DEF ApplyMixer, Stream!SetTarget, frameVars, outputVars
  <2> QED
    BY <2>1 DEF Stream!Next
<1>5. CASE BeginFrame
  BY <1>5 DEF BeginFrame, Stream!vars, outputVars
<1>6. CASE AdvanceWithin \/ AdvanceFetch \/ NextChannel
  BY <1>6 DEF AdvanceWithin, AdvanceFetch, NextChannel, Stream!vars, outputVars
<1>7. CASE Commit
  BY <1>7, CommitIsFrame DEF Stream!Next
<1>8. CASE Rollback
  BY <1>8 DEF Rollback, FrameOver, Undone, Stream!vars
<1>9. ASSUME NEW p \in Pages, Fill(p) \/ Evict(p)
      PROVE  UNCHANGED Stream!vars
  BY <1>9 DEF Fill, Evict, Stream!vars, frameVars, outputVars
<1>10. CASE UNCHANGED vars
  BY <1>10 DEF vars, Stream!vars, frameVars, outputVars
<1> QED
  BY <1>1, <1>2, <1>3, <1>4, <1>5, <1>6, <1>7, <1>8, <1>9, <1>10 DEF Next, FrameStep, Stream!Next

(* The live renderer (paula_live.cpp) implements PaulaStream: however the    *)
(* cache fills, loses and refills its pages, every committed frame holds the *)
(* samples that lie in memory, no sample is skipped or played twice, and the *)
(* interrupts of an undone frame are not counted.                            *)
THEOREM RendersFramesAsTransactions == Spec => FramesAreTransactions
<1>1. Init => Stream!Init
  BY StartsAsStream
<1>2. TypeOK /\ FrameInv /\ [Next]_vars => [Stream!Next]_(Stream!vars)
  BY StepIsStreamStep
<1> QED
  BY <1>1, <1>2, TypeCorrect, FrameAlways, PTL DEF Spec, FramesAreTransactions, Stream!Spec
-----------------------------------------------------------------------------
(* The lookahead.  A channel that is on has been primed, so a sweep begins  *)
(* where the channel reads next.                                           *)

Running(k) == \A ch \in Chans : On(k, ch) => ~ k.chan[ch].restart

RunningInv == Running(core) /\ Running(saved)

LEMMA RunningWrites ==
  ASSUME NEW k \in Cores
  PROVE  /\ Running(k) => \A ch \in Chans :
              /\ \A h \in Highs : Running(WriteHigh(k, ch, h))
              /\ \A l \in Lows : Running(WriteLow(k, ch, l))
              /\ \A n \in Lens : Running(WriteLen(k, ch, n))
         /\ \A set \in BOOLEAN, bits \in SUBSET DmaBits : Running(WriteDma(k, set, bits))
<1>1. ASSUME NEW ch \in Chans, NEW c \in Channels, Running(k), c.restart = k.chan[ch].restart
      PROVE  Running([k EXCEPT !.chan[ch] = c])
  <2>1. [k EXCEPT !.chan[ch] = c].dma = k.dma
        /\ \A h \in Chans : [k EXCEPT !.chan[ch] = c].chan[h] = IF h = ch THEN c ELSE k.chan[h]
    BY DEF Cores
  <2> QED
    BY <1>1, <2>1 DEF Running, On
<1>2. ASSUME Running(k), NEW ch \in Chans
      PROVE  /\ \A h \in Highs : Running(WriteHigh(k, ch, h))
             /\ \A l \in Lows : Running(WriteLow(k, ch, l))
             /\ \A n \in Lens : Running(WriteLen(k, ch, n))
  <2>1. \A after \in Cores : after.dma = k.dma /\ (\A h \in Chans : after.chan[h].restart = k.chan[h].restart)
          => Running(after)
    BY <1>2 DEF Running, On
  <2>2. \A h : WriteHigh(k, ch, h).dma = k.dma
               /\ \A x \in Chans : WriteHigh(k, ch, h).chan[x].restart = k.chan[x].restart
    BY DEF WriteHigh, Cores, Channels
  <2>3. \A h : WriteLow(k, ch, h).dma = k.dma
               /\ \A x \in Chans : WriteLow(k, ch, h).chan[x].restart = k.chan[x].restart
    BY DEF WriteLow, Cores, Channels
  <2>4. \A h : WriteLen(k, ch, h).dma = k.dma
               /\ \A x \in Chans : WriteLen(k, ch, h).chan[x].restart = k.chan[x].restart
    BY DEF WriteLen, Cores, Channels
  <2> QED
    BY <2>1, <2>2, <2>3, <2>4, RegisterTypes
<1>3. ASSUME NEW set \in BOOLEAN, NEW bits \in SUBSET DmaBits
      PROVE  Running(WriteDma(k, set, bits))
  <2> DEFINE new == [k EXCEPT !.dma = IF set THEN @ \cup bits ELSE @ \ bits]
             after == WriteDma(k, set, bits)
  <2>1. ASSUME NEW ch \in Chans, On(after, ch) PROVE ~ after.chan[ch].restart
    <3> DEFINE c == k.chan[ch]
    <3>1. c \in Channels
      BY DEF Cores
    <3>2. new \in Cores
      BY DEF Cores
    <3>3. after.dma = new.dma
          /\ after.chan[ch] = IF ~ On(new, ch) THEN [c EXCEPT !.restart = TRUE]
                              ELSE IF c.restart THEN Primed(c) ELSE c
      BY <3>2 DEF WriteDma, Cores
    <3> HIDE DEF after, new, c
    <3>4. On(new, ch)
      BY <2>1, <3>3 DEF On
    <3>5. ~ Primed(c).restart
      BY <3>1 DEF Primed, Channels
    <3> QED
      BY <3>3, <3>4, <3>5
  <2> QED
    BY <2>1 DEF Running
<1> QED
  BY <1>2, <1>3

LEMMA RunningStep ==
  ASSUME TypeOK, RunningInv, [Next]_vars
  PROVE  RunningInv'
<1>1. core \in Cores /\ Running(core) /\ Running(saved)
  BY DEF TypeOK, RunningInv
<1>2. Running(ResetCore)
  BY DEF Running, On, ResetCore
<1>3. ASSUME NEW after, NEW warmed, Write(after, warmed), Running(after) PROVE RunningInv'
  BY <1>1, <1>3 DEF Write, frameVars, RunningInv, Running
<1>4. CASE \E ch \in Chans : WriteChannel(ch)
  BY <1>1, <1>3, <1>4, RunningWrites DEF WriteChannel
<1>5. CASE \E set \in BOOLEAN, bits \in SUBSET DmaBits : WriteControl(set, bits)
  <2>1. PICK set \in BOOLEAN, bits \in SUBSET DmaBits : WriteControl(set, bits)
    BY <1>5
  <2>2. Running(WriteDma(core, set, bits))
    BY <1>1, RunningWrites
  <2> QED
    BY <1>3, <2>1, <2>2 DEF WriteControl
<1>6. CASE \E regs \in [Chans -> Registers], dma \in SUBSET DmaBits : Restore(regs, dma)
  <2>1. PICK regs \in [Chans -> Registers], dma \in SUBSET DmaBits : Restore(regs, dma)
    BY <1>6
  <2>2. Running(DmaLast(regs, dma))
    BY RestoreTypes, RunningWrites DEF DmaLast
  <2> QED
    BY <1>1, <2>1, <2>2 DEF Restore, frameVars, RunningInv, Running
<1>7. CASE BeginFrame
  BY <1>1, <1>7 DEF BeginFrame, RunningInv, Running
<1>8. CASE AdvanceWithin \/ AdvanceFetch
  <2> DEFINE c == core.chan[turn]
  <2>1. turn \in Chans /\ saved' = saved
    <3>1. turn < NumChans /\ saved' = saved
      BY <1>8 DEF AdvanceWithin, AdvanceFetch
    <3>2. turn \in 0 .. NumChans
      BY DEF TypeOK
    <3> QED
      BY <3>1, <3>2, Constants DEF Chans
  <2>2. c \in Channels
    BY <1>1, <2>1 DEF Cores
  <2>3. \E d : d.restart = c.restart /\ core' = [core EXCEPT !.chan[turn] = d]
    <3>1. ASSUME NEW low, NEW high PROVE Advance(c, low, high).restart = c.restart
      <4> HIDE DEF c
      <4>1. CASE c.boundary
        <5>1. Block(c) \in Channels /\ Block(c).restart = c.restart
          BY <2>2 DEF Block, Channels
        <5> PICK b \in Channels : b = Block(c)
          BY <5>1
        <5>2. Advance(c, low, high) =
                [b EXCEPT !.ptr = @ + 2, !.words = Counted(@), !.cur = c.next, !.next = low,
                          !.held = high, !.boundary = FALSE]
          BY <4>1 DEF Advance
        <5> QED
          BY <5>1, <5>2 DEF Channels
      <4>2. CASE ~ c.boundary
        BY <2>2, <4>2 DEF Advance, Channels
      <4> QED
        BY <4>1, <4>2
    <3>2. Silenced(c).restart = c.restart
      BY <2>2 DEF Silenced, Channels
    <3>3. CASE AdvanceWithin
      BY <3>1, <3>2, <3>3 DEF AdvanceWithin
    <3>4. CASE AdvanceFetch
      <4>1. \E low, high : core' = [core EXCEPT !.chan[turn] = Advance(c, low, high)]
        <5> DEFINE address == Block(c).ptr
                   hit == address >= Limit \/ page[address \div PageSize] = "ready"
        <5>1. core' = [core EXCEPT !.chan[turn] =
                         Advance(c, IF hit THEN ByteAt(address) ELSE 0,
                                    IF hit THEN ByteAt(address + 1) ELSE 0)]
          BY <3>4 DEF AdvanceFetch
        <5> HIDE DEF hit, address, c
        <5> QED
          BY <5>1
      <4> QED
        BY <3>1, <4>1
    <3> QED
      BY <1>8, <3>3, <3>4
  <2>4. PICK d : d.restart = c.restart /\ core' = [core EXCEPT !.chan[turn] = d]
    BY <2>3
  <2>5. core'.dma = core.dma
        /\ \A ch \in Chans : core'.chan[ch] = IF ch = turn THEN d ELSE core.chan[ch]
    BY <1>1, <2>1, <2>4 DEF Cores
  <2>6. \A ch \in Chans : core'.chan[ch].restart = core.chan[ch].restart
    BY <2>4, <2>5
  <2> QED
    BY <1>1, <2>1, <2>5, <2>6 DEF RunningInv, Running, On
<1>9. CASE Commit
  BY <1>1, <1>2, <1>9 DEF Commit, FrameOver, RunningInv, Running
<1>10. CASE Rollback
  BY <1>1, <1>2, <1>10 DEF Rollback, FrameOver, Undone, RunningInv, Running
<1>11. CASE UNCHANGED <<core, saved>>
  BY <1>1, <1>11 DEF RunningInv, Running
<1>12. CASE ApplyMixer \/ NextChannel \/ (\E p \in Pages : Fill(p) \/ Evict(p)) \/ UNCHANGED vars
  BY <1>11, <1>12 DEF ApplyMixer, NextChannel, Fill, Evict, vars, frameVars
<1> QED
  BY <1>4, <1>5, <1>6, <1>7, <1>8, <1>9, <1>10, <1>12 DEF Next, FrameStep
\* Pages of addresses.
LEMMA PageOf ==
  ASSUME NEW a \in Nat, NEW b \in Nat, a <= b
  PROVE  /\ a \div PageSize \in Nat
         /\ a \div PageSize <= b \div PageSize
         /\ b < Limit => b \div PageSize \in Pages
<1> DEFINE P == PageSize
           p == a \div P
           q == b \div P
           m == Limit \div P
<1>1. P \in Nat \ {0} /\ Limit \in Nat
  BY Constants
<1>2. p \in Nat /\ q \in Nat /\ m \in Nat
  BY <1>1
<1>3. P * p <= a /\ b < P * q + P
  BY <1>1
<1>4. Limit = P * m
  <2>1. Limit % P = 0
    BY RenderAssumption DEF RenderAssumption
  <2> QED
    BY <1>1, <2>1
<1> HIDE DEF P, p, q, m
<1>5. \A x, y \in Nat : x >= y + 1 => P * x >= P * y + P
  <2> TAKE x, y \in Nat
  <2> HAVE x >= y + 1
  <2> PICK d \in Nat : x = y + 1 + d
    <3>1. x - (y + 1) \in Nat /\ x = y + 1 + (x - (y + 1))
      OBVIOUS
    <3> QED
      BY <3>1
  <2>1. P * d \in Nat /\ P * x = P * y + P + P * d
    BY <1>1
  <2>2. P * y \in Nat /\ P \in Nat
    BY <1>1
  <2> QED
    BY <2>1, <2>2
<1>6. P * p \in Nat /\ P * q \in Nat /\ P * m \in Nat
  BY <1>1, <1>2
<1>7. p <= q
  <2> SUFFICES ASSUME p >= q + 1 PROVE FALSE
    BY <1>2
  <2>1. P * p >= P * q + P
    BY <1>2, <1>5
  <2> QED
    BY <1>1, <1>3, <1>6, <2>1
<1>8. P * q <= b
  BY <1>1 DEF P, q
<1>9. ASSUME b < Limit PROVE q <= m - 1
  <2> SUFFICES ASSUME q >= m PROVE FALSE
    BY <1>2
  <2>1. q = m \/ q >= m + 1
    BY <1>2
  <2>2. CASE q = m
    BY <1>4, <1>6, <1>8, <1>9, <2>2
  <2>3. CASE q >= m + 1
    <3>1. P * q >= P * m + P
      BY <1>2, <1>5, <2>3
    <3> QED
      BY <1>1, <1>4, <1>6, <1>8, <1>9, <3>1
  <2> QED
    BY <2>1, <2>2, <2>3
<1>10. b < Limit => q \in 0 .. m - 1
  BY <1>2, <1>9
<1> QED
  BY <1>2, <1>7, <1>10 DEF Pages, P, p, q, m

\* An address among those of a sweep.
LEMMA PagesCover ==
  ASSUME NEW first \in Nat, NEW bytes \in Nat, NEW a \in Nat,
         first <= a, a < first + bytes, a < Limit
  PROVE  a \div PageSize \in PagesOf(first, bytes) \cap Pages
<1> DEFINE last == Least(first + bytes, Limit) - 1
<1>1. last \in Nat /\ a <= last /\ Limit \in Nat
  BY Constants DEF Least
<1>2. first < Limit /\ bytes # 0
  BY <1>1
<1> HIDE DEF last
<1>3. a \div PageSize \in first \div PageSize .. last \div PageSize
  <2>1. first \div PageSize <= a \div PageSize /\ a \div PageSize <= last \div PageSize
    BY <1>1, PageOf
  <2>2. first \div PageSize \in Nat /\ a \div PageSize \in Nat /\ last \div PageSize \in Nat
    BY <1>1, PageOf
  <2> QED
    BY <2>1, <2>2
<1>4. PagesOf(first, bytes) = first \div PageSize .. last \div PageSize
  <2>1. ~ (first >= Limit \/ bytes = 0)
    BY <1>1, <1>2
  <2> QED
    BY <2>1 DEF PagesOf, last
<1>5. a \div PageSize \in Pages
  BY PageOf
<1> QED
  BY <1>3, <1>4, <1>5

\* The words ahead of a channel, up to the k-th.
IsAhead(g, c, k) ==
  g = [n \in 0 .. k |-> [(IF n = 0 THEN c ELSE Advance(g[n - 1], 0, 0)) EXCEPT !.boundary = TRUE]]

LEMMA AheadExists ==
  ASSUME NEW c
  PROVE  \A k \in Nat : \E g : IsAhead(g, c, k)
<1> DEFINE S == {k \in Nat : \E g : IsAhead(g, c, k)}
           At(x, n) == [(IF n = 0 THEN c ELSE Advance(x, 0, 0)) EXCEPT !.boundary = TRUE]
<1> HIDE DEF At
<1>1. \A g, k : IsAhead(g, c, k) <=> g = [n \in 0 .. k |-> At(g[n - 1], n)]
  BY DEF IsAhead, At
<1>2. \A x, y : At(x, 0) = At(y, 0)
  BY DEF At
<1>3. 0 \in S
  <2> DEFINE g == [n \in 0 .. 0 |-> At(0, 0)]
  <2>1. g = [n \in 0 .. 0 |-> At(g[n - 1], n)]
    <3>1. \A n \in 0 .. 0 : At(0, 0) = At(g[n - 1], n)
      BY <1>2
    <3> QED
      BY <3>1
  <2>2. IsAhead(g, c, 0)
    BY <1>1, <2>1
  <2> HIDE DEF g
  <2> QED
    BY <2>2
<1>4. ASSUME NEW k \in S PROVE k + 1 \in S
  <2>1. PICK g : g = [n \in 0 .. k |-> At(g[n - 1], n)]
    BY <1>1
  <2> DEFINE h == [n \in 0 .. k + 1 |-> At(g[n - 1], n)]
  <2>2. \A n \in 0 .. k : h[n] = g[n]
    BY <2>1
  <2>3. \A n \in 0 .. k + 1 : At(g[n - 1], n) = At(h[n - 1], n)
    <3> TAKE n \in 0 .. k + 1
    <3>1. CASE n = 0
      BY <1>2, <3>1
    <3>2. CASE n # 0
      <4>1. n - 1 \in 0 .. k
        BY <3>2
      <4> HIDE DEF h
      <4> QED
        BY <2>2, <4>1
    <3> QED
      BY <3>1, <3>2
  <2>4. h = [n \in 0 .. k + 1 |-> At(h[n - 1], n)]
    BY <2>3
  <2> HIDE DEF h
  <2>5. IsAhead(h, c, k + 1)
    BY <1>1, <2>4
  <2> QED
    BY <2>5
<1>5. S = Nat
  <2> HIDE DEF S
  <2> QED
    BY <1>3, <1>4, AllNumbers DEF S
<1> QED
  BY <1>5

LEMMA AheadDef ==
  ASSUME NEW c
  PROVE  \E g : /\ IsAhead(g, c, Window \div 2 - 1)
                /\ WordsAhead(c) = {Block(g[n]).ptr : n \in 0 .. Window \div 2 - 1}
<1>1. Window \div 2 - 1 \in Nat
  BY RenderAssumption DEF RenderAssumption
<1>2. \E g : IsAhead(g, c, Window \div 2 - 1)
  BY <1>1, AheadExists
<1> DEFINE at == CHOOSE g : IsAhead(g, c, Window \div 2 - 1)
<1>3. IsAhead(at, c, Window \div 2 - 1)
  BY <1>2
<1>4. WordsAhead(c) = {Block(at[n]).ptr : n \in DOMAIN at}
  BY DEF WordsAhead, IsAhead
<1> HIDE DEF at
<1>5. DOMAIN at = 0 .. Window \div 2 - 1
  BY <1>3 DEF IsAhead
<1> QED
  BY <1>3, <1>4, <1>5
\* Where a channel is after n words: in its block, or on some way round the
\* loop after it.
InBlock(a, c, n) ==
  n <= c.words /\ a.ptr = c.ptr + 2 * n /\ a.words = c.words - n
InLoop(a, c, n) ==
  \E r \in 0 .. c.len : /\ c.words + r <= n
                        /\ a.ptr = c.loc + 2 * r /\ a.words = c.len - r
AheadOf(a, c, n) ==
  /\ a \in Channels /\ a.boundary /\ a.loc = c.loc /\ a.len = c.len
  /\ InBlock(a, c, n) \/ InLoop(a, c, n)

LEMMA OneWordAhead ==
  ASSUME NEW c \in Channels, c.len # 0, NEW n \in Nat, NEW a, AheadOf(a, c, n)
  PROVE  AheadOf([Advance(a, 0, 0) EXCEPT !.boundary = TRUE], c, n + 1)
<1> DEFINE d == Advance(a, 0, 0)
           e == [d EXCEPT !.boundary = TRUE]
<1>1. a \in Channels /\ a.boundary /\ a.loc = c.loc /\ a.len = c.len
      /\ (InBlock(a, c, n) \/ InLoop(a, c, n))
  BY DEF AheadOf
<1>2. c.len \in Nat /\ c.loc \in Nat /\ c.words \in Nat /\ c.ptr \in Nat /\ a.words \in Nat /\ a.ptr \in Nat
  BY <1>1, Constants DEF Channels
<1>3. d \in Channels
  <2>1. 0 \in Bytes
    BY Constants DEF Bytes
  <2> QED
    BY <1>1, <2>1, AdvanceTypes
<1>4. d.loc = c.loc /\ d.len = c.len
      /\ d.ptr = (IF a.words = 0 THEN c.loc ELSE a.ptr) + 2
      /\ d.words = (IF a.words = 0 THEN c.len ELSE a.words) - 1
  <2> PICK b \in Channels : b = Block(a)
    BY <1>1, BlockTypes
  <2>1. b.ptr = (IF a.words = 0 THEN c.loc ELSE a.ptr) /\ b.words = (IF a.words = 0 THEN c.len ELSE a.words)
        /\ b.loc = c.loc /\ b.len = c.len
    BY <1>1 DEF Block, Reloads, Channels
  <2>2. d = [b EXCEPT !.ptr = @ + 2, !.words = Counted(@), !.cur = a.next, !.next = 0, !.held = 0,
                      !.boundary = FALSE]
    BY <1>1 DEF Advance
  <2>3. d.loc = b.loc /\ d.len = b.len /\ d.ptr = b.ptr + 2 /\ d.words = Counted(b.words)
    <3> HIDE DEF d
    <3> QED
      BY <2>2 DEF Channels
  <2>4. Counted(b.words) = b.words - 1
    BY <1>2, <2>1 DEF Counted
  <2> HIDE DEF d
  <2> QED
    BY <2>1, <2>3, <2>4
<1> HIDE DEF d
<1>5. e \in Channels /\ e.boundary /\ e.loc = d.loc /\ e.len = d.len /\ e.ptr = d.ptr /\ e.words = d.words
  BY <1>3 DEF Channels
<1> HIDE DEF e
<1>6. InBlock(e, c, n + 1) \/ InLoop(e, c, n + 1)
  <2>1. CASE InBlock(a, c, n) /\ a.words # 0
    <3>1. n + 1 <= c.words /\ e.ptr = c.ptr + 2 * (n + 1) /\ e.words = c.words - (n + 1)
      BY <1>2, <1>4, <1>5, <2>1 DEF InBlock
    <3> QED
      BY <3>1 DEF InBlock
  <2>2. CASE InBlock(a, c, n) /\ a.words = 0
    <3>1. c.words = n
      BY <1>2, <2>2 DEF InBlock
    <3>2. 1 \in 0 .. c.len /\ c.words + 1 <= n + 1 /\ e.ptr = c.loc + 2 * 1 /\ e.words = c.len - 1
      BY <1>2, <1>4, <1>5, <2>2, <3>1
    <3> QED
      BY <3>2 DEF InLoop
  <2>3. CASE InLoop(a, c, n)
    <3>1. PICK r \in 0 .. c.len : c.words + r <= n /\ a.ptr = c.loc + 2 * r /\ a.words = c.len - r
      BY <2>3 DEF InLoop
    <3>2. CASE a.words # 0
      <4>1. r + 1 \in 0 .. c.len /\ c.words + (r + 1) <= n + 1
            /\ e.ptr = c.loc + 2 * (r + 1) /\ e.words = c.len - (r + 1)
        BY <1>2, <1>4, <1>5, <3>1, <3>2
      <4> QED
        BY <4>1 DEF InLoop
    <3>3. CASE a.words = 0
      <4>1. r = c.len
        BY <1>2, <3>1, <3>3
      <4>2. 1 \in 0 .. c.len /\ c.words + 1 <= n + 1 /\ e.ptr = c.loc + 2 * 1 /\ e.words = c.len - 1
        BY <1>2, <1>4, <1>5, <3>1, <3>3, <4>1
      <4> QED
        BY <4>2 DEF InLoop
    <3> QED
      BY <3>2, <3>3
  <2> QED
    BY <1>1, <2>1, <2>2, <2>3
<1>7. AheadOf(e, c, n + 1)
  BY <1>4, <1>5, <1>6 DEF AheadOf
<1> QED
  BY <1>7 DEF e, d

LEMMA AllAhead ==
  ASSUME NEW c \in Channels, c.len # 0, NEW k \in Nat, NEW g, IsAhead(g, c, k)
  PROVE  \A n \in 0 .. k : AheadOf(g[n], c, n)
<1> DEFINE S == {n \in Nat : n <= k => AheadOf(g[n], c, n)}
<1>1. 0 \in S
  <2> DEFINE a == [c EXCEPT !.boundary = TRUE]
  <2>1. g[0] = a
    BY DEF IsAhead
  <2>2. a \in Channels /\ a.boundary /\ a.loc = c.loc /\ a.len = c.len /\ a.ptr = c.ptr /\ a.words = c.words
    BY DEF Channels
  <2>3. c.ptr \in Nat /\ c.words \in Nat
    BY Constants DEF Channels
  <2> HIDE DEF a
  <2>4. InBlock(a, c, 0)
    BY <2>2, <2>3 DEF InBlock
  <2>5. AheadOf(g[0], c, 0)
    BY <2>1, <2>2, <2>4 DEF AheadOf
  <2> QED
    BY <2>5
<1>2. ASSUME NEW n \in S PROVE n + 1 \in S
  <2> SUFFICES ASSUME n + 1 <= k PROVE AheadOf(g[n + 1], c, n + 1)
    OBVIOUS
  <2>1. n \in Nat /\ AheadOf(g[n], c, n)
    OBVIOUS
  <2>2. g[n + 1] = [Advance(g[n], 0, 0) EXCEPT !.boundary = TRUE]
    <3>1. n + 1 \in 0 .. k /\ n + 1 # 0 /\ (n + 1) - 1 = n
      OBVIOUS
    <3> QED
      BY <3>1 DEF IsAhead
  <2> PICK a : a = g[n]
    OBVIOUS
  <2>3. AheadOf([Advance(a, 0, 0) EXCEPT !.boundary = TRUE], c, n + 1)
    BY <2>1, OneWordAhead
  <2> QED
    BY <2>2, <2>3
<1>3. S = Nat
  <2> HIDE DEF S
  <2> QED
    BY <1>1, <1>2, AllNumbers DEF S
<1> QED
  BY <1>3

\* Every word a channel plays within the window lies where the sweep looks.
LEMMA AheadIsSwept ==
  ASSUME NEW k \in Cores, Running(k), NEW ch \in Enabled(k), k.chan[ch].len # 0,
         NEW address \in WordsAhead(k.chan[ch]), address < Limit
  PROVE  address \div PageSize \in Sweep(k) \cap Pages
<1> DEFINE c == k.chan[ch]
           fetch == FetchState(c)
           bytes == Least(Window, 2 * fetch.words)
           rest == Least(Window - bytes, 2 * c.len)
<1>1. ch \in Chans /\ c \in Channels /\ ~ c.restart /\ c.len # 0
  BY DEF Enabled, Running, Cores
<1>2. PagesOf(fetch.cursor, bytes) \cup PagesOf(c.loc, rest) \subseteq Sweep(k)
  BY DEF Sweep
<1> HIDE DEF c
<1>3. fetch = IF c.boundary /\ c.words = 0 THEN [cursor |-> c.loc, words |-> c.len]
              ELSE [cursor |-> c.ptr, words |-> c.words]
  BY <1>1 DEF FetchState, Reloads
<1>4. c.loc \in Nat /\ c.len \in Nat /\ c.len # 0 /\ c.ptr \in Nat /\ c.words \in Nat /\ Window \in Nat
      /\ Window % 2 = 0
  BY <1>1, Constants, RenderAssumption DEF Channels, RenderAssumption
<1>5. PICK g : /\ IsAhead(g, c, Window \div 2 - 1)
               /\ WordsAhead(c) = {Block(g[n]).ptr : n \in 0 .. Window \div 2 - 1}
  BY AheadDef
<1>6. PICK n \in 0 .. Window \div 2 - 1 : address = Block(g[n]).ptr
  BY <1>5 DEF c
<1>7. n \in Nat /\ 2 * n < Window /\ Window \div 2 - 1 \in Nat
  BY <1>4, RenderAssumption DEF RenderAssumption
<1>8. PICK a : a = g[n] /\ AheadOf(a, c, n)
  BY <1>1, <1>5, <1>7, AllAhead
<1>9. address = IF a.words = 0 THEN c.loc ELSE a.ptr
  BY <1>6, <1>8 DEF AheadOf, Block, Reloads, Channels
<1>10. fetch.cursor \in Nat /\ bytes \in Nat /\ rest \in Nat /\ address \in Nat
  <2>1. fetch.cursor \in Nat /\ fetch.words \in Nat
    BY <1>3, <1>4
  <2>2. bytes \in Nat /\ bytes <= Window
    <3> HIDE DEF fetch
    <3> QED
      BY <1>4, <2>1 DEF Least
  <2> HIDE DEF bytes, fetch
  <2>3. rest \in Nat
    BY <1>4, <2>2 DEF Least
  <2>4. address \in Nat
    BY <1>4, <1>8, <1>9 DEF AheadOf, Channels
  <2> QED
    BY <2>1, <2>2, <2>3, <2>4
<1>11. \/ fetch.cursor <= address /\ address < fetch.cursor + bytes
       \/ c.loc <= address /\ address < c.loc + rest
  <2>1. CASE c.boundary /\ c.words = 0
    <3>1. fetch.cursor = c.loc /\ bytes = Least(Window, 2 * c.len)
      BY <1>3, <2>1
    <3>2. \E r \in Nat : r <= n /\ r < c.len /\ address = c.loc + 2 * r
      <4>1. CASE a.words = 0
        BY <1>4, <1>7, <1>9, <4>1
      <4>2. CASE a.words # 0
        <5>1. ~ InBlock(a, c, n)
          BY <1>7, <1>8, <2>1, <4>2 DEF InBlock, AheadOf, Channels
        <5>2. PICK r \in 0 .. c.len : c.words + r <= n /\ a.ptr = c.loc + 2 * r /\ a.words = c.len - r
          BY <1>8, <5>1 DEF AheadOf, InLoop
        <5>3. r \in Nat /\ r <= n /\ r < c.len
          BY <1>4, <2>1, <4>2, <5>2
        <5> QED
          BY <1>9, <4>2, <5>2, <5>3
      <4> QED
        BY <4>1, <4>2
    <3>3. PICK r \in Nat : r <= n /\ r < c.len /\ address = c.loc + 2 * r
      BY <3>2
    <3> HIDE DEF fetch, bytes
    <3> QED
      BY <1>4, <1>7, <3>1, <3>3 DEF Least
  <2>2. CASE ~ (c.boundary /\ c.words = 0)
    <3>1. fetch.cursor = c.ptr /\ bytes = Least(Window, 2 * c.words)
      BY <1>3, <2>2
    <3> HIDE DEF fetch
    <3>2. CASE InBlock(a, c, n) /\ a.words # 0
      <4>1. address = c.ptr + 2 * n /\ n < c.words
        BY <1>4, <1>7, <1>9, <3>2 DEF InBlock
      <4> HIDE DEF bytes
      <4> QED
        BY <1>4, <1>7, <3>1, <4>1 DEF Least
    <3>3. ASSUME NEW r \in Nat, r < c.len, c.words + r <= n, address = c.loc + 2 * r
          PROVE  c.loc <= address /\ address < c.loc + rest
      <4>1. bytes = 2 * c.words
        BY <1>4, <1>7, <3>1, <3>3 DEF Least
      <4> HIDE DEF bytes
      <4>2. 2 * r < Window - bytes /\ 2 * r < 2 * c.len
        BY <1>4, <1>7, <3>3, <4>1
      <4>3. 2 * r < rest
        BY <1>4, <4>1, <4>2 DEF Least
      <4> HIDE DEF rest
      <4> QED
        BY <1>4, <1>10, <3>3, <4>3
    <3>4. CASE InBlock(a, c, n) /\ a.words = 0
      <4>1. c.words = n /\ address = c.loc
        BY <1>4, <1>7, <1>9, <3>4 DEF InBlock
      <4> HIDE DEF bytes, rest
      <4>2. 0 \in Nat /\ 0 < c.len /\ c.words + 0 <= n /\ address = c.loc + 2 * 0
        BY <1>4, <4>1
      <4> QED
        BY <3>3, <4>2
    <3>5. CASE InLoop(a, c, n)
      <4>1. PICK r \in 0 .. c.len : c.words + r <= n /\ a.ptr = c.loc + 2 * r /\ a.words = c.len - r
        BY <3>5 DEF InLoop
      <4> HIDE DEF bytes, rest
      <4>2. CASE a.words # 0
        <5>1. r \in Nat /\ r < c.len /\ address = c.loc + 2 * r
          BY <1>4, <1>9, <4>1, <4>2
        <5> QED
          BY <3>3, <4>1, <5>1
      <4>3. CASE a.words = 0
        <5>1. 0 \in Nat /\ 0 < c.len /\ c.words + 0 <= n /\ address = c.loc + 2 * 0
          BY <1>4, <1>7, <1>9, <4>1, <4>3
        <5> QED
          BY <3>3, <5>1
      <4> QED
        BY <4>2, <4>3
    <3> QED
      BY <1>8, <3>2, <3>4, <3>5 DEF AheadOf
  <2> QED
    BY <2>1, <2>2
<1> HIDE DEF fetch, bytes, rest
<1>12. address \div PageSize \in (PagesOf(fetch.cursor, bytes) \cup PagesOf(c.loc, rest)) \cap Pages
  BY <1>4, <1>10, <1>11, PagesCover
<1> QED
  BY <1>2, <1>12

(* paula_live_prefetch aims where the core will read: when a frame begins    *)
(* with a sweep, every word that the channels play within the window is in   *)
(* the cache or requested, through the end of a block and around its loop,   *)
(* however short the loop is.                                                *)
THEOREM SweepsAlwaysCoverTheWindow == Spec => SweepsCoverTheWindow
<1>1. ASSUME TypeOK, RunningInv, BeginFrame, countdown = 0, NEW ch \in Enabled(core),
             core.chan[ch].len # 0, NEW address \in WordsAhead(core.chan[ch]), address < Limit
      PROVE  page'[address \div PageSize] # "missing"
  <2>1. page' = Requested(Sweep(core))
    BY <1>1 DEF BeginFrame
  <2>2. address \div PageSize \in Sweep(core) \cap Pages
    BY <1>1, AheadIsSwept DEF TypeOK, RunningInv
  <2> PICK p : p = address \div PageSize
    OBVIOUS
  <2> QED
    BY <2>1, <2>2 DEF Requested
<1>2. TypeOK /\ RunningInv /\ [Next]_vars =>
        [BeginFrame /\ countdown = 0 =>
           \A ch \in Enabled(core) : core.chan[ch].len # 0 =>
             \A address \in WordsAhead(core.chan[ch]) :
               address < Limit => page'[address \div PageSize] # "missing"]_vars
  BY <1>1
<1>3. Init => RunningInv
  BY DEF Init, RunningInv, Running, On, ResetCore
<1>4. TypeOK /\ RunningInv /\ [Next]_vars => RunningInv'
  BY RunningStep
<1> QED
  BY <1>2, <1>3, <1>4, TypeCorrect, PTL DEF Spec, SweepsCoverTheWindow
=============================================================================
