------------------------------ MODULE BusAccess ------------------------------
(***************************************************************************)
(* An access of the 68k to the Amiga, as the Classic protocol performs it: *)
(* cut into byte and word cycles, each write cycle followed by its report  *)
(* to the event mirror and to the sample cache (ps_classic_protocol.c).    *)
(*                                                                         *)
(* An access is a list of steps.  The GPIO handshake of a cycle is one     *)
(* step; a byte is the number of its access and its place in the value.    *)
(* A word register is written whole by a byte cycle: the byte is on both   *)
(* lanes.  The blitter is a place that is busy after a write to BlitStart, *)
(* until it is done.  The write buffer is not compiled in this program.    *)
(***************************************************************************)
EXTENDS Naturals, Sequences

CONSTANTS
  Space,        \* the size of the address space: 2^24, here even and small
  Ram,          \* the addresses of Chip RAM
  PageSize,     \* PAULA_MIRROR_PAGE_SIZE
  Audio,        \* the addresses of the mirrored registers, words
  Blitter,      \* DFF040 .. DFF075
  BlitStart,    \* the address of the register that starts a blit
  BlitWait,     \* JC2F_BLITWAIT
  Addresses,    \* the addresses accessed; they may be above Space
  Sizes,        \* the sizes of an access: 1, 2, 4, 8, 16 bytes
  Other,        \* what is read elsewhere
  MaxAccesses   \* bound: accesses

\* The bytes of the word in which a is.
WordAt(a) == {c \in 0 .. Space - 1 : c \div 2 = a \div 2}

BusAssumption ==
  /\ Space \in Nat \ (0 .. 15) /\ Space % 2 = 0
  /\ PageSize \in Nat \ {0} /\ PageSize % 2 = 0
  /\ Ram \union Audio \subseteq 0 .. Space - 1 /\ Blitter \subseteq 2 .. Space - 1
  /\ Ram \intersect Audio = {} /\ \A c \in Audio : WordAt(c) \subseteq Audio
  /\ Addresses \subseteq Nat
  /\ Sizes \subseteq {1, 2, 4, 8, 16} /\ MaxAccesses \in Nat

VARIABLES
  todo,         \* the steps left of the access
  accesses,     \* how many accesses have begun
  mem,          \* Chip RAM and the audio registers of the Amiga
  got,          \* the bytes a read has collected
  events,       \* captured writes that CPU1 has not replayed
  latest, soft, \* the mirror's shadow and the software Paula
  cache,        \* the pages of Chip RAM the sample cache holds
  blit, call,   \* the ps_write call that started the blit, or 0; the current call
  before        \* history: Chip RAM and got when the access began

busVars == <<todo, accesses, mem, got, events, latest, soft, cache, blit, call, before>>

Missing == <<>>   \* a page the cache does not hold
Pages == {a \div PageSize : a \in Ram}
PageOf(p) == {a \in Ram : a \div PageSize = p}
RamOf(m) == [a \in Ram |-> m[a]]

BusInit ==
  /\ todo = <<>> /\ accesses = 0
  /\ mem = [a \in Ram \union Audio |-> IF a \in Audio THEN 0 ELSE a + 1] /\ got = <<>>
  /\ events = <<>> /\ latest = [a \in Audio |-> 0] /\ soft = [a \in Audio |-> 0]
  /\ cache = [p \in Pages |-> Missing]
  /\ blit = 0 /\ call = 0 /\ before = [ram |-> RamOf(mem), got |-> <<>>]

-----------------------------------------------------------------------------
(* How an access is cut. *)

Step(op, a, v) == [op |-> op, addr |-> a % Space, data |-> v]
Cycle(a, v) == <<Step("write", a, v), Step("capture", a, v), Step("invalidate", a, v)>>

Write8(a, v) == Cycle(a, v)

\* Fault: an odd word is reported once more, as a word.
Write16Twice(a, v) ==
  IF a % 2 = 1
  THEN Write8(a, <<v[1]>>) \o Write8(a + 1, <<v[2]>>) \o <<Step("capture", a, v)>>
  ELSE Cycle(a, v)

Write16(a, v) ==
  IF a % 2 = 1 THEN Write8(a, <<v[1]>>) \o Write8(a + 1, <<v[2]>>) ELSE Cycle(a, v)

\* Fault: an odd long is cut into a word and a word.
Write32Words(a, v) == Write16(a, SubSeq(v, 1, 2)) \o Write16(a + 1, SubSeq(v, 3, 4))

Write32(a, v) ==
  IF a % 2 = 1
  THEN Write8(a, <<v[1]>>) \o Write16(a + 1, SubSeq(v, 2, 3)) \o Write8(a + 3, <<v[4]>>)
  ELSE Write16(a, SubSeq(v, 1, 2)) \o Write16(a + 2, SubSeq(v, 3, 4))

\* ps_write_16 and ps_write_32 wait for the blitter first.
Check(a, size) == <<Step("check", a, [i \in 1 .. size |-> 0])>>
Long(a, v) == Check(a, 4) \o Write32(a, v)
Quarter(v, n) == SubSeq(v, 4 * n - 3, 4 * n)

WriteSteps(a, v) ==
  CASE Len(v) = 1 -> Write8(a, v)
    [] Len(v) = 2 -> Check(a, 2) \o Write16(a, v)
    [] Len(v) = 4 -> Long(a, v)
    [] Len(v) = 8 -> Long(a, Quarter(v, 1)) \o Long(a + 4, Quarter(v, 2))
    [] Len(v) = 16 -> Long(a, Quarter(v, 1)) \o Long(a + 4, Quarter(v, 2))
                      \o Long(a + 8, Quarter(v, 3)) \o Long(a + 12, Quarter(v, 4))

Read8(a) == <<Step("read", a, <<0>>)>>
Read16(a) == IF a % 2 = 1 THEN Read8(a) \o Read8(a + 1) ELSE <<Step("read", a, <<0, 0>>)>>
Read32(a) ==
  IF a % 2 = 1 THEN Read8(a) \o Read16(a + 1) \o Read8(a + 3) ELSE Read16(a) \o Read16(a + 2)
Read64(a) == Read32(a) \o Read32(a + 4)

ReadSteps(a, size) ==
  CASE size = 1 -> Read8(a) [] size = 2 -> Read16(a) [] size = 4 -> Read32(a)
    [] size = 8 -> Read64(a) [] size = 16 -> Read64(a) \o Read64(a + 8)

-----------------------------------------------------------------------------
(* The accesses begin, CPU0. *)

ValueOf(n, size) == [i \in 1 .. size |-> 16 * n + i - 1]
Value(size) == ValueOf(accesses + 1, size)

Begin(steps) ==
  /\ todo = <<>> /\ accesses < MaxAccesses
  /\ accesses' = accesses + 1 /\ todo' = steps
  /\ before' = [ram |-> RamOf(mem), got |-> got] /\ call' = call + 1

StoreAccess ==
  /\ \E a \in Addresses, size \in Sizes : Begin(WriteSteps(a, Value(size)))
  /\ UNCHANGED <<mem, got, events, latest, soft, cache, blit>>

LoadAccess ==
  /\ \E a \in Addresses, size \in Sizes : Begin(ReadSteps(a, size))
  /\ got' = <<>>
  /\ UNCHANGED <<mem, events, latest, soft, cache, blit>>

-----------------------------------------------------------------------------
(* The steps. *)

Now == Head(todo)
Does(op) == todo # <<>> /\ Now.op = op /\ todo' = Tail(todo) /\ UNCHANGED <<accesses, before>>

\* Fault: the wait looks at the first address of the access only.
TouchesFirst(a, size) == a \in Blitter
Touches(a, size) == \E c \in Blitter : a <= c /\ c < a + size

\* Fault: the test of DMACONR is negated.
BlitIdleNot == blit # 0
BlitIdle == blit = 0

CheckBlit ==
  /\ Does("check")
  /\ BlitWait /\ Touches(Now.addr, Len(Now.data)) => BlitIdle
  /\ call' = call + 1
  /\ UNCHANGED <<mem, got, events, latest, soft, cache, blit>>

\* The bytes on the lanes of a write cycle: a byte is on both.
Lane(c) ==
  IF Len(Now.data) = 1 THEN Now.data[1] ELSE Now.data[c - Now.addr + 1]
Selected == IF Len(Now.data) = 1 THEN {Now.addr} ELSE WordAt(Now.addr)

WriteCycle ==
  /\ Does("write")
  /\ mem' = [c \in DOMAIN mem |->
      IF c \in Selected \/ (c \in Audio /\ c \in WordAt(Now.addr)) THEN Lane(c) ELSE mem[c]]
  /\ blit' = IF BlitStart \in WordAt(Now.addr) THEN call ELSE blit
  /\ UNCHANGED <<got, events, latest, soft, cache, call>>

\* Fault: a byte event changes its half of the word only.
WordHalf(e, file) ==
  [c \in Audio |-> IF c = e.addr \/ (Len(e.data) = 2 /\ c = e.addr + 1)
                   THEN e.data[1 + (c - e.addr)] ELSE file[c]]

\* The word an event stands for: mirror_shadow_word and poc_apply_live_event.
EventWord(e, file) ==
  [c \in Audio |-> IF c \in WordAt(e.addr)
                   THEN e.data[IF Len(e.data) = 1 THEN 1 ELSE (c % 2) + 1] ELSE file[c]]

Capture ==
  /\ Does("capture")
  /\ IF Now.addr \in Audio
     THEN latest' = EventWord(Now, latest) /\ events' = Append(events, Now)
     ELSE UNCHANGED <<latest, events>>
  /\ UNCHANGED <<mem, got, soft, cache, blit, call>>

\* Fault: the last byte is taken one too far, the first is left out.
StaleNext(a, size) == {(a + size) \div PageSize}
Stale(a, size) == {a \div PageSize, (a + size - 1) \div PageSize}

Invalidate ==
  /\ Does("invalidate")
  /\ cache' = [p \in Pages |-> IF p \in Stale(Now.addr, Len(Now.data)) THEN Missing ELSE cache[p]]
  /\ UNCHANGED <<mem, got, events, latest, soft, blit, call>>

TakenByte(c) == c

ByteAt(c) == IF c \in Ram THEN mem[c] ELSE Other

ReadCycle ==
  /\ Does("read")
  /\ got' = got \o (IF Len(Now.data) = 1 THEN <<ByteAt(TakenByte(Now.addr))>>
                    ELSE <<ByteAt(Now.addr), ByteAt(Now.addr + 1)>>)
  /\ UNCHANGED <<mem, events, latest, soft, cache, blit, call>>

-----------------------------------------------------------------------------
(* What goes on beside the accesses. *)

\* CPU1 applies an event; an odd word would be ignored.
Replay ==
  /\ events # <<>> /\ events' = Tail(events)
  /\ soft' = IF Len(Head(events).data) = 2 /\ Head(events).addr % 2 = 1
             THEN soft ELSE EventWord(Head(events), soft)
  /\ UNCHANGED <<todo, accesses, mem, got, latest, cache, blit, call, before>>

\* CPU0 loads a page, between two accesses.
LoadPage ==
  /\ todo = <<>>
  /\ \E p \in Pages : cache' = [cache EXCEPT ![p] = [a \in PageOf(p) |-> mem[a]]]
  /\ UNCHANGED <<todo, accesses, mem, got, events, latest, soft, blit, call, before>>

BlitDone ==
  /\ blit # 0 /\ blit' = 0
  /\ UNCHANGED <<todo, accesses, mem, got, events, latest, soft, cache, call, before>>

NextStep == CheckBlit \/ WriteCycle \/ Capture \/ Invalidate \/ ReadCycle

BusNext == StoreAccess \/ LoadAccess \/ NextStep \/ Replay \/ LoadPage \/ BlitDone

\* CPU0 goes on with its access, the blitter ends.
BusFairness == WF_busVars(NextStep) /\ WF_busVars(BlitDone)

BusSpec == BusInit /\ [][BusNext]_busVars
BusFairSpec == BusSpec /\ BusFairness

-----------------------------------------------------------------------------
BusTypeOK ==
  /\ accesses \in 0 .. MaxAccesses
  /\ DOMAIN mem = Ram \union Audio /\ DOMAIN latest = Audio /\ DOMAIN soft = Audio
  /\ \A i \in DOMAIN todo :
       /\ todo[i].op \in {"check", "write", "capture", "invalidate", "read"}
       /\ todo[i].addr \in 0 .. Space - 1
       /\ todo[i].op # "check" => Len(todo[i].data) \in {1, 2}
       /\ Len(todo[i].data) = 2 /\ todo[i].op # "check" => todo[i].addr % 2 = 0

(* However an access is cut, the mirror has the register file of the Amiga's *)
(* Paula when it ends: in the shadow, and in the software Paula as soon as   *)
(* the events are replayed.                                                  *)
MirrorSeesPaula ==
  todo = <<>> =>
    /\ \A c \in Audio : latest[c] = mem[c]
    /\ events = <<>> => soft = latest

(* Between two accesses a page in the sample cache is what Chip RAM holds:   *)
(* no byte cycle of a split access escapes paula_mirror_invalidate.          *)
CacheSeesRam ==
  todo = <<>> => \A p \in Pages : cache[p] # Missing =>
                   \A a \in PageOf(p) : cache[p][a] = mem[a]

(* With BLITWAIT, a word or long never writes a blitter register while a     *)
(* blit is running that the same ps_write call did not start.                *)
BlitIsWaitedFor ==
  [][\A c \in Blitter :
       (BlitWait /\ todo # <<>> /\ todo' = Tail(todo) /\ Now.op = "write"
          /\ c \in WordAt(Now.addr) /\ blit # 0 /\ Len(Now.data) = 2) => blit = call]_busVars

(* Cut into cycles or not, an access stores or returns whole bytes.          *)
Abstract == INSTANCE ByteMemory WITH
  Values <- {ValueOf(n, size) : n \in 1 .. MaxAccesses, size \in Sizes},
  ram <- IF todo = <<>> THEN RamOf(mem) ELSE before.ram,
  result <- IF todo = <<>> THEN got ELSE before.got
StoresBytes == Abstract!Spec

(* The mirror has Paula's registers, and no store escapes the sample cache.  *)
CopiesFollowTheBus == MirrorSeesPaula /\ CacheSeesRam

(* An access moves its bytes as one and does not disturb a blit.             *)
AccessesAreWhole == StoresBytes /\ BlitIsWaitedFor

(* Every access ends, the wait for the blitter included.                     *)
AccessesEnd == (todo # <<>>) ~> (todo = <<>>)

=============================================================================
