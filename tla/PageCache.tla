------------------------------ MODULE PageCache ------------------------------
(***************************************************************************)
(* The asynchronous Chip RAM sample cache of paula_mirror.c.               *)
(*                                                                         *)
(* Three activities share it without a lock:                               *)
(*   - the reader, CPU1: the renderer reads bytes, and a byte whose page   *)
(*     is not ready, or a prefetch, puts the page in the request ring;     *)
(*   - the worker, CPU0 between two translated blocks: takes one request,  *)
(*     copies the page from the physical bus and publishes it;             *)
(*   - the bus writer: stores to Chip RAM, then invalidates the page.      *)
(*                                                                         *)
(* One action is one atomic access of the code to a word that another      *)
(* activity may touch.  A compare-and-swap retried until it succeeds is    *)
(* one action: its failing rounds change nothing.  page_meta packs a       *)
(* generation and a state in one word; state and gen below are its two     *)
(* halves and are only ever read and written together.  The variables that *)
(* stand for an activity's locals go back to their first values when the   *)
(* function that owns them returns.                                        *)
(*                                                                         *)
(* Data: a byte is the number of the bus write that stored it.  Left out:  *)
(* the probe counters, and page_miss_seen, which only feeds one of them.   *)
(***************************************************************************)
EXTENDS Integers, FiniteSets

CONSTANTS
  NumPages,          \* PAGE_COUNT
  PageSize,          \* PAULA_MIRROR_PAGE_SIZE
  MaxWrites,         \* bound: bus writes of a behaviour
  ConcurrentWriter,  \* a bus write may overlap the worker (see BusWrite)
  Miss, NoRead       \* results of a read that are not a byte

Pages == 0 .. NumPages - 1
Addr == Pages \X (0 .. PageSize - 1)
Capacity == NumPages

ASSUME ConstantsAssumption ==
  /\ NumPages \in Nat \ {0}
  /\ PageSize \in Nat \ {0}
  /\ MaxWrites \in Nat
  /\ ConcurrentWriter \in BOOLEAN
  /\ Miss \notin Nat /\ NoRead \notin Nat

VARIABLES
  state, gen,             \* page_meta: the low two bits and the generation
  requests,               \* the request ring
  rhead, rtail,           \* request_head, request_tail
  pagesReady,             \* pages_ready
  shadow,                 \* the cached bytes
  chip,                   \* Chip RAM itself
  wpc, wpage, wgen, wcell,   \* the worker
  rpc, rkind, rnext, rlast,  \* the reader; rnext .. rlast: pages to request
  cursor,                 \* the byte the renderer needs next
  result,                 \* what the latest read of that byte returned
  bpc, baddr, writes,     \* the bus writer
  stable, floor           \* history: see SampleMemory

metaVars == <<state, gen>>
ringVars == <<requests, rhead, rtail>>
workerVars == <<wpc, wpage, wgen, wcell>>
readerVars == <<rpc, rkind, rnext, rlast, cursor, result, floor>>
writerVars == <<bpc, baddr, writes, chip, stable>>
vars == <<metaVars, ringVars, pagesReady, shadow, workerVars, readerVars,
          writerVars>>

States == {"missing", "queued", "loading", "ready"}
WorkerPc == {"idle", "load", "release", "reserve", "publish", "unreserve",
             "discard"}
ReaderPc == {"idle", "request", "enqueue", "fetch"}
WriterPc == {"idle", "invalidate", "count"}

\* The state paula_mirror_enable leaves; every byte of RAM is version 0.
Init ==
  /\ state = [p \in Pages |-> "missing"] /\ gen = [p \in Pages |-> 0]
  /\ requests = [i \in 0 .. Capacity - 1 |-> 0] /\ rhead = 0 /\ rtail = 0
  /\ pagesReady = 0
  /\ chip = [a \in Addr |-> 0] /\ shadow = chip /\ stable = chip
  /\ wpc = "idle" /\ wpage = 0 /\ wgen = 0 /\ wcell = 0
  /\ rpc = "idle" /\ rkind = "prefetch" /\ rnext = 0 /\ rlast = 0
  /\ cursor = <<0, 0>> /\ result = NoRead /\ floor = 0
  /\ bpc = "idle" /\ baddr = <<0, 0>> /\ writes = 0

-----------------------------------------------------------------------------
(* The reader, CPU1.                                                       *)

\* The last 64 bytes of a page warm the next one; here the last byte does.
NearEnd(a) == a[2] = PageSize - 1

\* Fault: the page after the last one is warmed too.
UnboundedWarmsNext(a) == NearEnd(a)
WarmsNext(a) == NearEnd(a) /\ a[1] + 1 < NumPages

\* paula_mirror_read_byte up to its calls of request_page.
BeginRead ==
  LET page == cursor[1]
      hit == state[page] = "ready"
      first == IF hit THEN page + 1 ELSE page
  IN
  /\ rpc = "idle"
  /\ rkind' = IF hit THEN "hit" ELSE "miss"
  /\ rpc' = IF hit /\ ~WarmsNext(cursor) THEN "fetch" ELSE "request"
  /\ rnext' = IF rpc' = "fetch" THEN 0 ELSE first
  /\ rlast' = rnext'
  /\ floor' = stable[cursor]
  /\ UNCHANGED <<metaVars, ringVars, pagesReady, shadow, workerVars,
                 writerVars, cursor, result>>

\* paula_mirror_prefetch: the pages of a range of bytes, in order.
Prefetch(first, last) ==
  /\ rpc = "idle"
  /\ rpc' = "request" /\ rkind' = "prefetch"
  /\ rnext' = first /\ rlast' = last
  /\ UNCHANGED <<metaVars, ringVars, pagesReady, shadow, workerVars,
                 writerVars, cursor, result, floor>>

ReaderReturns(answer) ==
  /\ rpc' = "idle" /\ rkind' = "prefetch" /\ rnext' = 0 /\ rlast' = 0
  /\ floor' = 0
  /\ result' = answer
  /\ UNCHANGED cursor

\* One request_page call has returned: the next page of the range, or what
\* the caller does after its requests.
AfterRequest ==
  IF rnext = rlast /\ rkind # "hit"
  THEN ReaderReturns(IF rkind = "miss" THEN Miss ELSE result)
  ELSE /\ rpc' = IF rnext < rlast THEN "request" ELSE "fetch"
       /\ rnext' = IF rnext < rlast THEN rnext + 1 ELSE rnext
       /\ UNCHANGED <<rkind, rlast, cursor, floor, result>>

\* Fault: a page that is being loaded is queued again.
NotReady(s) == s \in {"missing", "loading"}

\* The page states request_page queues.
Requestable(s) == s = "missing"

\* request_page finds the page queued, loading or ready and returns.
AlreadyRequested ==
  /\ rpc = "request"
  /\ ~Requestable(state[rnext])
  /\ AfterRequest
  /\ UNCHANGED <<metaVars, ringVars, pagesReady, shadow, workerVars,
                 writerVars>>

\* request_page claims a missing page with its compare-and-swap ...
Claim ==
  /\ rpc = "request"
  /\ Requestable(state[rnext])
  /\ state' = [state EXCEPT ![rnext] = "queued"]
  /\ rpc' = "enqueue"
  /\ UNCHANGED <<gen, ringVars, pagesReady, shadow, workerVars, rkind, rnext,
                 rlast, cursor, result, floor, writerVars>>

\* ... and then fills the slot at the head and publishes it.  The slot is
\* not one the worker may read (RequestRingBounded), so the two stores are
\* one step.
Enqueue ==
  /\ rpc = "enqueue"
  /\ requests' = [requests EXCEPT ![rhead % Capacity] = rnext]
  /\ rhead' = rhead + 1
  /\ AfterRequest
  /\ UNCHANGED <<metaVars, rtail, pagesReady, shadow, workerVars, writerVars>>

\* The load of the byte, some time after the page was seen ready.
Fetch ==
  /\ rpc = "fetch"
  /\ ReaderReturns(shadow[cursor])
  /\ UNCHANGED <<metaVars, ringVars, pagesReady, shadow, workerVars,
                 writerVars>>

\* DMA advances, or a register write moves a channel (paula.cpp, external to
\* this component).  A frame that missed is rendered again, from the cursor
\* it had.
MoveCursor ==
  /\ rpc = "idle"
  /\ cursor' \in Addr
  /\ result' = NoRead
  /\ UNCHANGED <<metaVars, ringVars, pagesReady, shadow, workerVars, rpc,
                 rkind, rnext, rlast, floor, writerVars>>

-----------------------------------------------------------------------------
(* The worker: paula_mirror_service on CPU0.                               *)

WorkerReturns == wpc' = "idle" /\ wpage' = 0 /\ wgen' = 0 /\ wcell' = 0

\* Fault: the loading word is built without the generation.
NoGeneration(page) == 0
TakenGeneration(page) == gen[page]

\* service_pending and the first compare-and-swap.  A request for a page
\* that is no longer queued is dropped.
ServiceTake ==
  LET page == requests[rtail % Capacity] IN
  /\ wpc = "idle"
  /\ rtail # rhead
  /\ ConcurrentWriter \/ bpc = "idle"
  /\ IF state[page] = "queued"
     THEN /\ state' = [state EXCEPT ![page] = "loading"]
          /\ wpc' = "load" /\ wpage' = page /\ wcell' = 0
          /\ wgen' = TakenGeneration(page)
          /\ UNCHANGED rtail
     ELSE /\ rtail' = rtail + 1
          /\ UNCHANGED <<state, workerVars>>
  /\ UNCHANGED <<gen, requests, rhead, pagesReady, shadow, readerVars,
                 writerVars>>

\* One byte of the page goes from the bus to the shadow.
ServiceLoad ==
  /\ wpc = "load"
  /\ shadow' = [shadow EXCEPT ![<<wpage, wcell>>] = chip[<<wpage, wcell>>]]
  /\ wcell' = wcell + 1
  /\ wpc' = IF wcell + 1 = PageSize THEN "release" ELSE "load"
  /\ UNCHANGED <<metaVars, ringVars, pagesReady, wpage, wgen, readerVars,
                 writerVars>>

\* "Release the request slot before the page may be queued again."
ServiceRelease ==
  /\ wpc = "release"
  /\ rtail' = rtail + 1
  /\ wpc' = "reserve"
  /\ UNCHANGED <<metaVars, requests, rhead, pagesReady, shadow, wpage, wgen,
                 wcell, readerVars, writerVars>>

\* "Reserve the count before publication."
ServiceReserve ==
  /\ wpc = "reserve"
  /\ pagesReady' = pagesReady + 1
  /\ wpc' = "publish"
  /\ UNCHANGED <<metaVars, ringVars, shadow, wpage, wgen, wcell, readerVars,
                 writerVars>>

\* Fault: published whatever the generation has become.
LoadedIsCurrent(s, g) == s = "loading"
Publishable(s, g) == s = "loading" /\ g = wgen

\* The publishing compare-and-swap: ready only at the generation it loaded.
ServicePublish ==
  /\ wpc = "publish"
  /\ IF Publishable(state[wpage], gen[wpage])
     THEN state' = [state EXCEPT ![wpage] = "ready"] /\ WorkerReturns
     ELSE wpc' = "unreserve" /\ UNCHANGED <<state, wpage, wgen, wcell>>
  /\ UNCHANGED <<gen, ringVars, pagesReady, shadow, readerVars, writerVars>>

ServiceUnreserve ==
  /\ wpc = "unreserve"
  /\ pagesReady' = pagesReady - 1
  /\ wpc' = "discard"
  /\ UNCHANGED <<metaVars, ringVars, shadow, wpage, wgen, wcell, readerVars,
                 writerVars>>

\* Fault: the page stays loading.
KeepLoading(s) == s
Discarded(s) == IF s = "loading" THEN "missing" ELSE s

\* "A CPU write changed the generation.  Discard the stale snapshot."
ServiceDiscard ==
  /\ wpc = "discard"
  /\ state' = [state EXCEPT ![wpage] = Discarded(@)]
  /\ WorkerReturns
  /\ UNCHANGED <<gen, ringVars, pagesReady, shadow, readerVars, writerVars>>

-----------------------------------------------------------------------------
(* The bus writer: ps_write_8_int and ps_write_16_int.                     *)

\* The bus cycle itself.  The 68k code runs on CPU0, where no write starts
\* while the worker runs; ConcurrentWriter lifts that, for the writers on
\* other cores (the fault handlers are installed there too) that the
\* generations are for.  A word or byte cycle never spans two pages.
BusWrite(a) ==
  /\ bpc = "idle"
  /\ writes < MaxWrites
  /\ ConcurrentWriter \/ wpc = "idle"
  /\ chip' = [chip EXCEPT ![a] = writes + 1]
  /\ writes' = writes + 1
  /\ baddr' = a
  /\ bpc' = "invalidate"
  /\ UNCHANGED <<metaVars, ringVars, pagesReady, shadow, workerVars,
                 readerVars, stable>>

\* Faults: an invalidated page loses its place in the ring, or stays ready.
DropUnready(s) == "missing"
KeepReady(s) == s

\* What an invalidation makes of a page: a queued or loading page keeps its
\* place and is marked by the generation.
Invalidated(s) == IF s = "ready" THEN "missing" ELSE s

\* Fault: any invalidated page is taken off the count.
UncountsAny(s) == s # "missing"
Uncounts(s) == s = "ready"

\* paula_mirror_invalidate's compare-and-swap on the page of the write.
Invalidate ==
  LET page == baddr[1] IN
  /\ bpc = "invalidate"
  /\ state' = [state EXCEPT ![page] = Invalidated(@)]
  /\ gen' = [gen EXCEPT ![page] = IF state[page] = "missing" THEN @ ELSE @ + 1]
  /\ bpc' = IF Uncounts(state[page]) THEN "count" ELSE "idle"
  /\ stable' = [stable EXCEPT ![baddr] = chip[baddr]]
  /\ baddr' = <<0, 0>>
  /\ UNCHANGED <<ringVars, pagesReady, shadow, workerVars, readerVars, writes,
                 chip>>

\* ... and the counter it decrements afterwards.
InvalidateCount ==
  /\ bpc = "count"
  /\ pagesReady' = pagesReady - 1
  /\ bpc' = "idle"
  /\ UNCHANGED <<metaVars, ringVars, shadow, workerVars, readerVars, baddr,
                 writes, chip, stable>>

-----------------------------------------------------------------------------
ReaderStep == AlreadyRequested \/ Claim \/ Enqueue \/ Fetch

WorkerStep ==
  \/ ServiceTake \/ ServiceLoad \/ ServiceRelease \/ ServiceReserve
  \/ ServicePublish \/ ServiceUnreserve \/ ServiceDiscard

WriterStep == Invalidate \/ InvalidateCount

Next ==
  \/ BeginRead \/ MoveCursor \/ ReaderStep
  \/ \E first, last \in Pages : first <= last /\ Prefetch(first, last)
  \/ WorkerStep
  \/ \E a \in Addr : BusWrite(a)
  \/ WriterStep

Spec == Init /\ [][Next]_vars

(***************************************************************************)
(* MainLoop polls the worker before every dispatch and the worker never    *)
(* waits; a started bus write finishes; the render loop never blocks and   *)
(* puts at most one sweep of prefetches before each frame it renders, so a *)
(* read is not put off for ever by prefetches (hence SF).  Nothing is      *)
(* assumed of bus writes starting or of the cursor moving.                 *)
(***************************************************************************)
FairSpec ==
  /\ Spec
  /\ WF_vars(WorkerStep) /\ WF_vars(WriterStep) /\ WF_vars(ReaderStep)
  /\ SF_vars(BeginRead)

-----------------------------------------------------------------------------
(* Properties.                                                             *)

\* The values the variables may take; a page to request exists.
TypeOK ==
  /\ state \in [Pages -> States] /\ gen \in [Pages -> Nat]
  /\ requests \in [0 .. Capacity - 1 -> Pages]
  /\ rhead \in Nat /\ rtail \in Nat /\ pagesReady \in Int
  /\ chip \in [Addr -> Nat] /\ shadow \in [Addr -> Nat]
  /\ stable \in [Addr -> Nat]
  /\ wpc \in WorkerPc /\ wpage \in Pages /\ wgen \in Nat
  /\ wcell \in 0 .. PageSize /\ (wpc = "load" => wcell < PageSize)
  /\ rpc \in ReaderPc /\ rkind \in {"hit", "miss", "prefetch"}
  /\ rnext \in Pages /\ rlast \in Pages
  /\ cursor \in Addr /\ result \in Nat \cup {Miss, NoRead} /\ floor \in Nat
  /\ bpc \in WriterPc /\ baddr \in Addr /\ writes \in 0 .. MaxWrites

\* The occupied slots of the request ring, and the pages they hold.
Slots == rtail .. rhead - 1
Entry(i) == requests[i % Capacity]

WorkerHoldsSlot == wpc \in {"load", "release"}

\* The ring holds at most one request per page, so its capacity, one slot
\* per page, is never exceeded, not even by the request being enqueued:
\* request_page stores into it without looking at the tail.
RequestRingBounded ==
  /\ rtail <= rhead
  /\ rhead - rtail + (IF rpc = "enqueue" THEN 1 ELSE 0) <= Capacity
  /\ \A i, j \in Slots : Entry(i) = Entry(j) => i = j

\* No page is ever stuck: a queued page is the one request_page is about to
\* enqueue or it is in the ring, a loading page is the worker's, and every
\* slot holds a queued page, except the slot of the page being loaded.
RequestsMatchStates ==
  /\ \A p \in Pages : state[p] = "queued" =>
       (rpc = "enqueue" /\ rnext = p) \/ (\E i \in Slots : Entry(i) = p)
  /\ \A p \in Pages : state[p] = "loading" <=> (wpc # "idle" /\ wpage = p)
  /\ \A i \in Slots : IF i = rtail /\ WorkerHoldsSlot
                      THEN Entry(i) = wpage ELSE state[Entry(i)] = "queued"
  /\ WorkerHoldsSlot => rtail < rhead

\* pages_ready counts the ready pages, plus the one the worker has reserved
\* and the one an invalidation has yet to uncount: it never underflows.
ReadyAccounting ==
  pagesReady = Cardinality({p \in Pages : state[p] = "ready"})
               + (IF wpc \in {"publish", "unreserve"} THEN 1 ELSE 0)
               + (IF bpc = "count" THEN 1 ELSE 0)

\* "Rejection of stale publications": a ready page never holds a byte that a
\* write which has completed replaced.
ReadyIsFresh ==
  \A a \in Addr : state[a[1]] = "ready" => shadow[a] >= stable[a]

\* While bus writes and the worker share CPU0, no loaded page is thrown away.
SerialNeverDiscards == wpc \notin {"unreserve", "discard"}

\* The cache behaves as the regular memory it stands for.
Memory == INSTANCE SampleMemory WITH
  mem <- chip, open <- rpc # "idle" /\ rkind # "prefetch",
  addr <- cursor, answer <- result

ReadsAreRegular == Memory!Spec

\* Every request is answered: the page becomes ready, or missing again if a
\* write caught it.
RequestsAreAnswered ==
  \A p \in Pages :
    state[p] \in {"queued", "loading"} ~> state[p] \in {"ready", "missing"}

\* A renderer that stays at one byte, as it does while its frames miss,
\* eventually reads it (bus writes being finitely many).
CursorIsServed ==
  \A a \in Addr : (cursor = a /\ result \in {Miss, NoRead})
                   ~> (cursor # a \/ result \in Nat)
=============================================================================
