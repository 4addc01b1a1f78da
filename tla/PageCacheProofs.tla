--------------------------- MODULE PageCacheProofs ---------------------------
(* Proofs about PageCache, for every value of its constants. *)
EXTENDS PageCache, FiniteSetTheorems, TLAPS

\* The mutually exclusive cases of a step, one per action of PageCache.
LEMMA StepCases ==
  ASSUME [Next]_vars
  PROVE  \/ BeginRead \/ MoveCursor
         \/ AlreadyRequested \/ Claim \/ Enqueue \/ Fetch
         \/ \E first, last \in Pages : first <= last /\ Prefetch(first, last)
         \/ ServiceTake \/ ServiceLoad \/ ServiceRelease \/ ServiceReserve
         \/ ServicePublish \/ ServiceUnreserve \/ ServiceDiscard
         \/ \E a \in Addr : BusWrite(a)
         \/ Invalidate \/ InvalidateCount
         \/ UNCHANGED vars
BY DEF Next, ReaderStep, WorkerStep, WriterStep

\* A slot index is a slot: the ring's index arithmetic stays in its array.
LEMMA SlotInRing ==
  ASSUME NEW i \in Nat PROVE i % Capacity \in 0 .. Capacity - 1
BY ConstantsAssumption DEF Capacity

\* An address is a page and a byte of it.
LEMMA AddrParts ==
  /\ \A a \in Addr : a[1] \in Pages /\ a[2] \in 0 .. PageSize - 1
  /\ \A p \in Pages : \A c \in 0 .. PageSize - 1 :
       <<p, c>> \in Addr /\ <<p, c>>[1] = p /\ <<p, c>>[2] = c
  /\ 0 \in Pages /\ 0 \in 0 .. PageSize - 1
BY ConstantsAssumption DEF Addr, Pages

\* Type correctness: in particular a page to request always exists, the
\* worker copies the bytes of its page and no others.
THEOREM TypeCorrect == Spec => []TypeOK
<1>1. Init => TypeOK
  BY ConstantsAssumption
  DEF Init, TypeOK, Pages, Addr, Capacity, States, WorkerPc, ReaderPc, WriterPc
<1>2. TypeOK /\ [Next]_vars => TypeOK'
  <2> SUFFICES ASSUME TypeOK, [Next]_vars PROVE TypeOK'
    OBVIOUS
  <2> USE DEF metaVars, ringVars, workerVars, readerVars, writerVars
  <2>1. CASE BeginRead
    <3>1. cursor[1] \in Pages /\ stable[cursor] \in Nat
      BY AddrParts DEF TypeOK
    <3>2. rnext' \in Pages /\ rlast' \in Pages
      BY <2>1, <3>1, ConstantsAssumption DEF BeginRead, WarmsNext, NearEnd, Pages
    <3> QED
      BY <2>1, <3>1, <3>2 DEF BeginRead, TypeOK, ReaderPc
  <2>2. CASE MoveCursor
    BY <2>2 DEF MoveCursor, TypeOK
  <2>3. CASE AlreadyRequested
    <3>0. rnext \in Pages /\ rlast \in Pages
      BY DEF TypeOK
    <3>1. rnext' \in Pages /\ rlast' \in Pages
      BY <2>3, <3>0, ConstantsAssumption
      DEF AlreadyRequested, AfterRequest, ReaderReturns, Pages
    <3>2. rpc' \in ReaderPc /\ rkind' \in {"hit", "miss", "prefetch"}
          /\ result' \in Nat \cup {Miss, NoRead} /\ floor' \in Nat
      BY <2>3 DEF AlreadyRequested, AfterRequest, ReaderReturns, TypeOK, ReaderPc
    <3>3. UNCHANGED <<metaVars, ringVars, pagesReady, shadow, workerVars,
                      writerVars, cursor>>
      BY <2>3 DEF AlreadyRequested, AfterRequest, ReaderReturns, TypeOK, ReaderPc
    <3> QED
      BY <3>1, <3>2, <3>3 DEF TypeOK
  <2>4. CASE Claim
    BY <2>4 DEF Claim, TypeOK, States, ReaderPc
  <2>5. CASE Enqueue
    <3>0. rnext \in Pages /\ rlast \in Pages
      BY DEF TypeOK
    <3>1. rnext' \in Pages /\ rlast' \in Pages
      BY <2>5, <3>0, ConstantsAssumption
      DEF Enqueue, AfterRequest, ReaderReturns, Pages
    <3>2. rpc' \in ReaderPc /\ rkind' \in {"hit", "miss", "prefetch"}
          /\ result' \in Nat \cup {Miss, NoRead} /\ floor' \in Nat
      BY <2>5 DEF Enqueue, AfterRequest, ReaderReturns, TypeOK, ReaderPc
    <3>3. UNCHANGED <<metaVars, rtail, pagesReady, shadow, workerVars,
                      writerVars, cursor>>
      BY <2>5 DEF Enqueue, AfterRequest, ReaderReturns, TypeOK, ReaderPc
    <3>4. requests \in [0 .. Capacity - 1 -> Pages] /\ rhead \in Nat
      BY DEF TypeOK
    <3>5. requests' \in [0 .. Capacity - 1 -> Pages] /\ rhead' \in Nat
      BY <2>5, <3>0, <3>4, SlotInRing DEF Enqueue
    <3> QED
      BY <3>1, <3>2, <3>3, <3>5 DEF TypeOK
  <2>6. CASE Fetch
    BY <2>6, AddrParts DEF Fetch, ReaderReturns, TypeOK, ReaderPc
  <2>7. CASE \E first, last \in Pages : first <= last /\ Prefetch(first, last)
    BY <2>7 DEF Prefetch, TypeOK, ReaderPc
  <2>8. CASE ServiceTake
    <3>1. requests[rtail % Capacity] \in Pages
      BY SlotInRing DEF TypeOK
    <3>2. CASE state[requests[rtail % Capacity]] = "queued"
      <4>1. /\ wpc' = "load" /\ wpage' = requests[rtail % Capacity]
            /\ wgen' = gen[requests[rtail % Capacity]] /\ wcell' = 0
            /\ state' = [state EXCEPT ![requests[rtail % Capacity]] = "loading"]
            /\ UNCHANGED <<gen, ringVars, pagesReady, shadow, readerVars,
                           writerVars>>
        BY <2>8, <3>2 DEF ServiceTake, TakenGeneration
      <4>2. state' \in [Pages -> States]
        BY <4>1 DEF TypeOK, States
      <4>3. wpage' \in Pages /\ wgen' \in Nat /\ wcell' \in 0 .. PageSize
            /\ wcell' < PageSize
        BY <3>1, <4>1, ConstantsAssumption DEF TypeOK
      <4> QED
        BY <4>1, <4>2, <4>3 DEF TypeOK, WorkerPc
    <3>3. CASE state[requests[rtail % Capacity]] # "queued"
      BY <2>8, <3>3 DEF ServiceTake, TypeOK
    <3> QED
      BY <3>2, <3>3
  <2>9. CASE ServiceLoad
    <3>1. wcell + 1 \in 0 .. PageSize
          /\ (wcell + 1 # PageSize => wcell + 1 < PageSize)
      BY <2>9, ConstantsAssumption DEF ServiceLoad, TypeOK
    <3>2. chip[<<wpage, wcell>>] \in Nat
      BY <2>9, AddrParts, ConstantsAssumption DEF ServiceLoad, TypeOK
    <3> QED
      BY <2>9, <3>1, <3>2 DEF ServiceLoad, TypeOK, WorkerPc
  <2>10. CASE ServiceRelease
    BY <2>10 DEF ServiceRelease, TypeOK, WorkerPc
  <2>11. CASE ServiceReserve
    BY <2>11 DEF ServiceReserve, TypeOK, WorkerPc
  <2>12. CASE ServicePublish
    <3>1. CASE Publishable(state[wpage], gen[wpage])
      <4>1. 0 \in Pages /\ 0 \in 0 .. PageSize
        BY AddrParts, ConstantsAssumption
      <4>2. state' \in [Pages -> States]
        BY <2>12, <3>1 DEF ServicePublish, TypeOK, States
      <4> QED
        BY <2>12, <3>1, <4>1, <4>2
        DEF ServicePublish, WorkerReturns, TypeOK, WorkerPc
    <3>2. CASE ~Publishable(state[wpage], gen[wpage])
      BY <2>12, <3>2 DEF ServicePublish, TypeOK, WorkerPc
    <3> QED
      BY <3>1, <3>2
  <2>13. CASE ServiceUnreserve
    BY <2>13 DEF ServiceUnreserve, TypeOK, WorkerPc
  <2>14. CASE ServiceDiscard
    <3>1. state' \in [Pages -> States]
      BY <2>14 DEF ServiceDiscard, Discarded, TypeOK, States
    <3>2. wpc' = "idle" /\ wpage' = 0 /\ wgen' = 0 /\ wcell' = 0
          /\ UNCHANGED <<gen, ringVars, pagesReady, shadow, readerVars,
                         writerVars>>
      BY <2>14 DEF ServiceDiscard, WorkerReturns
    <3>3. 0 \in Pages /\ 0 \in 0 .. PageSize
      BY ConstantsAssumption DEF Pages
    <3> QED
      BY <3>1, <3>2, <3>3 DEF TypeOK, WorkerPc
  <2>15. CASE \E a \in Addr : BusWrite(a)
    BY <2>15, ConstantsAssumption DEF BusWrite, TypeOK, WriterPc
  <2>16. CASE Invalidate
    <3>1. <<0, 0>> \in Addr
      BY AddrParts
    <3>2. chip[baddr] \in Nat /\ baddr[1] \in Pages
      BY AddrParts DEF TypeOK
    <3>3. state' \in [Pages -> States]
      BY <2>16, <3>2 DEF Invalidate, Invalidated, TypeOK, States
    <3>4. gen' \in [Pages -> Nat]
      BY <2>16, <3>2 DEF Invalidate, TypeOK
    <3> QED
      BY <2>16, <3>1, <3>2, <3>3, <3>4 DEF Invalidate, TypeOK, WriterPc
  <2>17. CASE InvalidateCount
    BY <2>17 DEF InvalidateCount, TypeOK, WriterPc
  <2>18. CASE UNCHANGED vars
    BY <2>18 DEF vars, TypeOK
  <2> QED
    BY StepCases, <2>1, <2>2, <2>3, <2>4, <2>5, <2>6, <2>7, <2>8, <2>9, <2>10,
       <2>11, <2>12, <2>13, <2>14, <2>15, <2>16, <2>17, <2>18
<1> QED
  BY <1>1, <1>2, PTL DEF Spec

-----------------------------------------------------------------------------
(* Freshness.  ReadyIsFresh is not inductive: publication makes it true of  *)
(* a page only because the bytes copied so far stay fresh for as long as    *)
(* the generation is the one the worker started from.                       *)

\* Versions only grow, and neither the cache nor the history is ahead of RAM.
VersionsOrdered ==
  \A a \in Addr : stable[a] <= chip[a] /\ shadow[a] <= chip[a]
                  /\ chip[a] <= writes

\* The copied prefix of the page being loaded is fresh, unless a completed
\* write has moved the generation past the worker's.
PrefixIsFresh ==
  /\ wpc # "idle" => wgen <= gen[wpage]
  /\ wpc \in {"release", "reserve", "publish"} => wcell = PageSize
  /\ (wpc # "idle" /\ state[wpage] = "loading" /\ gen[wpage] = wgen) =>
       \A c \in 0 .. wcell - 1 :
         shadow[<<wpage, c>>] >= stable[<<wpage, c>>]

\* A read that saw its page ready will load a byte no older than its floor.
HitIsFresh == (rkind = "hit" /\ rpc # "idle") => shadow[cursor] >= floor

FreshInv == VersionsOrdered /\ PrefixIsFresh /\ HitIsFresh /\ ReadyIsFresh

\* The steps that touch the versions: every other one leaves them alone.
LEMMA VersionFootprint ==
  ASSUME [Next]_vars
  PROVE  \/ ServiceLoad
         \/ \E a \in Addr : BusWrite(a)
         \/ Invalidate
         \/ UNCHANGED <<shadow, chip, stable, writes>>
BY StepCases
   DEF BeginRead, MoveCursor, AlreadyRequested, Claim, Enqueue, Fetch, Prefetch,
       ServiceTake, ServiceRelease, ServiceReserve, ServicePublish,
       ServiceUnreserve, ServiceDiscard, InvalidateCount, writerVars, vars

LEMMA VersionsStep ==
  ASSUME TypeOK, VersionsOrdered, [Next]_vars
  PROVE  VersionsOrdered'
<1>1. CASE ServiceLoad
  <2>1. \A a \in Addr : shadow'[a] = shadow[a] \/ shadow'[a] = chip[a]
    BY <1>1 DEF ServiceLoad, TypeOK
  <2>2. UNCHANGED <<chip, stable, writes>> /\ \A a \in Addr : chip[a] \in Nat
    BY <1>1 DEF ServiceLoad, writerVars, TypeOK
  <2> QED
    BY <2>1, <2>2 DEF VersionsOrdered
<1>2. CASE \E a \in Addr : BusWrite(a)
  <2>1. PICK b \in Addr : BusWrite(b)
    BY <1>2
  <2>2. \A a \in Addr : chip'[a] = chip[a] \/ chip'[a] = writes + 1
    <3>1. chip' = [chip EXCEPT ![b] = writes + 1] /\ DOMAIN chip = Addr
      BY <2>1 DEF BusWrite, TypeOK
    <3> QED
      BY <3>1
  <2>3. /\ writes' = writes + 1 /\ writes \in Nat
        /\ UNCHANGED <<shadow, stable>>
    BY <2>1 DEF BusWrite, TypeOK
  <2>4. \A a \in Addr : /\ chip[a] \in Nat /\ shadow[a] \in Nat
                        /\ stable[a] \in Nat
    BY DEF TypeOK
  <2>5. ASSUME NEW a \in Addr
        PROVE  stable[a] <= chip'[a] /\ shadow[a] <= chip'[a]
               /\ chip'[a] <= writes'
    <3>1. /\ stable[a] <= chip[a] /\ shadow[a] <= chip[a]
          /\ chip[a] <= writes
      BY DEF VersionsOrdered
    <3> QED
      BY <2>2, <2>3, <2>4, <3>1
  <2> QED
    BY <2>3, <2>5 DEF VersionsOrdered
<1>3. CASE Invalidate
  <2>1. \A a \in Addr : stable'[a] = stable[a] \/ stable'[a] = chip[a]
    BY <1>3 DEF Invalidate, TypeOK
  <2> QED
    BY <1>3, <2>1 DEF Invalidate, VersionsOrdered, TypeOK
<1>4. CASE UNCHANGED <<shadow, chip, stable, writes>>
  BY <1>4 DEF VersionsOrdered
<1> QED
  BY <1>1, <1>2, <1>3, <1>4, VersionFootprint

\* The steps that touch a page, its generation, its bytes or the worker.
LEMMA LoadFootprint ==
  ASSUME [Next]_vars
  PROVE  \/ Claim \/ ServiceTake \/ ServiceLoad \/ ServiceRelease
         \/ ServiceReserve \/ ServicePublish \/ ServiceUnreserve
         \/ ServiceDiscard \/ Invalidate
         \/ UNCHANGED <<metaVars, shadow, stable, workerVars>>
BY StepCases
   DEF BeginRead, MoveCursor, AlreadyRequested, Enqueue, Fetch, Prefetch,
       BusWrite, InvalidateCount, writerVars, vars

\* The bytes copied so far are fresh while the generation stands.
LEMMA PrefixStep ==
  ASSUME TypeOK, VersionsOrdered, PrefixIsFresh, [Next]_vars
  PROVE  PrefixIsFresh'
<1>1. CASE Claim
  <2>1. state'[wpage] = "loading" => state[wpage] = "loading"
    BY <1>1 DEF Claim, Requestable, TypeOK
  <2> QED
    BY <1>1, <2>1 DEF Claim, PrefixIsFresh, workerVars, writerVars
<1>2. CASE ServiceTake
  <2>1. CASE state[requests[rtail % Capacity]] = "queued"
    <3> DEFINE page == requests[rtail % Capacity]
    <3>1. page \in Pages /\ gen[page] \in Nat
      BY SlotInRing DEF TypeOK
    <3>2. wpc' = "load" /\ wpage' = page /\ wgen' = gen[page] /\ wcell' = 0
          /\ gen' = gen
      BY <1>2, <2>1 DEF ServiceTake, TakenGeneration
    <3> QED
      BY <3>1, <3>2 DEF PrefixIsFresh
  <2>2. CASE state[requests[rtail % Capacity]] # "queued"
    BY <1>2, <2>2 DEF ServiceTake, PrefixIsFresh, workerVars, writerVars
  <2> QED
    BY <2>1, <2>2
<1>3. CASE ServiceLoad
  <2>1. /\ wpc = "load" /\ wpc' \in {"load", "release"} /\ wcell' = wcell + 1
        /\ wpc' = "release" => wcell' = PageSize
        /\ UNCHANGED <<state, gen, stable, wpage, wgen>>
    BY <1>3 DEF ServiceLoad, metaVars, writerVars
  <2>2. wpage \in Pages /\ wcell \in Nat /\ wcell < PageSize
        /\ PageSize \in Nat
    BY <2>1, ConstantsAssumption DEF TypeOK
  <2>3. SUFFICES ASSUME state[wpage] = "loading", gen[wpage] = wgen,
                        NEW c \in 0 .. wcell
                 PROVE  shadow'[<<wpage, c>>] >= stable[<<wpage, c>>]
    BY <2>1, <2>2 DEF PrefixIsFresh
  <2>4. <<wpage, c>> \in Addr /\ <<wpage, wcell>> \in Addr
    BY <2>2, AddrParts
  <2>5. CASE c = wcell
    <3>1. shadow'[<<wpage, c>>] = chip[<<wpage, c>>]
      BY <1>3, <2>4, <2>5 DEF ServiceLoad, TypeOK
    <3> QED
      BY <2>4, <3>1 DEF VersionsOrdered, TypeOK
  <2>6. CASE c # wcell
    <3>1. <<wpage, c>> # <<wpage, wcell>>
      BY <2>6
    <3>2. shadow'[<<wpage, c>>] = shadow[<<wpage, c>>]
      BY <1>3, <2>4, <3>1 DEF ServiceLoad, TypeOK
    <3> QED
      BY <2>1, <2>2, <2>3, <2>6, <3>2 DEF PrefixIsFresh
  <2> QED
    BY <2>5, <2>6
<1>4. CASE ServiceRelease
  BY <1>4 DEF ServiceRelease, PrefixIsFresh, TypeOK, metaVars, writerVars
<1>5. CASE ServiceReserve
  BY <1>5 DEF ServiceReserve, PrefixIsFresh, TypeOK, metaVars, writerVars
<1>6. CASE ServicePublish
  <2>1. CASE Publishable(state[wpage], gen[wpage])
    BY <1>6, <2>1 DEF ServicePublish, WorkerReturns, PrefixIsFresh
  <2>2. CASE ~Publishable(state[wpage], gen[wpage])
    BY <1>6, <2>2 DEF ServicePublish, PrefixIsFresh, writerVars
  <2> QED
    BY <2>1, <2>2
<1>7. CASE ServiceUnreserve
  BY <1>7 DEF ServiceUnreserve, PrefixIsFresh, metaVars, writerVars
<1>8. CASE ServiceDiscard
  BY <1>8 DEF ServiceDiscard, WorkerReturns, PrefixIsFresh
<1>9. CASE Invalidate
  <2>1. /\ UNCHANGED <<wpc, wpage, wgen, wcell, shadow>>
        /\ baddr \in Addr /\ baddr[1] \in Pages /\ wpage \in Pages
        /\ wgen \in Nat /\ gen \in [Pages -> Nat]
    BY <1>9, AddrParts DEF Invalidate, workerVars, TypeOK
  <2>2. gen'[wpage] = gen[wpage] \/ gen'[wpage] = gen[wpage] + 1
    BY <1>9, <2>1 DEF Invalidate
  <2>3. ASSUME wpc # "idle", state'[wpage] = "loading", gen'[wpage] = wgen
        PROVE  state[wpage] = "loading" /\ gen[wpage] = wgen
               /\ baddr[1] # wpage
    <3>1. state[wpage] = "loading"
      BY <1>9, <2>1, <2>3 DEF Invalidate, Invalidated, TypeOK
    <3>2. gen[wpage] = wgen
      BY <2>1, <2>2, <2>3 DEF PrefixIsFresh
    <3>3. baddr[1] = wpage => gen'[wpage] = gen[wpage] + 1
      BY <1>9, <2>1, <3>1 DEF Invalidate
    <3> QED
      BY <2>1, <2>3, <3>1, <3>2, <3>3
  <2>4. \A c \in 0 .. PageSize - 1 : baddr[1] # wpage =>
          stable'[<<wpage, c>>] = stable[<<wpage, c>>]
    BY <1>9, <2>1, AddrParts DEF Invalidate, TypeOK
  <2>5. wcell \in 0 .. PageSize /\ PageSize \in Nat
    BY ConstantsAssumption DEF TypeOK
  <2> QED
    BY <2>1, <2>2, <2>3, <2>4, <2>5 DEF PrefixIsFresh
<1>10. CASE UNCHANGED <<metaVars, shadow, stable, workerVars>>
  BY <1>10 DEF PrefixIsFresh, metaVars, workerVars
<1> QED
  BY <1>1, <1>2, <1>3, <1>4, <1>5, <1>6, <1>7, <1>8, <1>9, <1>10,
     LoadFootprint

\* A page is fresh when it is published, and stays so until it is invalidated.
LEMMA ReadyStep ==
  ASSUME TypeOK, VersionsOrdered, PrefixIsFresh, ReadyIsFresh, [Next]_vars
  PROVE  ReadyIsFresh'
<1>1. CASE ServiceLoad
  <2>1. /\ UNCHANGED <<state, stable>>
        /\ \A a \in Addr : shadow'[a] = shadow[a] \/ shadow'[a] = chip[a]
    BY <1>1 DEF ServiceLoad, metaVars, writerVars, TypeOK
  <2>2. \A a \in Addr : chip[a] >= stable[a]
    BY DEF VersionsOrdered, TypeOK
  <2> QED
    BY <2>1, <2>2 DEF ReadyIsFresh
<1>2. CASE ServicePublish
  <2>1. CASE Publishable(state[wpage], gen[wpage])
    <3>1. /\ wpc = "publish" /\ state[wpage] = "loading" /\ gen[wpage] = wgen
          /\ state' = [state EXCEPT ![wpage] = "ready"]
          /\ UNCHANGED <<shadow, stable>>
      BY <1>2, <2>1 DEF ServicePublish, Publishable, writerVars
    <3>2. wcell = PageSize
      BY <3>1 DEF PrefixIsFresh
    <3>3. \A c \in 0 .. PageSize - 1 :
            shadow[<<wpage, c>>] >= stable[<<wpage, c>>]
      BY <3>1, <3>2 DEF PrefixIsFresh
    <3>4. ASSUME NEW a \in Addr, state'[a[1]] = "ready"
          PROVE  shadow[a] >= stable[a]
      <4>1. CASE a[1] = wpage
        BY <3>3, <4>1 DEF Addr
      <4>2. CASE a[1] # wpage
        <5>1. state[a[1]] = "ready"
          BY <3>1, <3>4, <4>2, AddrParts DEF TypeOK
        <5> QED
          BY <5>1 DEF ReadyIsFresh
      <4> QED
        BY <4>1, <4>2
    <3> QED
      BY <3>1, <3>4 DEF ReadyIsFresh
  <2>2. CASE ~Publishable(state[wpage], gen[wpage])
    BY <1>2, <2>2 DEF ServicePublish, ReadyIsFresh, writerVars
  <2> QED
    BY <2>1, <2>2
<1>3. CASE Invalidate
  <2>1. /\ UNCHANGED shadow
        /\ baddr \in Addr /\ baddr[1] \in Pages
        /\ state'[baddr[1]] # "ready"
    BY <1>3, AddrParts DEF Invalidate, Invalidated, TypeOK
  <2>2. \A p \in Pages : state'[p] = "ready" => state[p] = "ready"
    BY <1>3, <2>1 DEF Invalidate, Invalidated, TypeOK
  <2>3. \A a \in Addr : a # baddr => stable'[a] = stable[a]
    BY <1>3, <2>1 DEF Invalidate, TypeOK
  <2> QED
    BY <2>1, <2>2, <2>3, AddrParts DEF ReadyIsFresh
<1>4. CASE Claim \/ ServiceTake \/ ServiceDiscard
  <2>1. UNCHANGED <<shadow, stable>>
    BY <1>4 DEF Claim, ServiceTake, ServiceDiscard, writerVars
  <2>2. \A p \in Pages : state'[p] = "ready" => state[p] = "ready"
    BY <1>4, SlotInRing
    DEF Claim, ServiceTake, ServiceDiscard, Discarded, WorkerReturns, TypeOK
  <2> QED
    BY <2>1, <2>2, AddrParts DEF ReadyIsFresh
<1>5. CASE ServiceRelease \/ ServiceReserve \/ ServiceUnreserve
           \/ UNCHANGED <<metaVars, shadow, stable, workerVars>>
  BY <1>5 DEF ServiceRelease, ServiceReserve, ServiceUnreserve, ReadyIsFresh,
              metaVars, writerVars
<1> QED
  BY <1>1, <1>2, <1>3, <1>4, <1>5, LoadFootprint

\* The steps between the check of a read and its load keep its byte fresh.
LEMMA HitStep ==
  ASSUME TypeOK, VersionsOrdered, ReadyIsFresh, HitIsFresh, [Next]_vars
  PROVE  HitIsFresh'
<1>1. CASE BeginRead
  <2>1. rkind' = "hit" => state[cursor[1]] = "ready"
    BY <1>1 DEF BeginRead
  <2>2. floor' = stable[cursor] /\ UNCHANGED <<cursor, shadow>>
    BY <1>1 DEF BeginRead
  <2> QED
    BY <2>1, <2>2 DEF HitIsFresh, ReadyIsFresh, TypeOK
<1>2. CASE ServiceLoad
  <2>1. UNCHANGED <<rkind, rpc, cursor, floor>>
        /\ (shadow'[cursor] = shadow[cursor] \/ shadow'[cursor] = chip[cursor])
    BY <1>2 DEF ServiceLoad, readerVars, TypeOK
  <2>2. chip[cursor] >= shadow[cursor] /\ floor \in Nat
        /\ chip[cursor] \in Nat /\ shadow[cursor] \in Nat
    BY DEF VersionsOrdered, TypeOK
  <2> QED
    BY <2>1, <2>2 DEF HitIsFresh
<1>3. CASE AlreadyRequested \/ Enqueue \/ Fetch
  BY <1>3 DEF AlreadyRequested, Enqueue, Fetch, AfterRequest, ReaderReturns,
              HitIsFresh
<1>4. CASE \E first, last \in Pages : first <= last /\ Prefetch(first, last)
  BY <1>4 DEF Prefetch, HitIsFresh
<1>5. CASE MoveCursor \/ Claim
  BY <1>5 DEF MoveCursor, Claim, HitIsFresh
<1>6. CASE UNCHANGED <<readerVars, shadow>>
  BY <1>6 DEF readerVars, HitIsFresh
<1>7. \/ BeginRead \/ ServiceLoad \/ AlreadyRequested \/ Enqueue \/ Fetch
      \/ \E first, last \in Pages : first <= last /\ Prefetch(first, last)
      \/ MoveCursor \/ Claim \/ UNCHANGED <<readerVars, shadow>>
  BY StepCases
  DEF ServiceTake, ServiceRelease, ServiceReserve, ServicePublish,
      ServiceUnreserve, ServiceDiscard, BusWrite, Invalidate, InvalidateCount,
      vars
<1> QED
  BY <1>1, <1>2, <1>3, <1>4, <1>5, <1>6, <1>7

\* "Rejection of stale publications": no page is ever ready while one of its
\* bytes was replaced by a write that has completed, whatever the writer,
\* the worker and the renderer are doing on their cores.
THEOREM NoStalePublication == Spec => []ReadyIsFresh
<1>1. Init => FreshInv
  BY ConstantsAssumption
  DEF Init, FreshInv, VersionsOrdered, PrefixIsFresh, HitIsFresh, ReadyIsFresh
<1>2. TypeOK /\ FreshInv /\ [Next]_vars => FreshInv'
  BY VersionsStep, PrefixStep, ReadyStep, HitStep DEF FreshInv
<1>3. FreshInv => ReadyIsFresh
  BY DEF FreshInv
<1> QED
  BY <1>1, <1>2, <1>3, TypeCorrect, PTL DEF Spec

-----------------------------------------------------------------------------
(* The cache implements SampleMemory.                                      *)

\* The reader's control: a fetch follows a hit, a range is never overrun.
ReaderInv ==
  /\ rpc = "idle" => rkind = "prefetch"
  /\ rpc = "fetch" => rkind = "hit"
  /\ rkind = "prefetch" => floor = 0
  /\ rpc \in {"request", "enqueue"} => rnext <= rlast

LEMMA ReaderStepInv ==
  ASSUME TypeOK, ReaderInv, [Next]_vars
  PROVE  ReaderInv'
<1> USE DEF ReaderInv
<1>1. rnext \in Int /\ rlast \in Int /\ rpc \in ReaderPc
  BY ConstantsAssumption DEF TypeOK, Pages
<1>2. CASE BeginRead
  <2>1. rnext' = rlast' /\ rnext' \in Int
        /\ rkind' \in {"hit", "miss"} /\ rpc' \in {"fetch", "request"}
        /\ (rpc' = "fetch" => rkind' = "hit")
    BY <1>2, AddrParts, ConstantsAssumption DEF BeginRead, TypeOK, Pages
  <2> QED
    BY <2>1
<1>3. CASE AlreadyRequested \/ Enqueue
  BY <1>1, <1>3 DEF AlreadyRequested, Enqueue, AfterRequest, ReaderReturns
<1>4. CASE \E first, last \in Pages : first <= last /\ Prefetch(first, last)
  <2>1. PICK first, last \in Pages : first <= last /\ Prefetch(first, last)
    BY <1>4
  <2> QED
    BY <2>1 DEF Prefetch
<1>5. CASE Fetch \/ MoveCursor \/ Claim
  BY <1>5 DEF Fetch, MoveCursor, Claim, ReaderReturns
<1>6. CASE UNCHANGED readerVars
  BY <1>6 DEF readerVars
<1>7. \/ BeginRead \/ AlreadyRequested \/ Enqueue \/ Fetch
      \/ \E first, last \in Pages : first <= last /\ Prefetch(first, last)
      \/ MoveCursor \/ Claim \/ UNCHANGED readerVars
  BY StepCases
  DEF ServiceTake, ServiceLoad, ServiceRelease, ServiceReserve, ServicePublish,
      ServiceUnreserve, ServiceDiscard, BusWrite, Invalidate, InvalidateCount,
      vars
<1> QED
  BY <1>2, <1>3, <1>4, <1>5, <1>6, <1>7

\* Each step of the cache is a step of the regular memory, or changes nothing
\* of it: only the steps named here are visible.
LEMMA StepRefines ==
  ASSUME TypeOK, FreshInv, ReaderInv, [Next]_vars
  PROVE  [Memory!Next]_(Memory!vars)
<1> USE DEF Memory!vars
<1>1. CASE BeginRead
  <2>1. Memory!Begin
    BY <1>1 DEF BeginRead, Memory!Begin, writerVars
  <2> QED
    BY <2>1 DEF Memory!Next
<1>2. CASE MoveCursor
  <2>1. Memory!Seek
    BY <1>2 DEF MoveCursor, Memory!Seek, writerVars
  <2> QED
    BY <2>1 DEF Memory!Next
<1>3. CASE AlreadyRequested \/ Enqueue
  <2>1. UNCHANGED <<chip, stable, cursor>> /\ rpc # "idle" /\ AfterRequest
        /\ rpc \in {"request", "enqueue"}
    BY <1>3 DEF AlreadyRequested, Enqueue, AfterRequest, ReaderReturns,
                writerVars
  <2>2. CASE rkind = "miss" /\ rnext = rlast
    <3>1. Memory!End
      BY <2>1, <2>2 DEF AfterRequest, ReaderReturns, Memory!End
    <3> QED
      BY <3>1 DEF Memory!Next
  <2>3. CASE rkind = "prefetch" /\ rnext = rlast
    BY <2>1, <2>3 DEF AfterRequest, ReaderReturns, ReaderInv
  <2>4. CASE rkind = "hit" \/ rnext # rlast
    BY <2>1, <2>4 DEF AfterRequest
  <2> QED
    BY <2>2, <2>3, <2>4 DEF TypeOK
<1>4. CASE Fetch
  <2>1. rkind = "hit" /\ rpc = "fetch"
    BY <1>4 DEF Fetch, ReaderInv
  <2>2. shadow[cursor] \in floor .. chip[cursor]
    BY <2>1 DEF FreshInv, HitIsFresh, VersionsOrdered, TypeOK
  <2>3. Memory!End
    BY <1>4, <2>1, <2>2 DEF Fetch, ReaderReturns, Memory!End, writerVars
  <2> QED
    BY <2>3 DEF Memory!Next
<1>5. CASE \E first, last \in Pages : first <= last /\ Prefetch(first, last)
  BY <1>5 DEF Prefetch, ReaderInv, writerVars
<1>6. CASE \E a \in Addr : BusWrite(a)
  <2>1. PICK a \in Addr : BusWrite(a)
    BY <1>6
  <2>2. chip'[a] = writes + 1 /\ chip[a] <= writes /\ chip[a] \in Nat
        /\ writes \in Nat
    BY <2>1, ConstantsAssumption
    DEF BusWrite, FreshInv, VersionsOrdered, TypeOK
  <2>3. chip' = [chip EXCEPT ![a] = chip'[a]]
    BY <2>1, <2>2 DEF BusWrite
  <2>4. UNCHANGED <<stable, rpc # "idle" /\ rkind # "prefetch", cursor, floor,
                    result>>
    BY <2>1 DEF BusWrite, readerVars
  <2>5. chip'[a] > chip[a]
    BY <2>2
  <2>6. Memory!Write(a)
    BY <2>3, <2>4, <2>5 DEF Memory!Write
  <2> QED
    BY <2>1, <2>6 DEF Memory!Next
<1>7. CASE Invalidate
  <2>1. Memory!Complete(baddr) /\ baddr \in Addr
    BY <1>7 DEF Invalidate, Memory!Complete, readerVars, TypeOK
  <2> QED
    BY <2>1 DEF Memory!Next
<1>8. CASE Claim
  BY <1>8 DEF Claim, writerVars
<1>9. CASE UNCHANGED <<readerVars, chip, stable>>
  BY <1>9 DEF readerVars
<1>10. \/ BeginRead \/ MoveCursor \/ AlreadyRequested \/ Enqueue \/ Fetch
       \/ \E first, last \in Pages : first <= last /\ Prefetch(first, last)
       \/ \E a \in Addr : BusWrite(a)
       \/ Invalidate \/ Claim \/ UNCHANGED <<readerVars, chip, stable>>
  BY StepCases
  DEF ServiceTake, ServiceLoad, ServiceRelease, ServiceReserve, ServicePublish,
      ServiceUnreserve, ServiceDiscard, InvalidateCount, writerVars, vars
<1> QED
  BY <1>1, <1>2, <1>3, <1>4, <1>5, <1>6, <1>7, <1>8, <1>9, <1>10

\* Whatever the interleaving of the three activities, the renderer's reads
\* of Chip RAM are those of a regular register per byte: a miss, or a byte
\* that no write completed before the read had replaced.
THEOREM CacheIsRegularMemory == Spec => ReadsAreRegular
<1>1. Init => Memory!Init /\ FreshInv /\ ReaderInv
  <2>1. Init => FreshInv
    BY ConstantsAssumption
    DEF Init, FreshInv, VersionsOrdered, PrefixIsFresh, HitIsFresh, ReadyIsFresh
  <2>2. Init => ReaderInv
    BY DEF Init, ReaderInv
  <2>3. Init => Memory!Init
    BY AddrParts DEF Init, Memory!Init
  <2> QED
    BY <2>1, <2>2, <2>3
<1>2. TypeOK /\ FreshInv /\ ReaderInv /\ [Next]_vars
        => FreshInv' /\ ReaderInv'
  BY VersionsStep, PrefixStep, ReadyStep, HitStep, ReaderStepInv DEF FreshInv
<1>3. TypeOK /\ FreshInv /\ ReaderInv /\ [Next]_vars
        => [Memory!Next]_(Memory!vars)
  BY StepRefines
<1> QED
  BY <1>1, <1>2, <1>3, TypeCorrect, PTL DEF Spec, ReadsAreRegular, Memory!Spec

-----------------------------------------------------------------------------
(***************************************************************************)
(* The request ring of PageCache, for every value of the constants: one    *)
(* request per page, hence a ring with one slot per page is never full     *)
(* when request_page stores into it, and no request is ever lost.          *)
(***************************************************************************)

\* Two indices less than a ring apart never share a slot.
LEMMA ModDistinct ==
  ASSUME NEW N \in Nat \ {0}, NEW i \in Nat, NEW j \in Nat, i < j, j - i < N
  PROVE  i % N # j % N
<1> DEFINE q == i \div N  r == j \div N
<1>1. q \in Int /\ r \in Int /\ i = N * q + (i % N) /\ j = N * r + (j % N)
  OBVIOUS
<1>2. SUFFICES ASSUME i % N = j % N PROVE FALSE
  OBVIOUS
<1>3. i % N \in Int /\ j % N \in Int
  OBVIOUS
<1> HIDE DEF q, r
<1>4. N * q \in Int /\ N * r \in Int
  BY <1>1
<1>5. j - i = N * r - N * q
  BY <1>1, <1>2, <1>3, <1>4
<1>6. j - i = N * (r - q)
  BY <1>1, <1>5
<1>7. CASE r - q <= 0
  <2>1. N * (r - q) <= 0
    BY <1>1, <1>7
  <2> QED
    BY <2>1, <1>6
<1>8. CASE r - q >= 1
  <2>1. N * (r - q) >= N
    BY <1>1, <1>8
  <2> QED
    BY <2>1, <1>6
<1> QED
  BY <1>1, <1>7, <1>8

\* What makes the two properties inductive: the claimed page is not yet in
\* the ring, and every page in the ring is queued, but for the worker's.
RingInv ==
  /\ rtail <= rhead
  /\ WorkerHoldsSlot => rtail < rhead
  /\ \A i, j \in Slots : Entry(i) = Entry(j) => i = j
  /\ \A i \in Slots : IF i = rtail /\ WorkerHoldsSlot
                      THEN Entry(i) = wpage ELSE state[Entry(i)] = "queued"
  /\ \A p \in Pages : state[p] = "loading" <=> (wpc # "idle" /\ wpage = p)
  /\ \A p \in Pages : state[p] = "queued" =>
       (rpc = "enqueue" /\ rnext = p) \/ (\E i \in Slots : Entry(i) = p)
  /\ rpc = "enqueue" =>
       state[rnext] = "queued" /\ \A i \in Slots : Entry(i) # rnext

LEMMA SlotFacts ==
  ASSUME TypeOK
  PROVE  /\ rhead \in Nat /\ rtail \in Nat
         /\ Slots \subseteq Nat
         /\ \A i \in Slots : Entry(i) \in Pages
<1>1. rhead \in Nat /\ rtail \in Nat
      /\ requests \in [0 .. Capacity - 1 -> Pages]
  BY DEF TypeOK
<1>2. Slots \subseteq Nat
  BY <1>1 DEF Slots
<1>3. ASSUME NEW i \in Slots PROVE Entry(i) \in Pages
  <2>1. i % Capacity \in 0 .. Capacity - 1
    BY <1>2, SlotInRing
  <2> QED
    BY <1>1, <2>1 DEF Entry
<1> QED
  BY <1>1, <1>2, <1>3

\* Distinct pages in the ring leave room for the one being enqueued.
LEMMA RingHasRoom ==
  ASSUME TypeOK, RingInv
  PROVE  rhead - rtail + (IF rpc = "enqueue" THEN 1 ELSE 0) <= Capacity
<1> DEFINE T == IF rpc = "enqueue" THEN Pages \ {rnext} ELSE Pages
           f == [i \in Slots |-> Entry(i)]
<1>1. IsFiniteSet(Pages) /\ Cardinality(Pages) = NumPages
  <2>1. 0 \in Int /\ NumPages - 1 \in Int /\ ~(0 > NumPages - 1)
        /\ (NumPages - 1) - 0 + 1 = NumPages
    BY ConstantsAssumption
  <2> QED
    BY <2>1, FS_Interval DEF Pages
<1>2. IsFiniteSet(T)
      /\ Cardinality(T) = NumPages - (IF rpc = "enqueue" THEN 1 ELSE 0)
  <2>1. rnext \in Pages
    BY DEF TypeOK
  <2>2. IsFiniteSet(Pages \ {rnext})
        /\ Cardinality(Pages \ {rnext}) = NumPages - 1
    BY <1>1, <2>1, FS_RemoveElement
  <2>3. NumPages - 0 = NumPages
    BY ConstantsAssumption
  <2> QED
    BY <1>1, <2>2, <2>3
<1>3. IsFiniteSet(Slots) /\ Cardinality(Slots) = rhead - rtail
  <2>1. rhead - 1 \in Int /\ rtail \in Int /\ rtail <= rhead
    BY SlotFacts DEF RingInv
  <2> QED
    <3>1. IsFiniteSet(rtail .. rhead - 1)
          /\ Cardinality(rtail .. rhead - 1)
             = IF rtail > rhead - 1 THEN 0 ELSE (rhead - 1) - rtail + 1
      BY <2>1, FS_Interval
    <3>2. (IF rtail > rhead - 1 THEN 0 ELSE (rhead - 1) - rtail + 1)
          = rhead - rtail
      BY <2>1, SlotFacts
    <3> QED
      BY <3>1, <3>2 DEF Slots
<1>4. f \in [Slots -> T]
  BY SlotFacts DEF RingInv
<1>5. ~ \E i, j \in Slots : i # j /\ f[i] = f[j]
  BY DEF RingInv
<1> HIDE DEF T, f
<1>6. ~ (Cardinality(T) < Cardinality(Slots))
  BY <1>2, <1>3, <1>4, <1>5, FS_PigeonHole
<1> QED
  BY <1>2, <1>3, <1>6, SlotFacts, ConstantsAssumption DEF Capacity

\* request_page claims a page that is in no slot.
LEMMA ClaimKeepsRing == ASSUME TypeOK, RingInv, Claim PROVE RingInv'
<1>1. /\ state[rnext] = "missing" /\ rnext \in Pages /\ state \in [Pages -> States]
      /\ state' = [state EXCEPT ![rnext] = "queued"]
      /\ rpc' = "enqueue"
      /\ UNCHANGED <<rhead, rtail, requests, wpc, wpage, rnext>>
  BY DEF Claim, Requestable, TypeOK, ringVars, workerVars
<1>2. Slots' = Slots /\ WorkerHoldsSlot' = WorkerHoldsSlot
      /\ \A i \in Slots : Entry(i)' = Entry(i)
  BY <1>1 DEF Slots, WorkerHoldsSlot, Entry
<1>3. \A p \in Pages : p # rnext => state'[p] = state[p]
  BY <1>1
<1>4. \A i \in Slots : Entry(i) # rnext
  <2> SUFFICES ASSUME NEW i \in Slots, Entry(i) = rnext PROVE FALSE
    OBVIOUS
  <2>1. CASE i = rtail /\ WorkerHoldsSlot
    <3>1. wpage = rnext /\ wpc # "idle"
      BY <2>1 DEF RingInv, WorkerHoldsSlot
    <3> QED
      BY <1>1, <3>1 DEF RingInv
  <2>2. CASE ~(i = rtail /\ WorkerHoldsSlot)
    BY <1>1, <2>2 DEF RingInv
  <2> QED
    BY <2>1, <2>2
<1>5. state'[rnext] = "queued"
  BY <1>1
<1>6. \A i \in Slots : IF i = rtail /\ WorkerHoldsSlot
                       THEN Entry(i) = wpage ELSE state'[Entry(i)] = "queued"
  BY <1>3, <1>4, SlotFacts DEF RingInv
<1>7. \A p \in Pages : state'[p] = "loading" <=> (wpc # "idle" /\ wpage = p)
  BY <1>1, <1>3, <1>5 DEF RingInv
<1>8. \A p \in Pages : state'[p] = "queued" =>
        (rnext = p) \/ (\E i \in Slots : Entry(i) = p)
  BY <1>1, <1>3 DEF RingInv, Claim
<1> QED
  BY <1>1, <1>2, <1>4, <1>5, <1>6, <1>7, <1>8 DEF RingInv

\* Its slot is free, and the new entry is unlike the others.
LEMMA EnqueueKeepsRing == ASSUME TypeOK, RingInv, Enqueue PROVE RingInv'
<1>0. PICK h \in Nat : h = rhead
  BY SlotFacts
<1>1. /\ rpc = "enqueue" /\ rpc' # "enqueue" /\ rhead' = rhead + 1
      /\ requests' = [requests EXCEPT ![rhead % Capacity] = rnext]
      /\ UNCHANGED <<state, rtail, wpc, wpage>>
  BY DEF Enqueue, AfterRequest, ReaderReturns, metaVars, workerVars
<1>2. rhead \in Nat /\ rtail \in Nat /\ rtail <= rhead
      /\ Capacity \in Nat \ {0} /\ rnext \in Pages
  BY SlotFacts, ConstantsAssumption DEF RingInv, TypeOK, Capacity
<1>3. rhead - rtail < Capacity
  BY <1>1, <1>2, RingHasRoom
<1>4. Slots' = Slots \cup {h} /\ h \notin Slots
  BY <1>0, <1>1, <1>2 DEF Slots
<1>5. \A i \in Slots : Entry(i)' = Entry(i)
  <2> SUFFICES ASSUME NEW i \in Slots PROVE Entry(i)' = Entry(i)
    OBVIOUS
  <2>1. i \in Nat /\ i < rhead /\ rhead - i < Capacity
    BY <1>2, <1>3 DEF Slots
  <2>2. i % Capacity # rhead % Capacity
    BY <1>2, <2>1, ModDistinct
  <2>3. i % Capacity \in 0 .. Capacity - 1
    BY <2>1, SlotInRing
  <2> QED
    BY <1>1, <2>2, <2>3 DEF Entry, TypeOK
<1>6. Entry(h)' = rnext
  <2>1. h % Capacity \in 0 .. Capacity - 1
    BY SlotInRing
  <2> QED
    BY <1>0, <1>1, <2>1 DEF Entry, TypeOK
<1>7. WorkerHoldsSlot' = WorkerHoldsSlot
  BY <1>1 DEF WorkerHoldsSlot
<1>8. state[rnext] = "queued" /\ \A i \in Slots : Entry(i) # rnext
  BY <1>1 DEF RingInv
<1>9. rtail' <= rhead' /\ (WorkerHoldsSlot' => rtail' < rhead')
  BY <1>1, <1>2, <1>7 DEF RingInv
<1>10. \A i, j \in Slots' : Entry(i)' = Entry(j)' => i = j
  BY <1>4, <1>5, <1>6, <1>8 DEF RingInv
<1>11. \A i \in Slots' : IF i = rtail /\ WorkerHoldsSlot
                        THEN Entry(i)' = wpage ELSE state[Entry(i)'] = "queued"
  <2>1. WorkerHoldsSlot => h # rtail
    BY <1>0, <1>2 DEF RingInv
  <2> QED
    BY <1>4, <1>5, <1>6, <1>8, <2>1 DEF RingInv
<1>12. \A p \in Pages : state[p] = "queued" => \E i \in Slots' : Entry(i)' = p
  BY <1>1, <1>4, <1>5, <1>6 DEF RingInv
<1>13. \A p \in Pages : state[p] = "loading" <=> (wpc # "idle" /\ wpage = p)
  BY DEF RingInv
<1> QED
  BY <1>1, <1>7, <1>9, <1>10, <1>11, <1>12, <1>13 DEF RingInv

\* The worker finds a queued page at the tail: its drop path is never taken.
LEMMA TakeKeepsRing == ASSUME TypeOK, RingInv, ServiceTake PROVE RingInv'
<1> DEFINE page == requests[rtail % Capacity]
<1>1. rtail \in Slots /\ Entry(rtail) = page
  BY SlotFacts DEF ServiceTake, RingInv, Slots, Entry
<1>2. wpc = "idle" /\ ~WorkerHoldsSlot
  BY DEF ServiceTake, WorkerHoldsSlot
<1>3. state[page] = "queued" /\ page \in Pages
  BY <1>1, <1>2, SlotFacts DEF RingInv
<1> HIDE DEF page
<1>4. /\ state' = [state EXCEPT ![page] = "loading"]
      /\ wpc' = "load" /\ wpage' = page
      /\ UNCHANGED <<rhead, rtail, requests, rpc, rnext>>
  BY <1>3 DEF ServiceTake, page, readerVars
<1>5. Slots' = Slots /\ WorkerHoldsSlot'
      /\ \A i \in Slots : Entry(i)' = Entry(i)
  BY <1>4 DEF Slots, WorkerHoldsSlot, Entry
<1>6. \A p \in Pages : state'[p] = IF p = page THEN "loading" ELSE state[p]
  BY <1>3, <1>4 DEF TypeOK
<1>7. rtail < rhead
  BY <1>1, SlotFacts DEF Slots
<1>8. \A i \in Slots : IF i = rtail
                       THEN Entry(i) = page ELSE state'[Entry(i)] = "queued"
  BY <1>1, <1>2, <1>6, SlotFacts DEF RingInv
<1>9. \A p \in Pages : state'[p] = "loading" <=> page = p
  BY <1>2, <1>6 DEF RingInv
<1>10. \A p \in Pages : state'[p] = "queued" =>
         (rpc = "enqueue" /\ rnext = p) \/ (\E i \in Slots : Entry(i) = p)
  BY <1>6 DEF RingInv
<1>11. rpc = "enqueue" =>
         state'[rnext] = "queued" /\ \A i \in Slots : Entry(i) # rnext
  BY <1>1, <1>6 DEF RingInv, TypeOK
<1> QED
  BY <1>4, <1>5, <1>7, <1>8, <1>9, <1>10, <1>11 DEF RingInv

\* The worker gives up the slot of the page it has loaded, and no other.
LEMMA ReleaseKeepsRing == ASSUME TypeOK, RingInv, ServiceRelease PROVE RingInv'
<1>1. /\ wpc = "release" /\ wpc' = "reserve" /\ rtail' = rtail + 1
      /\ UNCHANGED <<state, rhead, requests, wpage, rpc, rnext>>
  BY DEF ServiceRelease, metaVars, readerVars
<1>2. PICK t \in Nat : t = rtail
  BY SlotFacts
<1>3. WorkerHoldsSlot /\ ~WorkerHoldsSlot' /\ t < rhead
  BY <1>1, <1>2 DEF WorkerHoldsSlot, RingInv
<1>4. t \in Slots /\ Slots' = Slots \ {t} /\ rtail' <= rhead'
  BY <1>1, <1>2, <1>3, SlotFacts DEF Slots
<1>5. \A i \in Slots : Entry(i)' = Entry(i)
  BY <1>1 DEF Entry
<1>6. Entry(t) = wpage
  BY <1>2, <1>3, <1>4 DEF RingInv
<1>7. state[wpage] = "loading"
  BY <1>1 DEF RingInv, TypeOK
<1>8. \A i \in Slots' : state[Entry(i)] = "queued"
  BY <1>2, <1>4 DEF RingInv
<1>9. \A p \in Pages : state[p] = "queued" =>
        (rpc = "enqueue" /\ rnext = p) \/ (\E i \in Slots' : Entry(i) = p)
  BY <1>4, <1>6, <1>7 DEF RingInv
<1> QED
  BY <1>1, <1>3, <1>4, <1>5, <1>8, <1>9 DEF RingInv

\* A page leaves "loading" when the worker leaves the page.
LEMMA FinishKeepsRing ==
  ASSUME TypeOK, RingInv, ServicePublish \/ ServiceDiscard PROVE RingInv'
<1>1. wpc \in {"publish", "discard"} /\ ~WorkerHoldsSlot
  BY DEF ServicePublish, ServiceDiscard, WorkerHoldsSlot
<1>2. state[wpage] = "loading" /\ wpage \in Pages
  BY <1>1 DEF RingInv, TypeOK
<1>3. UNCHANGED <<rhead, rtail, requests, rpc, rnext>>
  BY DEF ServicePublish, ServiceDiscard, ringVars, readerVars
<1>4. Slots' = Slots /\ \A i \in Slots : Entry(i)' = Entry(i)
  BY <1>3 DEF Slots, Entry
<1>5. CASE wpc' = "unreserve"
  <2>1. UNCHANGED <<state, wpage>> /\ ~WorkerHoldsSlot'
    BY <1>5 DEF ServicePublish, ServiceDiscard, WorkerReturns, WorkerHoldsSlot
  <2> QED
    BY <1>1, <1>3, <1>4, <1>5, <2>1 DEF RingInv
<1>6. CASE wpc' # "unreserve"
  <2>1. wpc' = "idle" /\ ~WorkerHoldsSlot'
    BY <1>6 DEF ServicePublish, ServiceDiscard, WorkerReturns, WorkerHoldsSlot
  <2>2. PICK s \in {"ready", "missing"} : state' = [state EXCEPT ![wpage] = s]
    BY <1>2, <1>6 DEF ServicePublish, ServiceDiscard, Discarded
  <2>3. \A p \in Pages : state'[p] = IF p = wpage THEN s ELSE state[p]
    BY <1>2, <2>2 DEF TypeOK
  <2>4. \A i \in Slots : state[Entry(i)] = "queued" /\ Entry(i) # wpage
    BY <1>1, <1>2 DEF RingInv
  <2>5. \A i \in Slots : state'[Entry(i)] = "queued"
    BY <2>3, <2>4, SlotFacts
  <2>6. \A p \in Pages : state'[p] # "loading"
    BY <1>1, <2>2, <2>3 DEF RingInv
  <2>7. \A p \in Pages : state'[p] = "queued" =>
          (rpc = "enqueue" /\ rnext = p) \/ (\E i \in Slots : Entry(i) = p)
    BY <2>2, <2>3 DEF RingInv
  <2>8. rpc = "enqueue" => state'[rnext] = "queued"
    BY <1>2, <2>3 DEF RingInv, TypeOK
  <2> QED
    BY <1>3, <1>4, <2>1, <2>5, <2>6, <2>7, <2>8 DEF RingInv
<1> QED
  BY <1>5, <1>6

\* Invalidation takes a page out of "ready" and out of no other state.
LEMMA InvalidateKeepsRing == ASSUME TypeOK, RingInv, Invalidate PROVE RingInv'
<1>1. UNCHANGED <<rhead, rtail, requests, wpc, wpage, rpc, rnext>>
  BY DEF Invalidate, ringVars, workerVars, readerVars
<1>2. Slots' = Slots /\ WorkerHoldsSlot' = WorkerHoldsSlot
      /\ \A i \in Slots : Entry(i)' = Entry(i)
  BY <1>1 DEF Slots, WorkerHoldsSlot, Entry
<1>3. \A p \in Pages : state'[p] = state[p]
                       \/ (state[p] = "ready" /\ state'[p] = "missing")
  <2>1. state' = [state EXCEPT ![baddr[1]] = Invalidated(state[baddr[1]])]
        /\ DOMAIN state = Pages
    BY DEF Invalidate, TypeOK
  <2> QED
    BY <2>1 DEF Invalidated
<1>4. \A p \in Pages : /\ state'[p] = "queued" <=> state[p] = "queued"
                       /\ state'[p] = "loading" <=> state[p] = "loading"
  BY <1>3
<1>5. \A i \in Slots : IF i = rtail /\ WorkerHoldsSlot
                       THEN Entry(i) = wpage ELSE state'[Entry(i)] = "queued"
  BY <1>4, SlotFacts DEF RingInv
<1>6. rpc = "enqueue" => state'[rnext] = "queued"
  BY <1>4 DEF RingInv, TypeOK
<1> QED
  BY <1>1, <1>2, <1>4, <1>5, <1>6 DEF RingInv

LEMMA RingStep ==
  ASSUME TypeOK, RingInv, [Next]_vars
  PROVE  RingInv'
<1>1. CASE Claim
  BY <1>1, ClaimKeepsRing
<1>2. CASE Enqueue
  BY <1>2, EnqueueKeepsRing
<1>3. CASE ServiceTake
  BY <1>3, TakeKeepsRing
<1>4. CASE ServiceRelease
  BY <1>4, ReleaseKeepsRing
<1>5. CASE ServicePublish \/ ServiceDiscard
  BY <1>5, FinishKeepsRing
<1>6. CASE Invalidate
  BY <1>6, InvalidateKeepsRing
<1>7. CASE \/ BeginRead \/ MoveCursor \/ AlreadyRequested \/ Fetch
           \/ \E first, last \in Pages : first <= last /\ Prefetch(first, last)
  <2>1. /\ UNCHANGED <<state, rhead, rtail, requests, wpc, wpage>>
        /\ rpc # "enqueue" /\ rpc' # "enqueue"
    BY <1>7 DEF BeginRead, MoveCursor, AlreadyRequested, AfterRequest, Fetch,
                ReaderReturns, Prefetch, metaVars, ringVars, workerVars
  <2>2. Slots' = Slots /\ WorkerHoldsSlot' = WorkerHoldsSlot
        /\ \A i \in Slots : Entry(i)' = Entry(i)
    BY <2>1 DEF Slots, WorkerHoldsSlot, Entry
  <2> QED
    BY <2>1, <2>2 DEF RingInv
<1>8. CASE \/ ServiceLoad \/ ServiceReserve \/ ServiceUnreserve
           \/ \E a \in Addr : BusWrite(a)
           \/ InvalidateCount \/ UNCHANGED vars
  <2>1. UNCHANGED <<state, rhead, rtail, requests, wpage, rpc, rnext>>
    BY <1>8 DEF ServiceLoad, ServiceReserve, ServiceUnreserve, BusWrite,
                InvalidateCount, vars, metaVars, ringVars, workerVars, readerVars
  <2>2. (wpc' = "idle" <=> wpc = "idle") /\ WorkerHoldsSlot' = WorkerHoldsSlot
    BY <1>8 DEF ServiceLoad, ServiceReserve, ServiceUnreserve, BusWrite,
                InvalidateCount, vars, workerVars, WorkerHoldsSlot
  <2>3. Slots' = Slots /\ \A i \in Slots : Entry(i)' = Entry(i)
    BY <2>1 DEF Slots, Entry
  <2> QED
    BY <2>1, <2>2, <2>3 DEF RingInv
<1> QED
  BY <1>1, <1>2, <1>3, <1>4, <1>5, <1>6, <1>7, <1>8, StepCases

LEMMA RingInvariant == Spec => [](TypeOK /\ RingInv)
<1>1. Init => RingInv
  BY DEF Init, RingInv, Slots, WorkerHoldsSlot
<1>2. TypeOK /\ RingInv /\ [Next]_vars => RingInv'
  BY RingStep
<1> QED
  BY <1>1, <1>2, TypeCorrect, PTL DEF Spec

\* "At most one outstanding request per page": the store into the request
\* ring, which does not look at the tail, never overwrites a pending request.
THEOREM RequestRingNeverOverflows == Spec => []RequestRingBounded
<1>1. TypeOK /\ RingInv => RequestRingBounded
  BY RingHasRoom DEF RequestRingBounded, RingInv
<1> QED
  BY <1>1, RingInvariant, PTL

\* No page is stuck queued or loading with nobody to serve it.
THEOREM NoRequestIsLost == Spec => []RequestsMatchStates
<1>1. RingInv => RequestsMatchStates
  BY DEF RequestsMatchStates, RingInv
<1> QED
  BY <1>1, RingInvariant, PTL

-----------------------------------------------------------------------------
(* The counter of ready pages.                                             *)

ReadyPages == {p \in Pages : state[p] = "ready"}

\* How a step may change the set of ready pages, and the counter with it.
LEMMA ReadyPagesCounted ==
  ASSUME NEW p \in Pages
  PROVE  /\ Cardinality(ReadyPages) \in Nat
         /\ Cardinality(ReadyPages \cup {p}) =
              IF p \in ReadyPages THEN Cardinality(ReadyPages)
              ELSE Cardinality(ReadyPages) + 1
         /\ Cardinality(ReadyPages \ {p}) =
              IF p \in ReadyPages THEN Cardinality(ReadyPages) - 1
              ELSE Cardinality(ReadyPages)
<1>1. IsFiniteSet(Pages)
  BY FS_Interval, ConstantsAssumption DEF Pages
<1>2. IsFiniteSet(ReadyPages)
  BY <1>1, FS_Subset DEF ReadyPages
<1> QED
  BY <1>2, FS_CardinalityType, FS_AddElement, FS_RemoveElement

\* The publication: the reserved page becomes the ready one.
LEMMA PublishKeepsCount ==
  ASSUME TypeOK, RingInv, ReadyAccounting, ServicePublish
  PROVE  ReadyAccounting'
<1>1. wpc = "publish" /\ wpage \in Pages /\ state[wpage] = "loading"
  BY DEF ServicePublish, RingInv, TypeOK
<1>2. wpage \notin ReadyPages
  BY <1>1 DEF ReadyPages
<1>3. pagesReady' = pagesReady /\ bpc' = bpc
  BY DEF ServicePublish, writerVars
<1>4. CASE Publishable(state[wpage], gen[wpage])
  <2>1. state' = [state EXCEPT ![wpage] = "ready"] /\ wpc' = "idle"
    BY <1>4 DEF ServicePublish, WorkerReturns
  <2>2. ReadyPages' = ReadyPages \cup {wpage}
    BY <1>1, <2>1 DEF ReadyPages, TypeOK
  <2>3. Cardinality(ReadyPages') = Cardinality(ReadyPages) + 1
        /\ Cardinality(ReadyPages) \in Nat
    BY <1>1, <1>2, <2>2, ReadyPagesCounted
  <2> QED
    BY <1>1, <1>3, <2>1, <2>3 DEF ReadyAccounting, ReadyPages
<1>5. CASE ~Publishable(state[wpage], gen[wpage])
  <2>1. state' = state /\ wpc' = "unreserve"
    BY <1>5 DEF ServicePublish
  <2> QED
    BY <1>1, <1>3, <2>1 DEF ReadyAccounting
<1> QED
  BY <1>4, <1>5

\* The invalidation: a ready page is owed to the counter until "count".
LEMMA InvalidateKeepsCount ==
  ASSUME TypeOK, ReadyAccounting, Invalidate
  PROVE  ReadyAccounting'
<1> DEFINE page == baddr[1]
<1>1. /\ page \in Pages /\ bpc = "invalidate"
      /\ state' = [state EXCEPT ![page] = Invalidated(state[page])]
      /\ bpc' = IF state[page] = "ready" THEN "count" ELSE "idle"
      /\ pagesReady' = pagesReady /\ wpc' = wpc
  BY AddrParts DEF Invalidate, Uncounts, TypeOK, workerVars
<1>2. CASE state[page] = "ready"
  <2>1. ReadyPages' = ReadyPages \ {page} /\ page \in ReadyPages
    BY <1>1, <1>2 DEF ReadyPages, Invalidated, TypeOK
  <2>2. Cardinality(ReadyPages') = Cardinality(ReadyPages) - 1
        /\ Cardinality(ReadyPages) \in Nat
    BY <1>1, <2>1, ReadyPagesCounted
  <2> QED
    BY <1>1, <1>2, <2>2 DEF ReadyAccounting, ReadyPages
<1>3. CASE state[page] # "ready"
  <2>1. ReadyPages' = ReadyPages
    BY <1>1, <1>3 DEF ReadyPages, Invalidated, TypeOK
  <2> QED
    BY <1>1, <1>3, <2>1 DEF ReadyAccounting, ReadyPages
<1> QED
  BY <1>2, <1>3

LEMMA CountStep ==
  ASSUME TypeOK, RingInv, ReadyAccounting, [Next]_vars
  PROVE  ReadyAccounting'
<1>1. pagesReady \in Int /\ Cardinality(ReadyPages) \in Nat
  BY ReadyPagesCounted, AddrParts DEF TypeOK
<1>2. CASE ServicePublish
  BY <1>2, PublishKeepsCount
<1>3. CASE Invalidate
  BY <1>3, InvalidateKeepsCount
<1>4. CASE ServiceReserve \/ ServiceUnreserve \/ InvalidateCount
  <2>1. state' = state
    BY <1>4 DEF ServiceReserve, ServiceUnreserve, InvalidateCount, metaVars
  <2>2. \/ /\ pagesReady' = pagesReady + 1 /\ bpc' = bpc
           /\ wpc = "reserve" /\ wpc' = "publish"
        \/ /\ pagesReady' = pagesReady - 1 /\ bpc' = bpc
           /\ wpc = "unreserve" /\ wpc' = "discard"
        \/ /\ pagesReady' = pagesReady - 1 /\ wpc' = wpc
           /\ bpc = "count" /\ bpc' = "idle"
    BY <1>4 DEF ServiceReserve, ServiceUnreserve, InvalidateCount, writerVars,
                workerVars
  <2> QED
    BY <1>1, <2>1, <2>2 DEF ReadyAccounting, ReadyPages
<1>5. CASE \/ Claim \/ ServiceTake \/ ServiceDiscard
  <2>1. /\ pagesReady' = pagesReady /\ bpc' = bpc
        /\ wpc' \notin {"publish", "unreserve"}
           <=> wpc \notin {"publish", "unreserve"}
    BY <1>5 DEF Claim, ServiceTake, ServiceDiscard, WorkerReturns, writerVars,
                workerVars
  <2>2. \A p \in Pages : state'[p] = "ready" <=> state[p] = "ready"
    <3>1. requests[rtail % Capacity] \in Pages /\ DOMAIN state = Pages
      BY SlotInRing DEF TypeOK
    <3>2. CASE Claim
      BY <3>1, <3>2 DEF Claim, Requestable
    <3>3. CASE ServiceTake
      BY <3>1, <3>3 DEF ServiceTake
    <3>4. CASE ServiceDiscard
      BY <3>1, <3>4 DEF ServiceDiscard, Discarded
    <3> QED
      BY <1>5, <3>2, <3>3, <3>4
  <2>3. ReadyPages' = ReadyPages
    BY <2>2 DEF ReadyPages
  <2> QED
    BY <2>1, <2>3 DEF ReadyAccounting, ReadyPages
<1>6. CASE \/ BeginRead \/ MoveCursor \/ AlreadyRequested \/ Enqueue \/ Fetch
           \/ \E first, last \in Pages : first <= last /\ Prefetch(first, last)
           \/ ServiceLoad \/ ServiceRelease \/ UNCHANGED vars
           \/ \E a \in Addr : BusWrite(a)
  <2>1. /\ state' = state /\ pagesReady' = pagesReady
        /\ wpc' \notin {"publish", "unreserve"}
           <=> wpc \notin {"publish", "unreserve"}
        /\ bpc' = "count" <=> bpc = "count"
    BY <1>6 DEF BeginRead, MoveCursor, AlreadyRequested, Enqueue, Fetch,
                Prefetch, ServiceLoad, ServiceRelease, BusWrite, vars, metaVars,
                workerVars, writerVars
  <2> QED
    BY <2>1 DEF ReadyAccounting
<1> QED
  BY <1>2, <1>3, <1>4, <1>5, <1>6, StepCases

\* pages_ready is exact up to the reservation of the worker and the debt of an
\* invalidation: the two CPUs' atomic additions to it never get lost or double.
THEOREM ReadyPagesAreCounted == Spec => []ReadyAccounting
<1>1. Init => ReadyAccounting
  <2> SUFFICES ASSUME Init PROVE ReadyAccounting
    OBVIOUS
  <2>1. {p \in Pages : state[p] = "ready"} = {}
    BY DEF Init
  <2>2. Cardinality({p \in Pages : state[p] = "ready"}) = 0
    BY <2>1, FS_EmptySet
  <2> QED
    BY <2>2 DEF Init, ReadyAccounting
<1>2. TypeOK /\ RingInv /\ ReadyAccounting /\ [Next]_vars => ReadyAccounting'
  BY CountStep
<1> QED
  BY <1>1, <1>2, RingInvariant, PTL DEF Spec

-----------------------------------------------------------------------------
(* One core for the bus writes and the worker.                             *)

\* The worker and a bus write exclude each other, so that the generation stays
\* the one the worker started from.
SerialInv ==
  wpc # "idle" =>
    /\ bpc = "idle" /\ gen[wpage] = wgen
    /\ wpc \notin {"unreserve", "discard"}

LEMMA SerialStep ==
  ASSUME ~ConcurrentWriter, TypeOK, RingInv, SerialInv, [Next]_vars
  PROVE  SerialInv'
<1>1. CASE ServiceTake
  BY <1>1, SlotInRing DEF ServiceTake, TakenGeneration, SerialInv, workerVars,
     writerVars
<1>2. CASE ServicePublish
  <2>1. Publishable(state[wpage], gen[wpage])
    BY <1>2 DEF ServicePublish, Publishable, SerialInv, RingInv, TypeOK
  <2> QED
    BY <1>2, <2>1 DEF ServicePublish, WorkerReturns, SerialInv
<1>3. CASE ServiceUnreserve \/ ServiceDiscard
  BY <1>3 DEF ServiceUnreserve, ServiceDiscard, SerialInv
<1>4. CASE ServiceLoad \/ ServiceRelease \/ ServiceReserve
  BY <1>4 DEF ServiceLoad, ServiceRelease, ServiceReserve, SerialInv, metaVars,
     writerVars
<1>5. CASE \E a \in Addr : BusWrite(a)
  BY <1>5 DEF BusWrite, SerialInv, workerVars
<1>6. CASE Invalidate \/ InvalidateCount
  BY <1>6 DEF Invalidate, InvalidateCount, SerialInv, workerVars
<1>7. CASE \/ BeginRead \/ MoveCursor \/ AlreadyRequested \/ Claim \/ Enqueue
           \/ Fetch \/ UNCHANGED vars
           \/ \E first, last \in Pages : first <= last /\ Prefetch(first, last)
  <2>1. UNCHANGED <<gen, workerVars, bpc>>
    BY <1>7 DEF BeginRead, MoveCursor, AlreadyRequested, Claim, Enqueue, Fetch,
                Prefetch, vars, metaVars, writerVars
  <2> QED
    BY <2>1 DEF SerialInv, workerVars
<1> QED
  BY <1>1, <1>2, <1>3, <1>4, <1>5, <1>6, <1>7, StepCases

\* While bus writes and the worker take turns on CPU0, the publishing
\* compare-and-swap of paula_mirror_service always succeeds: no page is copied
\* in vain.
THEOREM SerialWorkerNeverDiscards ==
  ASSUME ~ConcurrentWriter PROVE Spec => []SerialNeverDiscards
<1>1. Init => SerialInv
  BY DEF Init, SerialInv
<1>2. TypeOK /\ RingInv /\ SerialInv /\ [Next]_vars => SerialInv'
  BY SerialStep
<1>3. SerialInv => SerialNeverDiscards
  BY DEF SerialInv, SerialNeverDiscards
<1> QED
  BY <1>1, <1>2, <1>3, RingInvariant, PTL DEF Spec
=============================================================================
