------------------------- MODULE TranslationsProofs -------------------------
(***************************************************************************)
(* Proofs about Translations, for any addresses, sets and ways of the LRU, *)
(* and any number of units and flushes: whichever cache a translation is   *)
(* found in, it is one of the address in PC, and of the memory as it was   *)
(* since the last flush.                                                   *)
(*                                                                         *)
(* The argument is about entry addresses that are not marked: these are    *)
(* called without a check.  Such an entry belongs to a unit that is not    *)
(* marked either and has the current epoch (EntryOK), and such a unit was  *)
(* made, or verified, since the last flush (UnitOK).                       *)
(***************************************************************************)
EXTENDS Translations, WellFoundedInduction, TLAPS

WayType == [m68k : Addresses, arm : Entry] \union {EmptyWay}
LruType == [Sets -> [Ways -> WayType]]
UnitsType == [Units -> Unit \union {NoUnit}]
AllocType == [Sets -> (SUBSET Ways) \ {{}}]

\* e may be called for a, with the units us in epoch ep.
EntryOK(e, a, us, ep) ==
  /\ e \in Entry /\ us[e.unit].addr = a
  /\ ~e.marked => ~us[e.unit].marked /\ us[e.unit].epoch = ep

\* Each way of l is empty, or in the set of its address and callable for it;
\* no other way has its address.
LruOK(l, us, ep) ==
  /\ l \in LruType
  /\ \A s \in Sets : \A w \in Ways : l[s][w].m68k # Nowhere =>
       /\ SetOf[l[s][w].m68k] = s
       /\ EntryOK(l[s][w].arm, l[s][w].m68k, us, ep)
       /\ \A v \in Ways : l[s][v].m68k = l[s][w].m68k => v = w

\* ARMCode may be called, now or by a later turn of the loop.
ArmOK ==
  /\ where = "enter" => EntryOK(arm, pc, units, epoch)
  /\ lastPC # Nowhere => EntryOK(arm, lastPC, units, epoch)

UnitOK(un, ep, si) ==
  un.addr # Nowhere /\ ~un.marked /\ un.epoch = ep => un.version \in si[un.addr]

SinceFlush ==
  /\ \A u \in Units : units[u].addr # Nowhere => units[u].epoch <= epoch
  /\ \A u \in Units : UnitOK(units[u], epoch, since)
  /\ \A a \in Addresses : code[a] \in since[a]

UncachedIsCurrent ==
  where = "enter" /\ ~cacheOn => units[arm.unit].version = code[pc]

UnitInv ==
  /\ UnitTypeOK /\ LruOK(lru, units, epoch) /\ ArmOK /\ SinceFlush /\ UncachedIsCurrent
-----------------------------------------------------------------------------
(* Ways and sets. *)

\* The first way is one of those searched: LRU_FindBlock and the invalidations
\* act on a way that holds the address.
LEMMA FirstWayIn ==
  ASSUME TranslationsAssumption, NEW W \in SUBSET Ways, W # {}
  PROVE  FirstWay(W) \in W
<1>1. W \subseteq Nat
  BY DEF TranslationsAssumption, Ways
<1>2. PICK x \in W : \A y \in W : ~ (<<y, x>> \in OpToRel(<, Nat))
  BY <1>1, NatLessThanWellFounded, WFMin
<1>3. ASSUME NEW y \in W PROVE x <= y
  <2>1. x \in Nat /\ y \in Nat
    BY <1>1
  <2>2. ASSUME y < x PROVE <<y, x>> \in OpToRel(<, Nat)
    BY <2>1, <2>2 DEF OpToRel
  <2>3. ~ (y < x)
    BY <1>2, <2>2
  <2> QED
    BY <2>1, <2>3
<1> QED
  BY <1>3 DEF FirstWay

\* Every address has a set.
LEMMA SetOfType ==
  ASSUME TranslationsAssumption
  PROVE  SetOf \in [Addresses -> Sets]
BY DEF TranslationsAssumption, SetOf

\* After LRU_AllocBlock or a hit some way may still be replaced.
LEMMA RemainingType ==
  ASSUME TranslationsAssumption, NEW free \in (SUBSET Ways) \ {{}}, NEW w \in Ways
  PROVE  Remaining(free, w) \in (SUBSET Ways) \ {{}}
<1>1. 1 \in Ways /\ 2 \in Ways /\ 1 # 2
  BY DEF TranslationsAssumption, Ways
<1> QED
  BY <1>1 DEF Remaining

\* A way that is not empty holds an address.
LEMMA WayHolds ==
  ASSUME TranslationsAssumption, NEW x \in WayType
  PROVE  /\ x # EmptyWay <=> x.m68k # Nowhere
         /\ x.m68k # Nowhere => x.m68k \in Addresses /\ x.arm \in Entry
BY DEF TranslationsAssumption, WayType, EmptyWay

-----------------------------------------------------------------------------
(* The LRU, after each of the operations on it. *)

\* LRU_InvalidateAll.
LEMMA LruEmpty ==
  ASSUME NEW us, NEW ep
  PROVE  LruOK([s \in Sets |-> [w \in Ways |-> EmptyWay]], us, ep)
<1> DEFINE l == [s \in Sets |-> [w \in Ways |-> EmptyWay]]
<1>1. l \in LruType
  BY DEF LruType, WayType
<1>2. \A s \in Sets : \A w \in Ways : l[s][w].m68k = Nowhere
  BY DEF EmptyWay
<1> QED
  BY <1>1, <1>2 DEF LruOK

\* Ways that are emptied, marked or left alone, while units change.
LEMMA LruKept ==
  ASSUME NEW l, NEW us, NEW ep, LruOK(l, us, ep),
         NEW k \in LruType, NEW vs, NEW eq,
         ASSUME NEW s \in Sets, NEW w \in Ways, k[s][w].m68k # Nowhere
         PROVE  /\ k[s][w].m68k = l[s][w].m68k
                /\ EntryOK(k[s][w].arm, l[s][w].m68k, vs, eq)
  PROVE  LruOK(k, vs, eq)
<1>1. ASSUME NEW s \in Sets, NEW w \in Ways, k[s][w].m68k # Nowhere
      PROVE  /\ SetOf[k[s][w].m68k] = s
             /\ EntryOK(k[s][w].arm, k[s][w].m68k, vs, eq)
             /\ \A v \in Ways : k[s][v].m68k = k[s][w].m68k => v = w
  <2>1. k[s][w].m68k = l[s][w].m68k /\ EntryOK(k[s][w].arm, l[s][w].m68k, vs, eq)
    BY <1>1
  <2>2. SetOf[l[s][w].m68k] = s /\ \A v \in Ways : l[s][v].m68k = l[s][w].m68k => v = w
    BY <1>1, <2>1 DEF LruOK
  <2>3. ASSUME NEW v \in Ways, k[s][v].m68k = k[s][w].m68k PROVE v = w
    <3>1. k[s][v].m68k = l[s][v].m68k
      BY <1>1, <2>3
    <3> QED
      BY <2>1, <2>2, <2>3, <3>1
  <2> QED
    BY <2>1, <2>2, <2>3
<1> QED
  BY <1>1 DEF LruOK

\* LRU_InsertBlock of an address that no way holds.
LEMMA LruInserted ==
  ASSUME TranslationsAssumption,
         NEW l, NEW us, NEW ep, LruOK(l, us, ep),
         NEW a \in Addresses, NEW e, EntryOK(e, a, us, ep), NEW w \in Ways,
         \A v \in Ways : l[SetOf[a]][v].m68k # a
  PROVE  LruOK([l EXCEPT ![SetOf[a]][w] = [m68k |-> a, arm |-> e]], us, ep)
<1> DEFINE x == [m68k |-> a, arm |-> e]
           s == SetOf[a]
           k == [l EXCEPT ![s][w] = x]
<1>1. s \in Sets
  BY SetOfType
<1>2. a # Nowhere
  BY DEF TranslationsAssumption
<1>3. x \in WayType
  BY DEF WayType, EntryOK
<1>4. x.m68k = a /\ x.arm = e
  OBVIOUS
<1> HIDE DEF x
<1>5. l \in LruType
  BY DEF LruOK
<1>6. k \in LruType
  BY <1>1, <1>3, <1>5 DEF LruType
<1>7. \A t \in Sets : \A v \in Ways : k[t][v] = IF t = s /\ v = w THEN x ELSE l[t][v]
  BY <1>1, <1>5 DEF LruType
<1>8. s = SetOf[a]
  OBVIOUS
<1> HIDE DEF k, s
<1>9. ASSUME NEW t \in Sets, NEW v \in Ways, k[t][v].m68k # Nowhere
      PROVE  /\ SetOf[k[t][v].m68k] = t
             /\ EntryOK(k[t][v].arm, k[t][v].m68k, us, ep)
             /\ \A y \in Ways : k[t][y].m68k = k[t][v].m68k => y = v
  <2>1. CASE t = s /\ v = w
    BY <1>4, <1>7, <1>8, <2>1
  <2>2. CASE ~ (t = s /\ v = w)
    <3>1. k[t][v] = l[t][v]
      BY <1>7, <2>2
    <3>2. /\ SetOf[l[t][v].m68k] = t
          /\ EntryOK(l[t][v].arm, l[t][v].m68k, us, ep)
          /\ \A y \in Ways : l[t][y].m68k = l[t][v].m68k => y = v
      BY <1>9, <3>1 DEF LruOK
    <3>3. ASSUME NEW y \in Ways, k[t][y].m68k = k[t][v].m68k PROVE y = v
      <4>1. CASE t = s /\ y = w
        <5>1. l[t][v].m68k = a
          BY <1>4, <1>7, <3>1, <3>3, <4>1
        <5> QED
          BY <1>8, <4>1, <5>1
      <4>2. CASE ~ (t = s /\ y = w)
        BY <1>7, <3>1, <3>2, <3>3, <4>2
      <4> QED
        BY <4>1, <4>2
    <3> QED
      BY <3>1, <3>2, <3>3
  <2> QED
    BY <2>1, <2>2
<1>10. LruOK(k, us, ep)
  BY <1>6, <1>9 DEF LruOK
<1> QED
  BY <1>10 DEF k, s, x
-----------------------------------------------------------------------------
(* Units that are freed, made or marked. *)

\* A unit is there or not.
LEMMA UnitHolds ==
  ASSUME TranslationsAssumption, UnitTypeOK, NEW u \in Units, units[u].addr # Nowhere
  PROVE  units[u] \in Unit /\ units[u].addr \in Addresses
BY DEF TranslationsAssumption, UnitTypeOK, NoUnit, Unit

\* What the translator makes is a unit of the memory as it is.
LEMMA NewUnitHolds ==
  ASSUME TranslationsAssumption, UnitTypeOK, NEW a \in Addresses
  PROVE  /\ NewUnit(a) \in Unit
         /\ NewUnit(a).addr = a /\ NewUnit(a).version = code[a]
         /\ NewUnit(a).epoch = epoch /\ NewUnit(a).marked = FALSE
BY DEF UnitTypeOK, NewUnit, Unit

\* The units after a translation: their types, and those that stay.
LEMMA UnitsWithHolds ==
  ASSUME TranslationsAssumption, UnitTypeOK, NEW a \in Addresses, NEW u \in Units
  PROVE  /\ UnitsWith(u, a) \in UnitsType
         /\ UnitsWith(u, a)[u] = NewUnit(a)
         /\ \A v \in Units : v # u =>
              \/ UnitsWith(u, a)[v] = NoUnit
              \/ UnitsWith(u, a)[v] = units[v] /\ units[v].addr # a
<1>1. NewUnit(a) \in Unit
  BY NewUnitHolds
<1>2. units \in UnitsType
  BY DEF UnitTypeOK, UnitsType
<1>3. \A v \in Units : UnitsWith(u, a)[v] =
        IF v = u THEN NewUnit(a) ELSE IF v \in UnitsAt(a) THEN NoUnit ELSE units[v]
  BY DEF UnitsWith
<1>4. \A v \in Units : v \in UnitsAt(a) <=> units[v].addr = a
  BY DEF UnitsAt
<1>5. UnitsWith(u, a) \in UnitsType
  <2>1. \A v \in Units : UnitsWith(u, a)[v] \in Unit \union {NoUnit}
    BY <1>1, <1>2, <1>3 DEF UnitsType
  <2>2. UnitsWith(u, a) = [v \in Units |-> UnitsWith(u, a)[v]]
    BY DEF UnitsWith
  <2> QED
    BY <2>1, <2>2 DEF UnitsType
<1> QED
  BY <1>3, <1>4, <1>5

\* They are still of their address and epoch.
LEMMA UnitsWithSince ==
  ASSUME TranslationsAssumption, UnitTypeOK, SinceFlush, NEW a \in Addresses, NEW u \in Units
  PROVE  /\ \A v \in Units : UnitsWith(u, a)[v].addr # Nowhere => UnitsWith(u, a)[v].epoch <= epoch
         /\ \A v \in Units : UnitOK(UnitsWith(u, a)[v], epoch, since)
<1> DEFINE us == UnitsWith(u, a)
<1>1. ASSUME NEW v \in Units
      PROVE  (us[v].addr # Nowhere => us[v].epoch <= epoch) /\ UnitOK(us[v], epoch, since)
  <2>1. us[v] = NewUnit(a) \/ us[v] = NoUnit \/ us[v] = units[v]
    BY UnitsWithHolds
  <2>2. CASE us[v] = NewUnit(a)
    <3>1. epoch \in Nat /\ code[a] \in since[a]
      BY DEF TranslationsAssumption, UnitTypeOK, SinceFlush
    <3>2. us[v].addr = a /\ us[v].version = code[a] /\ us[v].epoch = epoch
      BY <2>2, NewUnitHolds
    <3> HIDE DEF us
    <3> QED
      BY <3>1, <3>2 DEF UnitOK
  <2>3. CASE us[v] = NoUnit
    BY <2>3 DEF NoUnit, UnitOK
  <2>4. CASE us[v] = units[v]
    BY <2>4 DEF SinceFlush
  <2> QED
    BY <2>1, <2>2, <2>3, <2>4
<1> QED
  BY <1>1

\* LRU_InvalidateByM68kAddress takes every way of the addresses: the first
\* that holds one is the only one.
LEMMA NoneStays ==
  ASSUME TranslationsAssumption, UnitTypeOK, LruOK(lru, units, epoch), NEW A \in SUBSET Addresses
  PROVE  /\ LruWithout(A) \in LruType
         /\ AllocWithout(A) \in AllocType
         /\ \A s \in Sets : \A w \in Ways :
              \/ LruWithout(A)[s][w] = EmptyWay
              \/ LruWithout(A)[s][w] = lru[s][w] /\ lru[s][w].m68k \notin A
<1>1. lru \in LruType /\ alloc \in AllocType
  BY DEF UnitTypeOK, LruOK, AllocType
<1>2. \A s \in Sets : \A w \in Ways :
        LruWithout(A)[s][w] = IF w \in Leaving(A, s) THEN EmptyWay ELSE lru[s][w]
  BY DEF LruWithout
<1>3. LruWithout(A) \in LruType
  BY <1>1 DEF LruWithout, LruType, WayType
<1>4. AllocWithout(A) \in AllocType
  BY <1>1 DEF AllocWithout, AllocType, Leaving
<1>5. ASSUME NEW s \in Sets, NEW w \in Ways, lru[s][w].m68k \in A PROVE w \in Leaving(A, s)
  <2> DEFINE a == lru[s][w].m68k
  <2>1. a # Nowhere
    BY <1>5 DEF TranslationsAssumption
  <2>2. SetOf[a] = s /\ \A v \in Ways : lru[s][v].m68k = a => v = w
    BY <2>1 DEF LruOK
  <2>3. WaysHolding(a) = {w}
    BY <2>2 DEF WaysHolding
  <2>4. FirstWay(WaysHolding(a)) = w
    BY <2>3, FirstWayIn
  <2> QED
    BY <1>5, <2>4 DEF Leaving
<1> QED
  BY <1>2, <1>3, <1>4, <1>5

\* No way keeps a unit that a translation frees.
LEMMA LruAfterTranslation ==
  ASSUME TranslationsAssumption, UnitTypeOK, LruOK(lru, units, epoch),
         NEW a \in Addresses, NEW u \in Units
  PROVE  /\ LruOK(LruWithout(Freed(u, a)), UnitsWith(u, a), epoch)
         /\ AllocWithout(Freed(u, a)) \in AllocType
         /\ \A s \in Sets : \A w \in Ways : LruWithout(Freed(u, a))[s][w].m68k # a
<1> DEFINE A == Freed(u, a)
           us == UnitsWith(u, a)
           k == LruWithout(A)
<1>1. a \in A /\ A \subseteq Addresses
  BY UnitHolds DEF TranslationsAssumption, Freed
<1>2. k \in LruType /\ AllocWithout(A) \in AllocType
  BY <1>1, NoneStays
<1>3. \A s \in Sets : \A w \in Ways :
        k[s][w] = EmptyWay \/ (k[s][w] = lru[s][w] /\ lru[s][w].m68k \notin A)
  BY <1>1, NoneStays
<1>4. ASSUME NEW s \in Sets, NEW w \in Ways, k[s][w].m68k # Nowhere
      PROVE  k[s][w].m68k = lru[s][w].m68k /\ EntryOK(k[s][w].arm, lru[s][w].m68k, us, epoch)
  <2>1. k[s][w] = lru[s][w] /\ lru[s][w].m68k \notin A
    BY <1>3, <1>4 DEF EmptyWay
  <2>2. EntryOK(lru[s][w].arm, lru[s][w].m68k, units, epoch)
    BY <1>4, <2>1 DEF LruOK
  <2> DEFINE v == lru[s][w].arm.unit
  <2>3. v \in Units /\ units[v].addr = lru[s][w].m68k /\ units[v].addr # Nowhere
    BY <1>4, <2>1, <2>2 DEF EntryOK, Entry
  <2>4. v # u /\ v \notin UnitsAt(a)
    BY <2>1, <2>3 DEF Freed, UnitsAt
  <2>5. us[v] = units[v]
    BY <2>3, <2>4 DEF UnitsWith
  <2> QED
    BY <2>1, <2>2, <2>5 DEF EntryOK
<1>5. LruOK(k, us, epoch)
  <2> HIDE DEF k, us
  <2> QED
    BY <1>2, <1>4, LruKept
<1>6. ASSUME NEW s \in Sets, NEW w \in Ways PROVE k[s][w].m68k # a
  BY <1>1, <1>3 DEF EmptyWay, TranslationsAssumption
<1> QED
  BY <1>2, <1>5, <1>6
\* us are the units after u was verified.
Verified(us, u) ==
  /\ us \in UnitsType
  /\ \A v \in Units : v # u => us[v] = units[v]
  /\ us[u].addr = units[u].addr /\ us[u].version = units[u].version
  /\ us[u].epoch = epoch /\ us[u].marked \in {units[u].marked, FALSE}

LEMMA VerifiedUnit ==
  ASSUME TranslationsAssumption, UnitTypeOK, NEW u \in Units, units[u].addr # Nowhere
  PROVE  /\ Verified([units EXCEPT ![u].epoch = epoch], u)
         /\ Verified([units EXCEPT ![u].epoch = epoch, ![u].marked = FALSE], u)
<1>1. units[u] \in Unit /\ units \in UnitsType
  BY UnitHolds DEF UnitTypeOK, UnitsType
<1>2. epoch \in 0 .. MaxEpoch
  BY DEF UnitTypeOK
<1> DEFINE x == [units[u] EXCEPT !.epoch = epoch]
           y == [x EXCEPT !.marked = FALSE]
<1>3. /\ x \in Unit /\ x.addr = units[u].addr /\ x.version = units[u].version
      /\ x.epoch = epoch /\ x.marked = units[u].marked
  BY <1>1, <1>2 DEF Unit
<1>4. /\ y \in Unit /\ y.addr = units[u].addr /\ y.version = units[u].version
      /\ y.epoch = epoch /\ y.marked = FALSE
  <2> HIDE DEF x
  <2> QED
    BY <1>3 DEF Unit
<1>5. [units EXCEPT ![u].epoch = epoch] = [units EXCEPT ![u] = x]
  BY <1>1 DEF UnitsType
<1>6. [units EXCEPT ![u].epoch = epoch, ![u].marked = FALSE] = [units EXCEPT ![u] = y]
  BY <1>1 DEF UnitsType
<1> HIDE DEF x, y
<1>7. Verified([units EXCEPT ![u] = x], u)
  BY <1>1, <1>3 DEF Verified, UnitsType
<1>8. Verified([units EXCEPT ![u] = y], u)
  BY <1>1, <1>4 DEF Verified, UnitsType
<1> QED
  BY <1>5, <1>6, <1>7, <1>8

\* Verifying keeps every entry callable: the unit is as good as a new one.
LEMMA VerifiedHolds ==
  ASSUME TranslationsAssumption, UnitTypeOK, LruOK(lru, units, epoch), SinceFlush,
         NEW u \in Units, units[u].addr # Nowhere, IsCurrent(u),
         NEW us, Verified(us, u)
  PROVE  /\ LruOK(lru, us, epoch)
         /\ \A e : \A a \in Addresses : EntryOK(e, a, units, epoch) => EntryOK(e, a, us, epoch)
         /\ \A v \in Units : us[v].addr # Nowhere => us[v].epoch <= epoch
         /\ \A v \in Units : UnitOK(us[v], epoch, since)
<1>1. ASSUME NEW e, NEW a \in Addresses, EntryOK(e, a, units, epoch) PROVE EntryOK(e, a, us, epoch)
  <2>1. e.unit \in Units
    BY <1>1 DEF EntryOK, Entry
  <2>2. CASE e.unit = u
    BY <1>1, <2>2 DEF EntryOK, Verified
  <2>3. CASE e.unit # u
    BY <1>1, <2>1, <2>3 DEF EntryOK, Verified
  <2> QED
    BY <2>2, <2>3
<1>2. ASSUME NEW s \in Sets, NEW w \in Ways, lru[s][w].m68k # Nowhere
      PROVE  EntryOK(lru[s][w].arm, lru[s][w].m68k, us, epoch)
  <2>1. lru[s][w] \in WayType
    BY DEF LruOK, LruType
  <2> QED
    BY <1>1, <1>2, <2>1, WayHolds DEF LruOK
<1>3. lru \in LruType
  BY DEF LruOK
<1>4. LruOK(lru, us, epoch)
  BY <1>2, <1>3, LruKept
<1>5. epoch <= epoch /\ units[u].addr \in Addresses
  BY UnitHolds DEF UnitTypeOK, TranslationsAssumption
<1>6. ASSUME NEW v \in Units
      PROVE  (us[v].addr # Nowhere => us[v].epoch <= epoch) /\ UnitOK(us[v], epoch, since)
  <2>1. CASE v = u
    <3>1. us[v].version \in since[us[v].addr]
      BY <1>5, <2>1 DEF Verified, IsCurrent, SinceFlush
    <3> QED
      BY <1>5, <2>1, <3>1 DEF Verified, UnitOK
  <2>2. CASE v # u
    BY <2>2 DEF Verified, SinceFlush
  <2> QED
    BY <2>1, <2>2
<1> QED
  BY <1>1, <1>4, <1>6

\* LRU_InsertBlock as a step.
LEMMA InsertHolds ==
  ASSUME TranslationsAssumption, NEW l, NEW al \in AllocType, NEW us, NEW ep, LruOK(l, us, ep),
         NEW a \in Addresses, NEW e, EntryOK(e, a, us, ep),
         \A v \in Ways : l[SetOf[a]][v].m68k # a,
         LRU_InsertBlock(l, al, a, e)
  PROVE  LruOK(lru', us, ep) /\ alloc' \in AllocType
<1> DEFINE s == SetOf[a]
           w == FirstWay(al[s])
<1>1. s \in Sets /\ al[s] \in (SUBSET Ways) \ {{}}
  BY SetOfType DEF AllocType
<1>2. w \in Ways
  BY <1>1, FirstWayIn
<1>3. Remaining(al[s], w) \in (SUBSET Ways) \ {{}}
  BY <1>1, <1>2, RemainingType
<1>4. alloc' = [al EXCEPT ![s] = Remaining(al[s], w)]
  BY DEF LRU_InsertBlock
<1>5. lru' = [l EXCEPT ![s][w] = [m68k |-> a, arm |-> e]]
  BY DEF LRU_InsertBlock
<1>6. alloc' \in AllocType
  <2> HIDE DEF s, w
  <2> QED
    BY <1>1, <1>3, <1>4 DEF AllocType
<1>7. LruOK(lru', us, ep)
  <2> HIDE DEF w
  <2> QED
    BY <1>2, <1>5, LruInserted
<1> QED
  BY <1>6, <1>7
-----------------------------------------------------------------------------
(* The actions of the loop. *)

\* What a turn of the loop leaves alone, and its types.
LEMMA DispatchType ==
  ASSUME TranslationsAssumption, UnitTypeOK, Dispatching,
         lastPC' \in Addresses \union {Nowhere}, EntryOK(arm', pc, units', epoch),
         LruOK(lru', units', epoch), alloc' \in AllocType, units' \in UnitsType
  PROVE  UnitTypeOK'
<1>1. arm' \in Entry /\ lru' \in LruType
  BY DEF EntryOK, LruOK
<1> QED
  BY <1>1 DEF UnitTypeOK, Dispatching, memVars, LruType, WayType, AllocType, UnitsType

\* A turn that finds the unit and leaves all units alone: the short loop, a hit
\* in the LRU, a hit in the list.
LEMMA FoundHolds ==
  ASSUME TranslationsAssumption, UnitInv, Dispatching, cacheOn, lastPC' = pc,
         EntryOK(arm', pc, units, epoch), UNCHANGED units,
         LruOK(lru', units, epoch), alloc' \in AllocType
  PROVE  UnitInv'
<1>1. UnitTypeOK /\ pc \in Addresses /\ units \in UnitsType
  BY DEF UnitInv, UnitTypeOK, UnitsType
<1>2. UnitTypeOK'
  BY <1>1, DispatchType
<1>3. LruOK(lru, units, epoch)' /\ ArmOK'
  BY DEF Dispatching, ArmOK
<1>4. SinceFlush' /\ UncachedIsCurrent'
  BY DEF Dispatching, memVars, UnitInv, SinceFlush, UncachedIsCurrent
<1> QED
  BY <1>2, <1>3, <1>4 DEF UnitInv

LEMMA RunAgainHolds ==
  ASSUME TranslationsAssumption, UnitInv, RunAgain
  PROVE  UnitInv'
<1>1. Dispatching /\ cacheOn /\ lastPC' = pc /\ UNCHANGED <<arm, lru, alloc, units>>
  BY DEF RunAgain
<1>2. EntryOK(arm', pc, units, epoch)
  BY <1>1 DEF RunAgain, UnitInv, ArmOK, UnitTypeOK, TranslationsAssumption
<1>3. LruOK(lru', units, epoch) /\ alloc' \in AllocType
  BY <1>1 DEF UnitInv, UnitTypeOK, AllocType
<1> QED
  BY <1>1, <1>2, <1>3, FoundHolds

LEMMA FindBlockHolds ==
  ASSUME TranslationsAssumption, UnitInv, LRU_FindBlock
  PROVE  UnitInv'
<1> DEFINE w == FirstWay(FoundWays(pc))
           s == SetOf[pc]
<1>1. Dispatching /\ cacheOn /\ lastPC' = pc /\ UNCHANGED <<lru, units>>
  BY DEF LRU_FindBlock
<1>2. w \in Ways /\ lru[s][w].m68k = pc
  <2>1. FoundWays(pc) \in SUBSET Ways /\ FoundWays(pc) # {}
    BY DEF LRU_FindBlock, FoundWays, WaysHolding
  <2>2. w \in FoundWays(pc)
    BY <2>1, FirstWayIn
  <2> QED
    BY <2>2 DEF FoundWays, WaysHolding
<1>3. pc \in Addresses /\ pc # Nowhere /\ s \in Sets
  BY SetOfType DEF UnitInv, UnitTypeOK, TranslationsAssumption
<1>4. arm' = lru[s][w].arm /\ alloc' = [alloc EXCEPT ![s] = Remaining(alloc[s], w)]
  BY DEF LRU_FindBlock
<1> HIDE DEF w, s
<1>5. EntryOK(arm', pc, units, epoch)
  BY <1>2, <1>3, <1>4 DEF UnitInv, LruOK
<1>6. alloc' \in AllocType
  <2>1. alloc \in AllocType
    BY DEF UnitInv, UnitTypeOK, AllocType
  <2>2. Remaining(alloc[s], w) \in (SUBSET Ways) \ {{}}
    BY <1>2, <1>3, <2>1, RemainingType DEF AllocType
  <2> QED
    BY <1>3, <1>4, <2>1, <2>2 DEF AllocType
<1>7. LruOK(lru', units, epoch)
  BY <1>1 DEF UnitInv
<1> QED
  BY <1>1, <1>5, <1>6, <1>7, FoundHolds

\* After a miss no way holds PC.
LEMMA MissHolds ==
  ASSUME TranslationsAssumption, UnitInv, Missed
  PROVE  /\ Dispatching /\ cacheOn /\ lastPC' = pc /\ pc \in Addresses
         /\ alloc \in AllocType /\ units \in UnitsType
         /\ \A v \in Ways : lru[SetOf[pc]][v].m68k # pc
BY DEF UnitInv, UnitTypeOK, Missed, FoundWays, WaysHolding, AllocType, UnitsType

LEMMA FindUnitQuickHolds ==
  ASSUME TranslationsAssumption, UnitInv, FindUnitQuick
  PROVE  UnitInv'
<1>1. PICK u \in Units :
        KeyMatch(u) /\ arm' = EntryOf(u) /\ LRU_InsertBlock(lru, alloc, pc, EntryOf(u))
  BY DEF FindUnitQuick
<1>2. Missed /\ UNCHANGED units
  BY DEF FindUnitQuick
<1>3. EntryOK(EntryOf(u), pc, units, epoch)
  <2>1. units[u].addr = pc /\ units[u].epoch = epoch
    BY <1>1 DEF KeyMatch
  <2>2. units[u] \in Unit
    BY <2>1, UnitHolds DEF UnitInv, UnitTypeOK, TranslationsAssumption
  <2> QED
    BY <2>1, <2>2 DEF EntryOf, EntryOK, Entry, Unit
<1>4. LruOK(lru', units, epoch) /\ alloc' \in AllocType
  BY <1>1, <1>2, <1>3, MissHolds, InsertHolds DEF UnitInv
<1> QED
  BY <1>1, <1>2, <1>3, <1>4, MissHolds, FoundHolds
\* A turn that verifies or makes a unit.
LEMMA MadeHolds ==
  ASSUME TranslationsAssumption, UnitInv, Dispatching, lastPC' \in {pc, Nowhere},
         EntryOK(arm', pc, units', epoch), LruOK(lru', units', epoch),
         alloc' \in AllocType, units' \in UnitsType,
         \A v \in Units : units'[v].addr # Nowhere => units'[v].epoch <= epoch,
         \A v \in Units : UnitOK(units'[v], epoch, since),
         cacheOn \/ units'[arm'.unit].version = code[pc]
  PROVE  UnitInv'
<1>1. UnitTypeOK'
  BY DispatchType DEF UnitInv, UnitTypeOK
<1>2. LruOK(lru, units, epoch)' /\ ArmOK'
  BY DEF Dispatching, ArmOK
<1>3. SinceFlush'
  BY DEF Dispatching, memVars, UnitInv, SinceFlush
<1>4. UncachedIsCurrent'
  BY DEF Dispatching, memVars, UncachedIsCurrent
<1> QED
  BY <1>1, <1>2, <1>3, <1>4 DEF UnitInv

\* The entry of a unit that was verified, and of one that was made.
LEMMA EntryVerified ==
  ASSUME TranslationsAssumption, UnitTypeOK, NEW u \in Units, units[u].addr # Nowhere,
         NEW us, Verified(us, u)
  PROVE  /\ EntryOf(u).unit = u
         /\ EntryOK(EntryOf(u), units[u].addr, us, epoch)
<1>1. units[u].marked \in BOOLEAN
  BY UnitHolds DEF Unit
<1> QED
  BY <1>1 DEF EntryOf, EntryOK, Entry, Verified

LEMMA EntryMade ==
  ASSUME TranslationsAssumption, UnitTypeOK, NEW u \in Units, NEW a \in Addresses,
         NEW e, e = [unit |-> u, marked |-> FALSE]
  PROVE  e.unit = u /\ EntryOK(e, a, UnitsWith(u, a), epoch)
<1>1. UnitsWith(u, a)[u] = NewUnit(a)
  BY UnitsWithHolds
<1>2. e.unit = u /\ e.marked = FALSE /\ e \in Entry
  BY DEF Entry
<1>3. NewUnit(a).addr = a /\ NewUnit(a).marked = FALSE /\ NewUnit(a).epoch = epoch
  BY NewUnitHolds
<1> QED
  BY <1>1, <1>2, <1>3 DEF EntryOK

LEMMA VerifyOldHolds ==
  ASSUME TranslationsAssumption, UnitInv, VerifyOld
  PROVE  UnitInv'
<1>1. PICK u \in CurrentAt(pc) :
        /\ units' = [units EXCEPT ![u].epoch = epoch]
        /\ arm' = EntryOf(u) /\ LRU_InsertBlock(lru, alloc, pc, EntryOf(u))
  BY DEF VerifyOld
<1>2. Missed
  BY DEF VerifyOld
<1>3. u \in Units /\ units[u].addr = pc /\ IsCurrent(u)
  BY DEF CurrentAt, UnitsAt
<1>4. UnitTypeOK /\ pc \in Addresses /\ pc # Nowhere /\ LruOK(lru, units, epoch) /\ SinceFlush
  BY DEF UnitInv, UnitTypeOK, TranslationsAssumption
<1>5. Verified(units', u)
  BY <1>1, <1>3, <1>4, VerifiedUnit
<1>6. EntryOK(EntryOf(u), pc, units', epoch)
  BY <1>3, <1>4, <1>5, EntryVerified
<1>7. /\ LruOK(lru, units', epoch)
      /\ \A v \in Units : units'[v].addr # Nowhere => units'[v].epoch <= epoch
      /\ \A v \in Units : UnitOK(units'[v], epoch, since)
  BY <1>3, <1>4, <1>5, VerifiedHolds
<1>8. LruOK(lru', units', epoch) /\ alloc' \in AllocType
  BY <1>1, <1>2, <1>6, <1>7, MissHolds, InsertHolds
<1>9. units' \in UnitsType
  BY <1>5 DEF Verified
<1> QED
  BY <1>1, <1>2, <1>6, <1>7, <1>8, <1>9, MissHolds, MadeHolds

LEMMA TranslateHolds ==
  ASSUME TranslationsAssumption, UnitInv, Translate
  PROVE  UnitInv'
<1>1. PICK u \in Units :
        /\ units' = UnitsWith(u, pc) /\ arm' = [unit |-> u, marked |-> FALSE]
        /\ LRU_InsertBlock(LruWithout(Freed(u, pc)), AllocWithout(Freed(u, pc)), pc, arm')
  BY DEF Translate
<1>2. Missed
  BY DEF Translate
<1>3. UnitTypeOK /\ pc \in Addresses /\ LruOK(lru, units, epoch) /\ SinceFlush
  BY DEF UnitInv, UnitTypeOK
<1>4. EntryOK(arm', pc, units', epoch)
  BY <1>1, <1>3, EntryMade
<1>5. /\ LruOK(LruWithout(Freed(u, pc)), units', epoch)
      /\ AllocWithout(Freed(u, pc)) \in AllocType
      /\ \A s \in Sets : \A w \in Ways : LruWithout(Freed(u, pc))[s][w].m68k # pc
  BY <1>1, <1>3, LruAfterTranslation
<1>6. LruOK(lru', units', epoch) /\ alloc' \in AllocType
  <2>1. SetOf[pc] \in Sets
    BY <1>3, SetOfType
  <2> QED
    BY <1>1, <1>3, <1>4, <1>5, <2>1, InsertHolds
<1>7. units' \in UnitsType
  BY <1>1, <1>3, UnitsWithHolds
<1>8. /\ \A v \in Units : units'[v].addr # Nowhere => units'[v].epoch <= epoch
      /\ \A v \in Units : UnitOK(units'[v], epoch, since)
  BY <1>1, <1>3, UnitsWithSince
<1> QED
  BY <1>2, <1>4, <1>6, <1>7, <1>8, MissHolds, MadeHolds

LEMMA UncachedHolds ==
  ASSUME TranslationsAssumption, UnitInv, Uncached
  PROVE  UnitInv'
<1>1. Dispatching /\ lastPC' \in {pc, Nowhere}
  BY DEF Uncached, LastPCReset
<1>2. /\ UnitTypeOK /\ pc \in Addresses /\ pc # Nowhere
      /\ LruOK(lru, units, epoch) /\ SinceFlush /\ alloc \in AllocType
  BY DEF UnitInv, UnitTypeOK, TranslationsAssumption, AllocType
<1>3. CASE \E u \in Usable(pc) :
             /\ units' = [units EXCEPT ![u].epoch = epoch] /\ arm' = EntryOf(u)
             /\ UNCHANGED <<lru, alloc>>
  <2>1. PICK u \in Usable(pc) :
          /\ units' = [units EXCEPT ![u].epoch = epoch] /\ arm' = EntryOf(u)
          /\ UNCHANGED <<lru, alloc>>
    BY <1>3
  <2>2. u \in Units /\ units[u].addr = pc /\ IsCurrent(u)
    BY DEF Usable, CurrentAt, UnitsAt
  <2>3. Verified(units', u)
    BY <1>2, <2>1, <2>2, VerifiedUnit
  <2>4. arm'.unit = u /\ EntryOK(arm', pc, units', epoch)
    BY <1>2, <2>1, <2>2, <2>3, EntryVerified
  <2>5. /\ LruOK(lru, units', epoch)
        /\ \A v \in Units : units'[v].addr # Nowhere => units'[v].epoch <= epoch
        /\ \A v \in Units : UnitOK(units'[v], epoch, since)
    BY <1>2, <2>2, <2>3, VerifiedHolds
  <2>6. units' \in UnitsType /\ units'[u].version = code[pc]
    BY <2>2, <2>3 DEF Verified, IsCurrent
  <2>7. LruOK(lru', units', epoch) /\ alloc' \in AllocType
    BY <1>2, <2>1, <2>5
  <2> QED
    BY <1>1, <2>4, <2>5, <2>6, <2>7, MadeHolds
<1>4. CASE \E u \in Units :
             /\ units' = UnitsWith(u, pc) /\ arm' = [unit |-> u, marked |-> FALSE]
             /\ lru' = LruWithout(Freed(u, pc)) /\ alloc' = AllocWithout(Freed(u, pc))
  <2>1. PICK u \in Units :
          /\ units' = UnitsWith(u, pc) /\ arm' = [unit |-> u, marked |-> FALSE]
          /\ lru' = LruWithout(Freed(u, pc)) /\ alloc' = AllocWithout(Freed(u, pc))
    BY <1>4
  <2>2. arm'.unit = u /\ EntryOK(arm', pc, units', epoch)
    BY <1>2, <2>1, EntryMade
  <2>3. LruOK(lru', units', epoch) /\ alloc' \in AllocType
    BY <1>2, <2>1, LruAfterTranslation
  <2>4. units' \in UnitsType /\ units'[u].version = code[pc]
    BY <1>2, <2>1, UnitsWithHolds, NewUnitHolds
  <2>5. /\ \A v \in Units : units'[v].addr # Nowhere => units'[v].epoch <= epoch
        /\ \A v \in Units : UnitOK(units'[v], epoch, since)
    BY <1>2, <2>1, UnitsWithSince
  <2> QED
    BY <1>1, <2>2, <2>3, <2>4, <2>5, MadeHolds
<1> QED
  BY <1>3, <1>4 DEF Uncached
-----------------------------------------------------------------------------
(* The call, with what it runs. *)

\* What begins to run is code for PC as memory was since its last flush, or, in
\* the uncached mode, as memory is.
RunsGood ==
  /\ ran'.addr = pc /\ ran'.version \in since[pc]
  /\ ~cacheOn => ran'.version = code[pc]

\* The call as a step.
LEMMA CallHolds ==
  ASSUME TranslationsAssumption, UnitInv, Entering, lastPC' \in {lastPC, Nowhere},
         ran' \in [addr : Addresses, version : Versions],
         units' \in UnitsType, LruOK(lru', units', epoch), alloc' \in AllocType,
         lastPC' # Nowhere => EntryOK(arm, lastPC, units', epoch),
         \A v \in Units : units'[v].addr # Nowhere => units'[v].epoch <= epoch,
         \A v \in Units : UnitOK(units'[v], epoch, since)
  PROVE  UnitInv'
<1>1. lru' \in LruType
  BY DEF LruOK
<1>2. UnitTypeOK'
  BY <1>1 DEF UnitInv, UnitTypeOK, Entering, memVars, LruType, WayType, AllocType, UnitsType
<1>3. LruOK(lru, units, epoch)' /\ ArmOK' /\ UncachedIsCurrent'
  BY DEF Entering, ArmOK, UncachedIsCurrent
<1>4. SinceFlush'
  BY DEF UnitInv, Entering, memVars, SinceFlush
<1> QED
  BY <1>2, <1>3, <1>4 DEF UnitInv

\* The unit that is called.
LEMMA CalledUnit ==
  ASSUME TranslationsAssumption, UnitInv, Entering
  PROVE  /\ EntryOK(arm, pc, units, epoch) /\ pc \in Addresses /\ pc # Nowhere
         /\ arm.unit \in Units /\ units[arm.unit].addr = pc /\ units[arm.unit] \in Unit
<1>1. EntryOK(arm, pc, units, epoch) /\ pc \in Addresses /\ pc # Nowhere
  BY DEF UnitInv, UnitTypeOK, TranslationsAssumption, Entering, ArmOK
<1>2. arm.unit \in Units /\ units[arm.unit].addr = pc
  BY <1>1 DEF EntryOK, Entry
<1> QED
  BY <1>1, <1>2, UnitHolds DEF UnitInv

LEMMA EnterHolds ==
  ASSUME TranslationsAssumption, UnitInv, Enter
  PROVE  UnitInv' /\ RunsGood
<1>1. Entering /\ ~arm.marked /\ UNCHANGED <<lastPC, lru, alloc, units>>
  BY DEF Enter
<1> DEFINE u == arm.unit
<1>2. EntryOK(arm, pc, units, epoch) /\ u \in Units /\ units[u].addr = pc /\ units[u] \in Unit
      /\ pc \in Addresses /\ pc # Nowhere
  BY <1>1, CalledUnit
<1>3. ran' = [addr |-> pc, version |-> units[u].version] /\ units[u].version \in Versions
  BY <1>2 DEF Enter, Runs, Unit
<1>4. RunsGood
  <2>1. ~units[u].marked /\ units[u].epoch = epoch
    BY <1>1, <1>2 DEF EntryOK
  <2>2. units[u].version \in since[pc]
    BY <1>2, <2>1 DEF UnitInv, SinceFlush, UnitOK
  <2>3. ~cacheOn => units[u].version = code[pc]
    BY <1>1 DEF UnitInv, UncachedIsCurrent, Entering
  <2> QED
    BY <1>3, <2>2, <2>3 DEF RunsGood
<1>5. /\ units' \in UnitsType /\ LruOK(lru', units', epoch) /\ alloc' \in AllocType
      /\ lastPC' # Nowhere => EntryOK(arm, lastPC, units', epoch)
  BY <1>1 DEF UnitInv, UnitTypeOK, UnitsType, AllocType, ArmOK
<1>6. /\ \A v \in Units : units'[v].addr # Nowhere => units'[v].epoch <= epoch
      /\ \A v \in Units : UnitOK(units'[v], epoch, since)
  BY <1>1 DEF UnitInv, SinceFlush
<1>7. ran' \in [addr : Addresses, version : Versions] /\ lastPC' \in {lastPC, Nowhere}
  BY <1>1, <1>2, <1>3
<1> QED
  BY <1>1, <1>4, <1>5, <1>6, <1>7, CallHolds

LEMMA SYSValidateUnitHolds ==
  ASSUME TranslationsAssumption, UnitInv, SYSValidateUnit
  PROVE  UnitInv' /\ RunsGood
<1> DEFINE u == arm.unit
<1>1. Entering
  BY DEF SYSValidateUnit
<1>2. EntryOK(arm, pc, units, epoch) /\ u \in Units /\ units[u].addr = pc /\ units[u] \in Unit
      /\ pc \in Addresses /\ pc # Nowhere
  BY <1>1, CalledUnit
<1>3. /\ UnitTypeOK /\ LruOK(lru, units, epoch) /\ SinceFlush /\ alloc \in AllocType
      /\ lastPC \in Addresses \union {Nowhere}
  BY DEF UnitInv, UnitTypeOK, AllocType
<1>4. CASE /\ Passes(u)
           /\ units' = [units EXCEPT ![u].epoch = epoch, ![u].marked = FALSE]
           /\ Runs(units[u]) /\ UNCHANGED <<lastPC, lru, alloc>>
  <2>1. IsCurrent(u)
    BY <1>4 DEF Passes
  <2>2. Verified(units', u)
    BY <1>2, <1>3, <1>4, VerifiedUnit
  <2>3. /\ LruOK(lru, units', epoch)
        /\ \A e : \A a \in Addresses : EntryOK(e, a, units, epoch) => EntryOK(e, a, units', epoch)
        /\ \A v \in Units : units'[v].addr # Nowhere => units'[v].epoch <= epoch
        /\ \A v \in Units : UnitOK(units'[v], epoch, since)
    BY <1>2, <1>3, <2>1, <2>2, VerifiedHolds
  <2>4. lastPC' # Nowhere => EntryOK(arm, lastPC, units', epoch)
    BY <1>3, <1>4, <2>3 DEF UnitInv, ArmOK
  <2>5. units' \in UnitsType /\ LruOK(lru', units', epoch) /\ alloc' \in AllocType
    BY <1>3, <1>4, <2>2, <2>3 DEF Verified
  <2>6. ran' = [addr |-> pc, version |-> code[pc]] /\ code[pc] \in Versions
    BY <1>2, <1>3, <1>4, <2>1 DEF Runs, IsCurrent, UnitTypeOK
  <2>7. RunsGood
    BY <1>2, <1>3, <2>6 DEF RunsGood, SinceFlush
  <2>8. ran' \in [addr : Addresses, version : Versions] /\ lastPC' \in {lastPC, Nowhere}
    BY <1>2, <1>4, <2>6
  <2> QED
    BY <1>1, <2>3, <2>4, <2>5, <2>7, <2>8, CallHolds
<1>5. CASE /\ \E v \in Units :
                /\ units' = UnitsWith(v, pc) /\ Runs(NewUnit(pc))
                /\ lru' = LruWithout(Freed(v, pc)) /\ alloc' = AllocWithout(Freed(v, pc))
           /\ lastPC' = Nowhere
  <2>1. PICK v \in Units :
          /\ units' = UnitsWith(v, pc) /\ Runs(NewUnit(pc))
          /\ lru' = LruWithout(Freed(v, pc)) /\ alloc' = AllocWithout(Freed(v, pc))
    BY <1>5
  <2>2. LruOK(lru', units', epoch) /\ alloc' \in AllocType
    BY <1>2, <1>3, <2>1, LruAfterTranslation
  <2>3. units' \in UnitsType
    BY <1>2, <1>3, <2>1, UnitsWithHolds
  <2>4. /\ \A x \in Units : units'[x].addr # Nowhere => units'[x].epoch <= epoch
        /\ \A x \in Units : UnitOK(units'[x], epoch, since)
    BY <1>2, <1>3, <2>1, UnitsWithSince
  <2>5. ran' = [addr |-> pc, version |-> code[pc]] /\ code[pc] \in Versions
    BY <1>2, <1>3, <2>1, NewUnitHolds DEF Runs, UnitTypeOK
  <2>6. RunsGood
    BY <1>2, <1>3, <2>5 DEF RunsGood, SinceFlush
  <2>7. ran' \in [addr : Addresses, version : Versions] /\ lastPC' \in {lastPC, Nowhere}
    BY <1>2, <1>5, <2>5
  <2> QED
    BY <1>1, <1>5, <2>2, <2>3, <2>4, <2>6, <2>7, CallHolds
<1> QED
  BY <1>2, <1>4, <1>5 DEF SYSValidateUnit
-----------------------------------------------------------------------------
(* The actions of the 68k code. *)

\* What runs changes the LRU, the units or the memory, and not ARMCode.
LEMMA RunningHolds ==
  ASSUME TranslationsAssumption, UnitInv, Running, where' \in {"run", "dispatch"},
         pc' \in Addresses, cacheOn' \in BOOLEAN, epoch' \in 0 .. MaxEpoch,
         lastPC' \in {lastPC, Nowhere}, alloc' \in AllocType, units' \in UnitsType,
         code' \in [Addresses -> Versions], since' \in [Addresses -> SUBSET Versions],
         LruOK(lru', units', epoch'),
         lastPC' # Nowhere => UNCHANGED <<units, epoch>>,
         SinceFlush'
  PROVE  UnitInv'
<1>1. lru' \in LruType
  BY DEF LruOK
<1>2. UnitTypeOK'
  BY <1>1 DEF UnitInv, UnitTypeOK, Running, LruType, WayType, AllocType, UnitsType
<1>3. LruOK(lru, units, epoch)' /\ UncachedIsCurrent'
  BY DEF UncachedIsCurrent
<1>4. ArmOK'
  BY DEF UnitInv, Running, ArmOK
<1> QED
  BY <1>2, <1>3, <1>4 DEF UnitInv

\* The types as they are before such a step.
LEMMA RunningTypes ==
  ASSUME TranslationsAssumption, UnitInv
  PROVE  /\ where \in {"dispatch", "enter", "run"} /\ pc \in Addresses /\ cacheOn \in BOOLEAN
         /\ epoch \in 0 .. MaxEpoch /\ epoch \in Nat /\ MaxEpoch \in Nat
         /\ alloc \in AllocType /\ units \in UnitsType
         /\ code \in [Addresses -> Versions] /\ since \in [Addresses -> SUBSET Versions]
         /\ LruOK(lru, units, epoch) /\ SinceFlush
BY DEF TranslationsAssumption, UnitInv, UnitTypeOK, AllocType, UnitsType

LEMMA StoreCodeHolds ==
  ASSUME TranslationsAssumption, UnitInv, StoreCode
  PROVE  UnitInv'
<1>1. PICK a \in Addresses, v \in Versions :
        /\ code' = [code EXCEPT ![a] = v]
        /\ since' = [since EXCEPT ![a] = since[a] \union {v}]
  BY DEF StoreCode
<1>2. Running /\ where = "run" /\ UNCHANGED <<pc, lastPC, where, cacheOn, lru, alloc, units, epoch>>
  BY DEF StoreCode, Running
<1>3. code' \in [Addresses -> Versions] /\ since' \in [Addresses -> SUBSET Versions]
  BY <1>1, RunningTypes
<1>4. SinceFlush'
  <2>1. \A b \in Addresses : since[b] \subseteq since'[b] /\ code'[b] \in since'[b]
    BY <1>1, RunningTypes DEF SinceFlush
  <2>2. ASSUME NEW u \in Units, units[u].addr # Nowhere, ~units[u].marked, units[u].epoch = epoch
        PROVE  units[u].version \in since'[units[u].addr]
    <3>1. units[u].addr \in Addresses
      BY <2>2, UnitHolds DEF UnitInv
    <3>2. units[u].version \in since[units[u].addr]
      BY <2>2 DEF UnitInv, SinceFlush, UnitOK
    <3> QED
      BY <2>1, <3>1, <3>2
  <2>3. \A u \in Units : units[u].addr # Nowhere => units[u].epoch <= epoch
    BY DEF UnitInv, SinceFlush
  <2>4. units' = units /\ epoch' = epoch
    BY <1>2
  <2> QED
    BY <2>1, <2>2, <2>3, <2>4 DEF SinceFlush, UnitOK
<1> QED
  BY <1>2, <1>3, <1>4, RunningTypes, RunningHolds

LEMMA FlushAllHolds ==
  ASSUME TranslationsAssumption, UnitInv, FlushAll
  PROVE  UnitInv'
<1>1. /\ Running /\ where = "run" /\ epoch < MaxEpoch
      /\ epoch' = epoch + 1 /\ LRU_InvalidateAll /\ lastPC' = Nowhere
      /\ since' = [a \in Addresses |-> {code[a]}]
      /\ UNCHANGED <<pc, where, cacheOn, units, code>>
  BY DEF FlushAll, Running
<1>2. LruOK(lru', units', epoch')
  BY <1>1, LruEmpty DEF LRU_InvalidateAll
<1>3. alloc' \in AllocType
  <2>1. 1 \in Ways
    BY DEF Ways, TranslationsAssumption
  <2> QED
    BY <1>1, <2>1 DEF LRU_InvalidateAll, AllocType
<1>4. since' \in [Addresses -> SUBSET Versions]
  BY <1>1, RunningTypes
<1>5. SinceFlush'
  <2>1. ASSUME NEW u \in Units, units[u].addr # Nowhere PROVE units[u].epoch < epoch'
    <3>1. units[u].epoch \in Nat
      BY <2>1, UnitHolds DEF UnitInv, Unit, TranslationsAssumption
    <3>2. units[u].epoch <= epoch
      BY <2>1 DEF UnitInv, SinceFlush
    <3> QED
      BY <1>1, <3>1, <3>2, RunningTypes
  <2>2. ASSUME NEW u \in Units, units[u].addr # Nowhere
        PROVE  units[u].epoch <= epoch' /\ units[u].epoch # epoch'
    <3>1. units[u].epoch \in Nat
      BY <2>2, UnitHolds DEF UnitInv, Unit, TranslationsAssumption
    <3> QED
      BY <1>1, <2>1, <2>2, <3>1, RunningTypes
  <2>3. \A a \in Addresses : code'[a] \in since'[a]
    BY <1>1
  <2>4. units' = units
    BY <1>1
  <2> QED
    BY <2>2, <2>3, <2>4 DEF SinceFlush, UnitOK
<1>6. epoch' \in 0 .. MaxEpoch
  BY <1>1, RunningTypes
<1> QED
  BY <1>1, <1>2, <1>3, <1>4, <1>5, <1>6, RunningTypes, RunningHolds

LEMMA MoveToCACRHolds ==
  ASSUME TranslationsAssumption, UnitInv, MoveToCACR
  PROVE  UnitInv'
<1>1. /\ Running /\ where = "run" /\ cacheOn' = ~cacheOn
      /\ UNCHANGED <<pc, lastPC, where, lru, alloc, units, epoch, code, since>>
  BY DEF MoveToCACR, Running, memVars
<1>2. SinceFlush'
  BY <1>1 DEF UnitInv, SinceFlush
<1>3. cacheOn' \in BOOLEAN
  BY <1>1
<1> QED
  BY <1>1, <1>2, <1>3, RunningTypes, RunningHolds

LEMMA ReturnHolds ==
  ASSUME TranslationsAssumption, UnitInv, Return
  PROVE  UnitInv'
<1>1. /\ Running /\ where' = "dispatch" /\ pc' \in Addresses
      /\ UNCHANGED <<lastPC, cacheOn, lru, alloc, units, epoch, code, since>>
  BY DEF Return, memVars
<1>2. SinceFlush'
  BY <1>1 DEF UnitInv, SinceFlush
<1> QED
  BY <1>1, <1>2, RunningTypes, RunningHolds
\* LRU_MarkForVerify marks every unmarked entry of the units of U: the entry is
\* equal to the unit's own, and the only one that is.
LEMMA NoneUnmarked ==
  ASSUME TranslationsAssumption, UnitInv, NEW U \in SUBSET Units
  PROVE  /\ LruMarked(U) \in LruType
         /\ \A s \in Sets : \A w \in Ways : LruMarked(U)[s][w].m68k # Nowhere =>
              /\ LruMarked(U)[s][w].m68k = lru[s][w].m68k
              /\ LruMarked(U)[s][w].arm \in Entry
              /\ LruMarked(U)[s][w].arm.unit = lru[s][w].arm.unit
              /\ \/ LruMarked(U)[s][w].arm.marked
                 \/ LruMarked(U)[s][w] = lru[s][w] /\ lru[s][w].arm.unit \notin U
<1> DEFINE k == LruMarked(U)
           Hit(s, w) == \E u \in U : IsHit(u, s, w)
<1>1. lru \in LruType
  BY DEF UnitInv, LruOK
<1>2. \A s \in Sets : \A w \in Ways :
        k[s][w] = IF Hit(s, w) THEN [lru[s][w] EXCEPT !.arm.marked = TRUE] ELSE lru[s][w]
  BY DEF LruMarked
<1>3. k = [s \in Sets |-> [w \in Ways |-> k[s][w]]]
  BY DEF LruMarked
<1> HIDE DEF k
<1>4. ASSUME NEW s \in Sets, NEW w \in Ways, Hit(s, w)
      PROVE  lru[s][w].m68k \in Addresses /\ lru[s][w].arm \in Entry
  <2>1. PICK u \in U : IsHit(u, s, w)
    BY <1>4
  <2>2. lru[s][w].arm = EntryOf(u)
    <3>1. Hits(u) \in SUBSET Ways /\ w \in Hits(u) /\ s = SetOf[units[u].addr]
      BY <2>1 DEF IsHit, Hits
    <3> QED
      BY <3>1 DEF Hits
  <2>3. lru[s][w].arm # Null
    BY <2>2 DEF EntryOf, Null, TranslationsAssumption
  <2>4. lru[s][w] \in WayType
    BY <1>1 DEF LruType
  <2> QED
    BY <2>3, <2>4 DEF WayType, EmptyWay
<1>5. ASSUME NEW s \in Sets, NEW w \in Ways
      PROVE  /\ k[s][w] \in WayType
             /\ k[s][w].m68k # Nowhere =>
                  /\ k[s][w].m68k = lru[s][w].m68k /\ k[s][w].arm \in Entry
                  /\ k[s][w].arm.unit = lru[s][w].arm.unit
                  /\ k[s][w].arm.marked \/ (k[s][w] = lru[s][w] /\ ~Hit(s, w))
  <2>1. lru[s][w] \in WayType
    BY <1>1 DEF LruType
  <2>2. CASE Hit(s, w)
    <3> DEFINE x == lru[s][w]
               e == [x.arm EXCEPT !.marked = TRUE]
    <3>1. x.m68k \in Addresses /\ x.arm \in Entry /\ x # EmptyWay
      BY <1>4, <2>2 DEF EmptyWay, TranslationsAssumption
    <3>2. x \in [m68k : Addresses, arm : Entry]
      BY <2>1, <3>1 DEF WayType
    <3>3. e \in Entry /\ e.unit = x.arm.unit /\ e.marked = TRUE
      BY <3>1 DEF Entry
    <3>4. k[s][w] = [x EXCEPT !.arm = e]
      BY <1>2, <2>2, <3>2
    <3> HIDE DEF x, e
    <3>5. k[s][w] \in [m68k : Addresses, arm : Entry] /\ k[s][w].m68k = x.m68k /\ k[s][w].arm = e
      BY <3>2, <3>3, <3>4
    <3> QED
      BY <3>3, <3>5 DEF WayType, x
  <2>3. CASE ~Hit(s, w)
    BY <1>2, <2>1, <2>3, WayHolds
  <2> QED
    BY <2>2, <2>3
<1>6. k \in LruType
  BY <1>3, <1>5 DEF LruType
<1>7. ASSUME NEW s \in Sets, NEW w \in Ways, lru[s][w].m68k # Nowhere,
             ~lru[s][w].arm.marked, lru[s][w].arm.unit \in U
      PROVE  Hit(s, w)
  <2> DEFINE u == lru[s][w].arm.unit
             a == lru[s][w].m68k
  <2>1. /\ lru[s][w].arm \in Entry /\ units[u].addr = a /\ ~units[u].marked
        /\ SetOf[a] = s /\ \A v \in Ways : lru[s][v].m68k = a => v = w
    BY <1>7 DEF UnitInv, LruOK, EntryOK
  <2>2. units[u].marked \in BOOLEAN
    BY <1>7, <2>1, UnitHolds DEF Unit, UnitInv
  <2>3. lru[s][w].arm = EntryOf(u)
    <3>1. lru[s][w].arm = [unit |-> lru[s][w].arm.unit, marked |-> lru[s][w].arm.marked]
          /\ lru[s][w].arm.marked \in BOOLEAN
      BY <2>1 DEF Entry
    <3>2. lru[s][w].arm.marked = FALSE /\ units[u].marked = FALSE
      BY <1>7, <2>1, <2>2, <3>1
    <3> QED
      BY <3>1, <3>2 DEF EntryOf
  <2>4. ASSUME NEW v \in Ways, lru[s][v].arm = EntryOf(u) PROVE v = w
    <3>1. lru[s][v].arm # Null /\ lru[s][v].arm.unit = u
      BY <1>7, <2>4 DEF EntryOf, Null, TranslationsAssumption
    <3>2. lru[s][v] \in WayType
      BY <1>1 DEF LruType
    <3>3. lru[s][v].m68k # Nowhere
      BY <3>1, <3>2 DEF WayType, EmptyWay, TranslationsAssumption
    <3>4. lru[s][v].m68k = units[u].addr
      BY <3>1, <3>3 DEF UnitInv, LruOK, EntryOK
    <3> QED
      BY <2>1, <3>4
  <2>5. Hits(u) = {w}
    BY <2>1, <2>3, <2>4 DEF Hits
  <2>6. FirstWay(Hits(u)) = w
    BY <2>5, FirstWayIn
  <2>7. s = SetOf[units[u].addr]
    BY <2>1
  <2> QED
    BY <1>7, <2>5, <2>6, <2>7 DEF IsHit
<1>8. ASSUME NEW s \in Sets, NEW w \in Ways, k[s][w].m68k # Nowhere
      PROVE  /\ k[s][w].m68k = lru[s][w].m68k
             /\ k[s][w].arm \in Entry
             /\ k[s][w].arm.unit = lru[s][w].arm.unit
             /\ k[s][w].arm.marked \/ (k[s][w] = lru[s][w] /\ lru[s][w].arm.unit \notin U)
  <2> HIDE DEF Hit
  <2>1. /\ k[s][w].m68k = lru[s][w].m68k /\ k[s][w].arm \in Entry
        /\ k[s][w].arm.unit = lru[s][w].arm.unit
        /\ k[s][w].arm.marked \/ (k[s][w] = lru[s][w] /\ ~Hit(s, w))
    BY <1>5, <1>8
  <2>2. CASE k[s][w].arm.marked
    BY <2>1, <2>2
  <2>3. CASE ~k[s][w].arm.marked
    BY <1>7, <1>8, <2>1, <2>3
  <2> QED
    BY <2>2, <2>3
<1> QED
  BY <1>6, <1>8 DEF k

LEMMA FlushRangeHolds ==
  ASSUME TranslationsAssumption, UnitInv, FlushRange
  PROVE  UnitInv'
<1>1. PICK A \in SUBSET Addresses :
        LET U == UNION {UnitsAt(a) : a \in A} IN
        /\ units' = [u \in Units |-> IF u \in U THEN [units[u] EXCEPT !.marked = TRUE] ELSE units[u]]
        /\ lru' = LruMarked(U)
        /\ since' = [a \in Addresses |-> IF a \in A THEN {code[a]} ELSE since[a]]
  BY DEF FlushRange
<1> DEFINE U == UNION {UnitsAt(a) : a \in A}
<1>2. U \in SUBSET Units /\ \A u \in Units : u \in U <=> units[u].addr \in A
  BY DEF UnitsAt
<1>3. /\ units' = [u \in Units |-> IF u \in U THEN [units[u] EXCEPT !.marked = TRUE] ELSE units[u]]
      /\ lru' = LruMarked(U)
      /\ since' = [a \in Addresses |-> IF a \in A THEN {code[a]} ELSE since[a]]
  BY <1>1
<1> HIDE DEF U
<1>4. /\ Running /\ where = "run" /\ lastPC' = Nowhere
      /\ UNCHANGED <<pc, where, cacheOn, alloc, epoch, code>>
  BY DEF FlushRange, Running
<1>5. ASSUME NEW u \in Units
      PROVE  /\ units'[u] \in Unit \union {NoUnit}
             /\ units'[u].addr = units[u].addr
             /\ units[u].addr # Nowhere => units'[u].epoch = units[u].epoch
             /\ u \notin U => units'[u] = units[u]
             /\ u \in U => units'[u].marked = TRUE
  <2>1. CASE u \in U
    <3>1. units[u].addr # Nowhere
      BY <1>2, <2>1 DEF TranslationsAssumption
    <3>2. units[u] \in Unit
      BY <3>1, UnitHolds DEF UnitInv
    <3>3. units'[u] = [units[u] EXCEPT !.marked = TRUE]
      BY <1>3, <2>1
    <3> QED
      BY <2>1, <3>2, <3>3 DEF Unit
  <2>2. CASE u \notin U
    BY <1>3, <2>2, RunningTypes DEF UnitsType
  <2> QED
    BY <2>1, <2>2
<1>6. units' \in UnitsType
  <2>1. units' = [u \in Units |-> units'[u]]
    BY <1>3
  <2> QED
    BY <1>5, <2>1 DEF UnitsType
<1>7. LruOK(lru', units', epoch')
  <2>1. lru' \in LruType
    BY <1>2, <1>3, NoneUnmarked
  <2>2. ASSUME NEW s \in Sets, NEW w \in Ways, lru'[s][w].m68k # Nowhere
        PROVE  /\ lru'[s][w].m68k = lru[s][w].m68k
               /\ EntryOK(lru'[s][w].arm, lru[s][w].m68k, units', epoch)
    <3>1. /\ lru'[s][w].m68k = lru[s][w].m68k /\ lru'[s][w].arm \in Entry
          /\ lru'[s][w].arm.unit = lru[s][w].arm.unit
          /\ \/ lru'[s][w].arm.marked
             \/ lru'[s][w] = lru[s][w] /\ lru[s][w].arm.unit \notin U
      BY <1>2, <1>3, <2>2, NoneUnmarked
    <3>2. EntryOK(lru[s][w].arm, lru[s][w].m68k, units, epoch)
      BY <2>2, <3>1 DEF UnitInv, LruOK
    <3>3. lru[s][w].arm.unit \in Units
      BY <3>2 DEF EntryOK, Entry
    <3>4. CASE lru'[s][w].arm.marked
      BY <1>5, <3>1, <3>2, <3>3, <3>4 DEF EntryOK
    <3>5. CASE lru'[s][w] = lru[s][w] /\ lru[s][w].arm.unit \notin U
      BY <1>5, <3>1, <3>2, <3>3, <3>5 DEF EntryOK
    <3> QED
      BY <3>1, <3>4, <3>5
  <2>3. LruOK(lru, units, epoch)
    BY DEF UnitInv
  <2> QED
    BY <1>4, <2>1, <2>2, <2>3, LruKept
<1>8. since' \in [Addresses -> SUBSET Versions]
  BY <1>3, RunningTypes
<1>9. SinceFlush'
  <2>1. ASSUME NEW u \in Units
        PROVE  /\ units'[u].addr # Nowhere => units'[u].epoch <= epoch
               /\ UnitOK(units'[u], epoch, since')
    <3>1. units'[u].addr # Nowhere => units'[u].epoch <= epoch
      BY <1>5 DEF UnitInv, SinceFlush
    <3>2. CASE u \in U
      BY <1>5, <3>1, <3>2 DEF UnitOK
    <3>3. CASE u \notin U
      <4>1. units'[u] = units[u] /\ UnitOK(units[u], epoch, since)
        BY <1>5, <3>3 DEF UnitInv, SinceFlush
      <4>2. units[u].addr # Nowhere => since'[units[u].addr] = since[units[u].addr]
        BY <1>2, <1>3, <3>3, UnitHolds DEF UnitInv
      <4> QED
        BY <3>1, <4>1, <4>2 DEF UnitOK
    <3> QED
      BY <3>1, <3>2, <3>3
  <2>2. \A a \in Addresses : code'[a] \in since'[a]
    BY <1>3, <1>4 DEF UnitInv, SinceFlush
  <2>3. epoch' = epoch
    BY <1>4
  <2> QED
    BY <2>1, <2>2, <2>3 DEF SinceFlush
<1> QED
  BY <1>4, <1>6, <1>7, <1>8, <1>9, RunningTypes, RunningHolds
-----------------------------------------------------------------------------
(* The specification. *)

LEMMA UnitInitHolds ==
  ASSUME TranslationsAssumption, UnitInit
  PROVE  UnitInv
<1>1. 1 \in Ways /\ 0 \in 0 .. MaxEpoch
  BY DEF TranslationsAssumption, Ways
<1>2. LruOK(lru, units, epoch)
  BY LruEmpty DEF UnitInit
<1>3. UnitTypeOK
  BY <1>1, <1>2 DEF UnitInit, UnitTypeOK, LruOK, LruType, WayType
<1>4. SinceFlush
  <2>1. \A u \in Units : units[u].addr = Nowhere
    BY DEF UnitInit, NoUnit
  <2>2. \A a \in Addresses : code[a] \in since[a]
    BY DEF UnitInit
  <2> QED
    BY <2>1, <2>2 DEF SinceFlush, UnitOK
<1> QED
  BY <1>2, <1>3, <1>4 DEF UnitInit, UnitInv, ArmOK, UncachedIsCurrent

LEMMA UnitStepHolds ==
  ASSUME TranslationsAssumption, UnitInv, [UnitNext]_unitVars
  PROVE  UnitInv'
<1>1. CASE UNCHANGED unitVars
  BY <1>1 DEF unitVars, UnitInv, UnitTypeOK, ArmOK, SinceFlush, UncachedIsCurrent
<1>2. CASE UnitNext
  BY <1>2, RunAgainHolds, FindBlockHolds, FindUnitQuickHolds, VerifyOldHolds, TranslateHolds,
     UncachedHolds, EnterHolds, SYSValidateUnitHolds, StoreCodeHolds, FlushAllHolds,
     FlushRangeHolds, MoveToCACRHolds, ReturnHolds
  DEF UnitNext
<1> QED
  BY <1>1, <1>2

\* Only the call and the check of a marked entry begin to run code.
LEMMA UnitStepRuns ==
  ASSUME TranslationsAssumption, UnitInv, [UnitNext]_unitVars, where = "enter", where' = "run"
  PROVE  RunsGood
<1>1. Enter \/ SYSValidateUnit
  BY DEF UnitNext, unitVars, RunAgain, LRU_FindBlock, Missed, FindUnitQuick, VerifyOld,
     Translate, Uncached, Dispatching, StoreCode, FlushAll, FlushRange, MoveToCACR, Return, Running
<1> QED
  BY <1>1, EnterHolds, SYSValidateUnitHolds

\* In the two properties a pointer dangles when its address is another one.
LEMMA InvHolds ==
  ASSUME TranslationsAssumption, UnitInv
  PROVE  NoAddressTwice /\ NothingDangles
<1>1. NoAddressTwice
  BY DEF UnitInv, LruOK, NoAddressTwice
<1>2. ASSUME NEW s \in Sets, NEW w \in Ways, lru[s][w] # EmptyWay
      PROVE  units[lru[s][w].arm.unit].addr = lru[s][w].m68k
  <2>1. lru[s][w].m68k # Nowhere
    BY <1>2, WayHolds DEF UnitInv, LruOK, LruType
  <2> QED
    BY <2>1 DEF UnitInv, LruOK, EntryOK
<1>3. NothingDangles
  BY <1>2 DEF UnitInv, ArmOK, EntryOK, NothingDangles
<1> QED
  BY <1>1, <1>3

(* Whatever runs and is flushed, in whichever order, the caches of the         *)
(* dispatcher hold entries of their types, and some way of each set of the LRU *)
(* may be replaced.                                                            *)
THEOREM TypeCorrect ==
  ASSUME TranslationsAssumption
  PROVE  UnitSpec => []UnitTypeOK
<1>1. UnitInit => UnitInv
  BY UnitInitHolds
<1>2. UnitInv /\ [UnitNext]_unitVars => UnitInv'
  BY UnitStepHolds
<1>3. UnitInv => UnitTypeOK
  BY DEF UnitInv
<1> QED
  BY <1>1, <1>2, <1>3, PTL DEF UnitSpec

(* The dispatcher never calls a unit of another address, nor one made from     *)
(* memory that was overwritten before the last flush of its address; with the  *)
(* instruction cache off, nor one that differs from memory as it is.           *)
THEOREM TranslationsAlwaysCurrent ==
  ASSUME TranslationsAssumption
  PROVE  UnitSpec => TranslationsAreCurrent
<1>1. UnitInit => UnitInv
  BY UnitInitHolds
<1>2. UnitInv /\ [UnitNext]_unitVars => UnitInv'
  BY UnitStepHolds
<1>3. UnitInv => NoAddressTwice /\ NothingDangles
  BY InvHolds
<1>4. UnitInv /\ [UnitNext]_unitVars =>
        [where = "enter" /\ where' = "run" => ran'.addr = pc /\ ran'.version \in since[pc]]_unitVars
  BY UnitStepRuns DEF RunsGood
<1>5. UnitInv /\ [UnitNext]_unitVars =>
        [where = "enter" /\ where' = "run" /\ ~cacheOn => ran'.version = code[pc]]_unitVars
  BY UnitStepRuns DEF RunsGood
<1> QED
  BY <1>1, <1>2, <1>3, <1>4, <1>5, PTL
  DEF UnitSpec, TranslationsAreCurrent, RunsFlushedCode, UncachedRunsMemory

=============================================================================
