---------------------------- MODULE Translations ----------------------------
(***************************************************************************)
(* The dispatcher of the 68k emulation: which ARM code runs for the        *)
(* address in PC.  Four places remember a translation: the list of units   *)
(* (ICache), the cache of recent units (LRU), the pair LastPC / ARMCode of *)
(* the short loop, and an entry address that was marked (its top byte is   *)
(* 0xaa) so that entering it faults and the unit is verified first.        *)
(*                                                                         *)
(* The translator is not in src/.  What the dispatcher takes from it:      *)
(* verifying a unit keeps it, at the current epoch, when the memory it was *)
(* made from is unchanged, and frees it otherwise; a unit that is freed    *)
(* leaves the LRU; a flush of everything starts an epoch and empties the   *)
(* LRU; a flush of a range marks its units; each flush resets LastPC.      *)
(***************************************************************************)
EXTENDS Integers, FiniteSets

CONSTANTS
  Addresses,   \* 68k addresses where code begins
  Nowhere,     \* 0xffffffff: no address
  Sets,        \* the sets of the LRU, each as the addresses that fall into it
  NWays,       \* EMU68_LRU_WAY_COUNT
  Units,       \* the memory of the translator, one unit in each place
  Versions,    \* what may be written at an address
  MaxEpoch     \* bound: how often everything is flushed

Ways == 1 .. NWays

\* ADDR_2_SET
SetOf == [a \in Addresses |-> CHOOSE s \in Sets : a \in s]

NoUnit == [addr |-> Nowhere]

TranslationsAssumption ==
  /\ NWays \in Nat \ {0, 1}
  /\ \A a \in Addresses : \E s \in Sets : a \in s
  /\ \A s, t \in Sets : s \intersect t # {} => s = t
  /\ Nowhere \notin Addresses
  /\ NoUnit \notin Units /\ Units # {} /\ Versions # {} /\ Addresses # {} /\ MaxEpoch \in Nat

VARIABLES
  pc, lastPC, arm,     \* PC, CTX_LAST_PC and ARMCode
  where,                  \* "dispatch", "enter" (ARMCode is called) or "run"
  cacheOn,             \* CACR_IE
  lru, alloc,          \* LRU_cache; LRU_alloc as the set of its 1 bits
  units, epoch,        \* the units of ICache and EPOCH
  ran,                 \* the code that began to run last
  code,                \* the 68k memory
  since                \* history: the contents since the last flush

unitVars == <<pc, lastPC, arm, where, cacheOn, lru, alloc, units, epoch, ran, code, since>>
memVars == <<code, since>>

Unit == [addr : Addresses, version : Versions, epoch : 0 .. MaxEpoch, marked : BOOLEAN]

\* An entry address: the unit's code, marked or not.
Null == [unit |-> NoUnit, marked |-> FALSE]
Entry == [unit : Units, marked : BOOLEAN]
EntryOf(u) == [unit |-> u, marked |-> units[u].marked]

EmptyWay == [m68k |-> Nowhere, arm |-> Null]

(* The types.  LRU_InsertBlock replaces the way of the first 1 bit of the    *)
(* set's word: some bit always is 1.                                         *)
UnitTypeOK ==
  /\ pc \in Addresses /\ lastPC \in Addresses \union {Nowhere}
  /\ arm \in Entry \union {Null} /\ where \in {"dispatch", "enter", "run"}
  /\ cacheOn \in BOOLEAN /\ epoch \in 0 .. MaxEpoch
  /\ lru \in [Sets -> [Ways -> [m68k : Addresses, arm : Entry] \union {EmptyWay}]]
  /\ alloc \in [Sets -> (SUBSET Ways) \ {{}}]
  /\ units \in [Units -> Unit \union {NoUnit}]
  /\ ran \in [addr : Addresses, version : Versions] \union {NoUnit}
  /\ code \in [Addresses -> Versions] /\ since \in [Addresses -> SUBSET Versions]

UnitInit ==
  /\ pc \in Addresses /\ lastPC = Nowhere /\ arm = Null /\ where = "dispatch"
  /\ cacheOn \in BOOLEAN /\ ran = NoUnit
  /\ lru = [s \in Sets |-> [w \in Ways |-> EmptyWay]] /\ alloc = [s \in Sets |-> Ways]
  /\ units = [u \in Units |-> NoUnit] /\ epoch = 0
  /\ code \in [Addresses -> Versions] /\ since = [a \in Addresses |-> {code[a]}]

-----------------------------------------------------------------------------
(* The LRU.  A bit of LRU_alloc is 1 while its way may be replaced. *)

WaysHolding(a) == {w \in Ways : lru[SetOf[a]][w].m68k = a}
FirstWay(W) == CHOOSE w \in W : \A x \in W : w <= x

\* Fault: the search leaves out the last way.
FoundWaysShort(a) == WaysHolding(a) \ {NWays}
FoundWays(a) == WaysHolding(a)

\* Fault: the bits are not set again when the last one is cleared.
RemainingOnly(free, w) == free \ {w}
Remaining(free, w) == IF free \subseteq {w} THEN Ways \ {w} ELSE free \ {w}

LRU_InsertBlock(l, al, a, e) ==
  LET s == SetOf[a]
      w == FirstWay(al[s])
  IN  /\ lru' = [l EXCEPT ![s][w] = [m68k |-> a, arm |-> e]]
      /\ alloc' = [al EXCEPT ![s] = Remaining(@, w)]

\* LRU_InvalidateByM68kAddress for every address of A: the first way that
\* holds it.
Leaving(A, s) ==
  {w \in Ways : lru[s][w].m68k \in A /\ w = FirstWay(WaysHolding(lru[s][w].m68k))}
LruWithout(A) ==
  [s \in Sets |-> [w \in Ways |-> IF w \in Leaving(A, s) THEN EmptyWay ELSE lru[s][w]]]
AllocWithout(A) == [s \in Sets |-> alloc[s] \union Leaving(A, s)]

\* LRU_MarkForVerify compares entry addresses and marks the first that is equal.
Hits(u) == {w \in Ways : lru[SetOf[units[u].addr]][w].arm = EntryOf(u)}
IsHit(u, s, w) == s = SetOf[units[u].addr] /\ w \in Hits(u) /\ w = FirstWay(Hits(u))
LruMarked(U) ==
  [s \in Sets |-> [w \in Ways |->
    IF \E u \in U : IsHit(u, s, w) THEN [lru[s][w] EXCEPT !.arm.marked = TRUE]
    ELSE lru[s][w]]]

-----------------------------------------------------------------------------
(* The translator, external. *)

UnitsAt(a) == {u \in Units : units[u].addr = a}
IsCurrent(u) == units[u].version = code[units[u].addr]
CurrentAt(a) == {u \in UnitsAt(a) : IsCurrent(u)}

NewUnit(a) == [addr |-> a, version |-> code[a], epoch |-> epoch, marked |-> FALSE]

\* An outdated unit of a is freed and a new one made in place u; when there is
\* no room the unit in u is evicted.
MayUse(u, a) ==
  units[u] = NoUnit \/ u \in UnitsAt(a) \/ \A v \in Units : units[v] # NoUnit
UnitsWith(u, a) ==
  [v \in Units |-> IF v = u THEN NewUnit(a)
                   ELSE IF v \in UnitsAt(a) THEN NoUnit ELSE units[v]]
Freed(u, a) == {a, units[u].addr} \ {Nowhere}

-----------------------------------------------------------------------------
(* One turn of the loop. *)

Dispatching == where = "dispatch" /\ where' = "enter" /\ UNCHANGED <<memVars, epoch, cacheOn, pc, ran>>

RunAgain ==
  /\ Dispatching /\ cacheOn /\ lastPC = pc
  /\ UNCHANGED <<lastPC, arm, lru, alloc, units>>

LRU_FindBlock ==
  /\ Dispatching /\ cacheOn /\ lastPC # pc /\ FoundWays(pc) # {}
  /\ LET w == FirstWay(FoundWays(pc))
     IN  /\ arm' = lru[SetOf[pc]][w].arm
         /\ alloc' = [alloc EXCEPT ![SetOf[pc]] = Remaining(@, w)]
  /\ lastPC' = pc
  /\ UNCHANGED <<lru, units>>

Missed == Dispatching /\ cacheOn /\ lastPC # pc /\ FoundWays(pc) = {} /\ lastPC' = pc

KeyMatch(u) == units[u].addr = pc /\ units[u].epoch = epoch

FindUnitQuick ==
  /\ Missed
  /\ \E u \in Units :
       KeyMatch(u) /\ arm' = EntryOf(u) /\ LRU_InsertBlock(lru, alloc, pc, EntryOf(u))
  /\ UNCHANGED units

\* A unit of an older epoch whose memory is unchanged.
VerifyOld ==
  /\ Missed /\ ~ \E u \in Units : KeyMatch(u)
  /\ \E u \in CurrentAt(pc) :
       /\ units' = [units EXCEPT ![u].epoch = epoch]
       /\ arm' = EntryOf(u) /\ LRU_InsertBlock(lru, alloc, pc, EntryOf(u))

\* No unit, or one that is outdated: translate.
Translate ==
  /\ Missed /\ (~ \E u \in Units : KeyMatch(u)) /\ CurrentAt(pc) = {}
  /\ \E u \in Units :
       /\ MayUse(u, pc) /\ units' = UnitsWith(u, pc)
       /\ arm' = [unit |-> u, marked |-> FALSE]
       /\ LRU_InsertBlock(LruWithout(Freed(u, pc)), AllocWithout(Freed(u, pc)), pc, arm')

\* Fault: LastPC survives a turn without the cache.
LastPCKept == lastPC
LastPCReset == Nowhere

\* Fault: a unit that was found is not verified.
UsableAny(a) == UnitsAt(a)
Usable(a) == CurrentAt(a)

\* The uncached mode verifies or translates on every turn and inserts nothing.
Uncached ==
  /\ Dispatching /\ ~cacheOn /\ lastPC' = LastPCReset
  /\ \/ \E u \in Usable(pc) :
          /\ units' = [units EXCEPT ![u].epoch = epoch] /\ arm' = EntryOf(u)
          /\ UNCHANGED <<lru, alloc>>
     \/ /\ Usable(pc) = {}
        /\ \E u \in Units :
             /\ MayUse(u, pc) /\ units' = UnitsWith(u, pc)
             /\ arm' = [unit |-> u, marked |-> FALSE]
             /\ lru' = LruWithout(Freed(u, pc)) /\ alloc' = AllocWithout(Freed(u, pc))

-----------------------------------------------------------------------------
(* ARMCode is called. *)

Runs(unit) == ran' = [addr |-> unit.addr, version |-> unit.version]
Entering == where = "enter" /\ where' = "run" /\ UNCHANGED <<memVars, epoch, cacheOn, pc, arm>>

Enter ==
  /\ Entering /\ ~arm.marked /\ Runs(units[arm.unit])
  /\ UNCHANGED <<lastPC, lru, alloc, units>>

\* Fault: an outdated unit is entered as well.
PassesAny(u) == TRUE
Passes(u) == IsCurrent(u)

\* A marked entry faults.  A unit that verifies gets its entry address back,
\* ARMCode and the LRU keep the marked one.
SYSValidateUnit ==
  /\ Entering /\ arm.marked
  /\ LET a == units[arm.unit].addr IN
     \/ /\ Passes(arm.unit)
        /\ units' = [units EXCEPT ![arm.unit].epoch = epoch, ![arm.unit].marked = FALSE]
        /\ Runs(units[arm.unit])
        /\ UNCHANGED <<lastPC, lru, alloc>>
     \/ /\ ~Passes(arm.unit)
        /\ \E u \in Units : MayUse(u, a) /\ units' = UnitsWith(u, a) /\ Runs(NewUnit(a))
              /\ lru' = LruWithout(Freed(u, a)) /\ alloc' = AllocWithout(Freed(u, a))
        /\ lastPC' = Nowhere

-----------------------------------------------------------------------------
(* The 68k code runs. *)

Running == where = "run" /\ UNCHANGED <<arm, ran>>

StoreCode ==
  /\ Running
  /\ \E a \in Addresses, v \in Versions :
       /\ code' = [code EXCEPT ![a] = v]
       /\ since' = [since EXCEPT ![a] = @ \union {v}]
  /\ UNCHANGED <<pc, lastPC, where, cacheOn, lru, alloc, units, epoch>>

LRU_InvalidateAll ==
  /\ lru' = [s \in Sets |-> [w \in Ways |-> EmptyWay]]
  /\ alloc' = [s \in Sets |-> Ways]

FlushAll ==
  /\ Running /\ epoch < MaxEpoch
  /\ epoch' = epoch + 1 /\ LRU_InvalidateAll /\ lastPC' = Nowhere
  /\ since' = [a \in Addresses |-> {code[a]}]
  /\ UNCHANGED <<pc, where, cacheOn, units, code>>

FlushRange ==
  /\ Running
  /\ \E A \in SUBSET Addresses :
       LET U == UNION {UnitsAt(a) : a \in A} IN
       /\ A # {}
       /\ units' = [u \in Units |-> IF u \in U THEN [units[u] EXCEPT !.marked = TRUE] ELSE units[u]]
       /\ lru' = LruMarked(U)
       /\ since' = [a \in Addresses |-> IF a \in A THEN {code[a]} ELSE since[a]]
  /\ lastPC' = Nowhere
  /\ UNCHANGED <<pc, where, cacheOn, alloc, epoch, code>>

MoveToCACR ==
  /\ Running /\ cacheOn' = ~cacheOn
  /\ UNCHANGED <<pc, lastPC, where, lru, alloc, units, epoch, memVars>>

\* The unit returns; an interrupt may have replaced PC.
Return ==
  /\ Running /\ where' = "dispatch" /\ pc' \in Addresses
  /\ UNCHANGED <<lastPC, cacheOn, lru, alloc, units, epoch, memVars>>

UnitNext ==
  \/ RunAgain \/ LRU_FindBlock \/ FindUnitQuick \/ VerifyOld \/ Translate \/ Uncached
  \/ Enter \/ SYSValidateUnit
  \/ StoreCode \/ FlushAll \/ FlushRange \/ MoveToCACR \/ Return

UnitSpec == UnitInit /\ [][UnitNext]_unitVars

-----------------------------------------------------------------------------
(* No address sits in two ways of the LRU: LRU_InvalidateByM68kAddress and   *)
(* LRU_MarkForVerify stop at the first, the second would survive them.       *)
NoAddressTwice ==
  \A s \in Sets : \A v, w \in Ways :
    lru[s][v].m68k = lru[s][w].m68k /\ lru[s][v].m68k # Nowhere => v = w

(* No pointer to a unit that is gone: what the LRU holds for an address, and *)
(* ARMCode while LastPC or a call may use it, is a unit of that address.     *)
NothingDangles ==
  /\ \A s \in Sets : \A w \in Ways :
       lru[s][w] # EmptyWay => units[lru[s][w].arm.unit].addr = lru[s][w].m68k
  /\ lastPC # Nowhere => units[arm.unit].addr = lastPC
  /\ where = "enter" => units[arm.unit].addr = pc

(* Through whichever of the four ways a unit is found, what begins to run is *)
(* the code for PC, translated from the memory as it has been at some time   *)
(* since the last flush that covers the address.                             *)
RunsFlushedCode ==
  [][where = "enter" /\ where' = "run" => ran'.addr = pc /\ ran'.version \in since[pc]]_unitVars

(* With the 68k instruction cache off, what runs is what memory holds, even  *)
(* when the program has flushed nothing.                                     *)
UncachedRunsMemory ==
  [][where = "enter" /\ where' = "run" /\ ~cacheOn => ran'.version = code[pc]]_unitVars

(* The four together.                                                        *)
TranslationsAreCurrent ==
  []NoAddressTwice /\ []NothingDangles /\ RunsFlushedCode /\ UncachedRunsMemory

=============================================================================
