-------------------------- MODULE EventMirrorProofs --------------------------
(***************************************************************************)
(* Proofs about EventMirror, for every set of registers, every capacity of *)
(* the ring, every batch and any number of writes: no event is lost        *)
(* without being counted, what CPU1 plays only lags behind what CPU0       *)
(* captured, and a frame is rendered only from a complete register state.  *)
(*                                                                         *)
(* The argument follows the stamps.  The ring always holds a subsequence   *)
(* of the observed writes (Stream).  It is the whole rest of them, unless  *)
(* a drop is on record that CPU1 has yet to recover from (NoGap), and even *)
(* then no write is missing up to the replay clock, because the clock was  *)
(* read before the drop was looked for (Covered).                          *)
(***************************************************************************)
EXTENDS EventMirror, TLAPS

\* The slot of an event, and the end of the recorded ones: a slot that is filled
\* but not yet published counts.
Slot(i) == events[i % Capacity]
End == IF ppc = "publish" THEN head + 1 ELSE head

\* The writes that have, or had, a place in the ring.
Recorded == IF ppc = "full" THEN observed - 1 ELSE observed

TypeInv ==
  /\ TypeOK
  /\ observed <= writes
  /\ ppc \in {"capture", "record"} => observed < writes
  /\ ppc \in {"full", "publish"} => observed > 0
  /\ cpc = "pop" => processed < Batch

\* The lock is held by whom it says.
LockInv ==
  /\ lock = "producer" <=> ppc \in {"record", "full", "publish", "unlock"}
  /\ lock = "consumer" <=> cpc \in {"copy", "unlock"}

RingInv ==
  /\ tail <= head /\ head - tail <= Capacity
  /\ ppc = "publish" => head - tail < Capacity
  /\ cpc = "pop" => tail < head

\* The counts and the clock: the snapshot is of the past, and what is due has
\* settled.
OrderInv ==
  /\ lastDrop <= dropped
  /\ at <= observed /\ clock <= Settled
  /\ cpc \in {"snapshot", "copy", "unlock", "restore"} => recovery
  /\ cpc \in {"unlock", "restore"} =>
       at <= snap.stamp /\ snap.stamp <= Settled /\ snap.dropped <= dropped

\* An event is the step of the register file at its stamp.
IsStep(e) ==
  /\ e.stamp \in 1 .. observed
  /\ past[e.stamp] = Stored(past[e.stamp - 1], e.cells, e.value)

Stream ==
  /\ \A i \in tail .. End - 1 : IsStep(Slot(i))
  /\ \A i, j \in tail .. End - 1 : i < j => Stamp(i) < Stamp(j)
  /\ \A i \in Consumed .. End - 1 : at < Stamp(i)
  /\ cpc \in {"unlock", "restore"} =>
       \A i \in tail .. End - 1 : snap.stamp < Stamp(i)
  /\ ppc = "publish" => Stamp(head) = observed

\* A register file as it was after n writes, but for what no resynchronisation
\* restores.
Shows(file, n) ==
  \A c \in Cells : file[c] = past[n][c] \/ (c \notin Restorable /\ file[c] = 0)

Copies ==
  /\ latest = past[observed]
  /\ Shows(live, at)
  /\ cpc \in {"unlock", "restore"} => snap.file = past[snap.stamp]

\* The ring, from a place in it, continues the moment n without a gap.
Continues(n, first) ==
  /\ Recorded - n = End - first
  /\ \A i \in first .. End - 1 : Stamp(i) = n + 1 + (i - first)

NoGap ==
  /\ ~Unrecovered => Continues(at, Consumed)
  /\ cpc = "boot" => Continues(at, Consumed) \/ head - tail >= Capacity
  /\ cpc = "boot" /\ ppc = "full" => head - tail >= Capacity
  /\ cpc \in {"unlock", "restore"} /\ dropped = snap.dropped =>
       Continues(snap.stamp, tail)

\* Every write that is due in this frame and not applied is in the ring.
Covered ==
  /\ cpc \in {"apply", "pop"} =>
       \A n \in at + 1 .. clock :
         Consumed + (n - at) - 1 < head /\ Stamp(Consumed + (n - at) - 1) = n
  /\ cpc = "render" => clock <= at

MirrorInv ==
  TypeInv /\ LockInv /\ RingInv /\ OrderInv /\ Stream /\ Copies /\ NoGap
  /\ Covered

-----------------------------------------------------------------------------
(* The control.                                                            *)

\* The cases of a step, one per action of EventMirror.
LEMMA StepCases ==
  ASSUME [Next]_vars
  PROVE  \/ \E cells \in Words : BusWrite(cells)
         \/ CaptureBusy \/ CaptureLock \/ Record \/ DropFull \/ Publish
         \/ CaptureUnlock
         \/ StartLoop \/ LoopTop \/ SnapshotBusy \/ SnapshotLock \/ SnapshotCopy
         \/ SnapshotUnlock \/ Restore \/ ApplyEvent \/ PopEvent \/ EndBatch
         \/ Silence \/ Render \/ UNCHANGED vars
BY DEF Next, Capture, Frame

\* A register write turns one register file into another.
LEMMA StoredIsFile ==
  ASSUME NEW file \in Files, NEW cells \in SUBSET Cells,
         NEW value \in 0 .. MaxWrites
  PROVE  Stored(file, cells, value) \in Files
BY DEF Stored, Files

\* A stamp in the ring is the number of a write, and a slot is an event.
LEMMA SlotType ==
  ASSUME TypeOK, NEW i \in Nat
  PROVE  /\ i % Capacity \in 0 .. Capacity - 1
         /\ Slot(i) \in Events /\ Stamp(i) = Slot(i).stamp
         /\ Stamp(i) \in 0 .. MaxWrites
<1>1. i % Capacity \in 0 .. Capacity - 1
  BY MirrorAssumption
<1>2. Slot(i) \in Events
  BY <1>1 DEF TypeOK, Slot
<1> QED
  BY <1>1, <1>2 DEF Slot, Stamp, Events

LEMMA TypeStep == TypeInv /\ [Next]_vars => TypeInv'
<1> SUFFICES ASSUME TypeInv, [Next]_vars PROVE TypeInv'
  OBVIOUS
<1> USE DEF TypeInv, busVars, ringVars, shadowVars, producerVars, replayVars,
            recoveryVars, consumerVars
<1>1. CASE \E cells \in Words : BusWrite(cells)
  <2>1. PICK cells \in Words : BusWrite(cells)
    BY <1>1
  <2>2. cells \in SUBSET Cells /\ writes + 1 \in 0 .. MaxWrites
    BY <2>1, MirrorAssumption DEF BusWrite, TypeOK
  <2>3. paula' \in Files
    BY <2>1, <2>2, StoredIsFile DEF BusWrite, TypeOK
  <2>4. UNCHANGED <<ringVars, shadowVars, consumerVars, lock, dropped, missed>>
        /\ writes' = writes + 1 /\ word' = cells /\ ppc' = "capture"
    BY <2>1 DEF BusWrite
  <2> QED
    BY <2>2, <2>3, <2>4 DEF TypeOK, ProducerPc
<1>2. CASE CaptureBusy
  BY <1>2 DEF CaptureBusy, TypeOK, ProducerPc
<1>3. CASE CaptureLock
  BY <1>3 DEF CaptureLock, TypeOK, ProducerPc
<1>4. CASE Record
  <2>1. /\ ppc = "record" /\ observed' = observed + 1
        /\ latest' = Stored(latest, word, writes)
        /\ past' = [past EXCEPT ![observed + 1] = latest']
        /\ UNCHANGED <<busVars, head, consumerVars, lock, dropped, missed>>
    BY <1>4 DEF Record
  <2>2. observed' \in 1 .. MaxWrites /\ observed' <= writes
    <3>1. /\ observed \in 0 .. MaxWrites /\ writes \in 0 .. MaxWrites
          /\ observed < writes
      BY <2>1 DEF TypeOK
    <3> QED
      BY <2>1, <3>1, MirrorAssumption
  <2>3. latest' \in Files /\ past' \in [0 .. MaxWrites -> Files]
    BY <2>1, StoredIsFile DEF TypeOK
  <2>4. events' \in [0 .. Capacity - 1 -> Events]
        /\ ppc' \in {"full", "publish"}
    <3>1. CASE head - tail >= Capacity
      BY <1>4, <3>1 DEF Record, TypeOK
    <3>2. CASE ~(head - tail >= Capacity)
      <4>1. [cells |-> word, value |-> writes, stamp |-> observed'] \in Events
        BY <2>2 DEF TypeOK, Events
      <4> QED
        BY <1>4, <3>2, <4>1 DEF Record, TypeOK
    <3> QED
      BY <3>1, <3>2
  <2> QED
    BY <2>1, <2>2, <2>3, <2>4 DEF TypeOK, ProducerPc
<1>5. CASE DropFull
  BY <1>5 DEF DropFull, TypeOK, ProducerPc
<1>6. CASE Publish
  BY <1>6 DEF Publish, TypeOK, ProducerPc
<1>7. CASE CaptureUnlock
  BY <1>7 DEF CaptureUnlock, TypeOK, ProducerPc
<1>8. CASE StartLoop
  BY <1>8 DEF StartLoop, TypeOK, ConsumerPc
<1>9. CASE LoopTop
  <2>1. clock' \in 0 .. MaxWrites
    <3>1. /\ observed \in 0 .. MaxWrites /\ clock \in 0 .. MaxWrites
          /\ clock' \in clock .. Settled /\ Settled \in {observed - 1, observed}
      BY <1>9 DEF LoopTop, TypeOK, Settled
    <3> QED
      BY <3>1, MirrorAssumption
  <2>2. recovery' \in BOOLEAN
    BY <1>9 DEF LoopTop, TypeOK, NeedsRecovery
  <2>3. cpc' \in {"snapshot", "apply"} /\ processed' = 0
        /\ UNCHANGED <<producerVars, tail, live, at, event, lastDrop, snap,
                       lock, dropped, missed>>
    BY <1>9 DEF LoopTop
  <2>4. 0 \in 0 .. Batch
    BY MirrorAssumption
  <2> QED
    BY <2>1, <2>2, <2>3, <2>4 DEF TypeOK, ConsumerPc
<1>10. CASE SnapshotBusy \/ SnapshotLock \/ SnapshotUnlock
  BY <1>10 DEF SnapshotBusy, SnapshotLock, SnapshotUnlock, Released, TypeOK,
               ConsumerPc
<1>11. CASE SnapshotCopy
  <2>1. snap' \in [file : Files, dropped : Nat, stamp : 0 .. MaxWrites]
    BY <1>11 DEF SnapshotCopy, TypeOK
  <2> QED
    BY <1>11, <2>1 DEF SnapshotCopy, SkipPrefix, TypeOK, ConsumerPc
<1>12. CASE Restore
  <2>1. live' \in Files
    <3>1. snap.file \in [Cells -> 0 .. MaxWrites] /\ 0 \in 0 .. MaxWrites
      BY MirrorAssumption DEF TypeOK, Files
    <3> QED
      BY <1>12, <3>1 DEF Restore, Restored, Files
  <2>2. NoSnap \in [file : Files, dropped : Nat, stamp : 0 .. MaxWrites]
    BY MirrorAssumption DEF NoSnap, Reset, Files
  <2> QED
    BY <1>12, <2>1, <2>2 DEF Restore, SnapshotDrops, TypeOK, ConsumerPc
<1>13. CASE ApplyEvent
  <2>1. NextEvent \in Events
    BY SlotType DEF NextEvent, Slot, TypeOK
  <2>2. live' \in Files
    BY <1>13, <2>1, StoredIsFile DEF ApplyEvent, TypeOK, Events
  <2>3. /\ event' = NextEvent /\ at' = NextEvent.stamp /\ cpc' = "pop"
        /\ processed < Batch
        /\ UNCHANGED <<producerVars, tail, processed, recoveryVars, lock,
                       dropped, missed>>
    BY <1>13 DEF ApplyEvent, InBatch
  <2>4. at' \in 0 .. MaxWrites
    BY <2>1, <2>3 DEF Events
  <2> QED
    BY <2>1, <2>2, <2>3, <2>4 DEF TypeOK, ConsumerPc
<1>14. CASE PopEvent
  <2>1. NoEvent \in Events
    BY MirrorAssumption DEF NoEvent, Events
  <2>2. processed + 1 \in 0 .. Batch /\ tail + 1 \in Nat
    BY <1>14, MirrorAssumption DEF PopEvent, TypeOK
  <2> QED
    BY <1>14, <2>1, <2>2 DEF PopEvent, TypeOK, ConsumerPc
<1>15. CASE EndBatch
  BY <1>15 DEF EndBatch, TypeOK, ConsumerPc
<1>16. CASE Silence \/ Render
  BY <1>16 DEF Silence, Render, Emit, TypeOK, ConsumerPc
<1>17. CASE UNCHANGED vars
  BY <1>17 DEF vars, TypeOK
<1> QED
  BY StepCases, <1>1, <1>2, <1>3, <1>4, <1>5, <1>6, <1>7, <1>8, <1>9, <1>10,
     <1>11, <1>12, <1>13, <1>14, <1>15, <1>16, <1>17
LEMMA LockStep == LockInv /\ [Next]_vars => LockInv'
<1> SUFFICES ASSUME LockInv, [Next]_vars PROVE LockInv'
  OBVIOUS
<1> USE DEF LockInv, busVars, ringVars, shadowVars, producerVars, replayVars,
            recoveryVars, consumerVars
<1>1. CASE \/ \E cells \in Words : BusWrite(cells)
           \/ CaptureBusy \/ CaptureLock \/ Record
  BY <1>1 DEF BusWrite, CaptureBusy, CaptureLock, Record
<1>2. CASE DropFull \/ Publish \/ CaptureUnlock
  BY <1>2 DEF DropFull, Publish, CaptureUnlock
<1>3. CASE StartLoop \/ LoopTop \/ SnapshotBusy \/ SnapshotLock
  BY <1>3 DEF StartLoop, LoopTop, SnapshotBusy, SnapshotLock
<1>4. CASE SnapshotCopy \/ SnapshotUnlock \/ Restore
  BY <1>4 DEF SnapshotCopy, SnapshotUnlock, Restore, Released
<1>5. CASE ApplyEvent \/ PopEvent \/ EndBatch \/ Silence \/ Render
  BY <1>5 DEF ApplyEvent, PopEvent, EndBatch, Silence, Render, Emit
<1>6. CASE UNCHANGED vars
  BY <1>6 DEF vars
<1> QED
  BY StepCases, <1>1, <1>2, <1>3, <1>4, <1>5, <1>6

\* What the numbers are, for the steps that calculate with them.
LEMMA NumberTypes ==
  ASSUME TypeInv
  PROVE  /\ Capacity \in Nat \ {0}
         /\ head \in Nat /\ tail \in Nat /\ observed \in Nat /\ writes \in Nat
         /\ at \in Nat /\ clock \in Nat /\ dropped \in Nat /\ lastDrop \in Nat
         /\ snap.stamp \in Nat /\ snap.dropped \in Nat
         /\ observed <= MaxWrites /\ MaxWrites \in Nat
         /\ Settled \in Nat /\ Settled <= observed
         /\ Recorded \in Nat /\ Settled <= Recorded /\ Recorded <= observed
         /\ End \in Nat /\ head <= End /\ Consumed \in Nat /\ tail <= Consumed
<1>1. /\ head \in Nat /\ tail \in Nat /\ dropped \in Nat /\ lastDrop \in Nat
      /\ snap.stamp \in 0 .. MaxWrites /\ snap.dropped \in Nat
      /\ observed \in 0 .. MaxWrites /\ writes \in 0 .. MaxWrites
      /\ at \in 0 .. MaxWrites /\ clock \in 0 .. MaxWrites
  BY DEF TypeInv, TypeOK
<1>2. ppc \in {"full", "publish"} => observed > 0
  BY DEF TypeInv
<1>3. Capacity \in Nat \ {0} /\ MaxWrites \in Nat
  BY MirrorAssumption
<1>4. Settled = IF ppc \in {"full", "publish"} THEN observed - 1 ELSE observed
  BY DEF Settled
<1>5. Recorded = IF ppc = "full" THEN observed - 1 ELSE observed
  BY DEF Recorded
<1>6. End \in {head, head + 1} /\ Consumed \in {tail, tail + 1}
  BY DEF End, Consumed
<1> QED
  BY <1>1, <1>2, <1>3, <1>4, <1>5, <1>6

LEMMA RingStep ==
  ASSUME TypeInv, RingInv, [Next]_vars
  PROVE  RingInv'
<1> USE DEF RingInv, busVars, ringVars, shadowVars, producerVars, replayVars,
            recoveryVars, consumerVars
<1>1. CASE Record
  BY <1>1, NumberTypes DEF Record
<1>2. CASE Publish
  BY <1>2, NumberTypes DEF Publish
<1>3. CASE SnapshotCopy
  BY <1>3, NumberTypes DEF SnapshotCopy, SkipPrefix
<1>4. CASE ApplyEvent
  BY <1>4, NumberTypes DEF ApplyEvent, EventDue
<1>5. CASE PopEvent
  BY <1>5, NumberTypes DEF PopEvent
<1>6. CASE \/ \E cells \in Words : BusWrite(cells)
           \/ CaptureBusy \/ CaptureLock \/ DropFull \/ CaptureUnlock
  BY <1>6 DEF BusWrite, CaptureBusy, CaptureLock, DropFull, CaptureUnlock
<1>7. CASE \/ StartLoop \/ LoopTop \/ SnapshotBusy \/ SnapshotLock
           \/ SnapshotUnlock \/ Restore
  BY <1>7 DEF StartLoop, LoopTop, SnapshotBusy, SnapshotLock, SnapshotUnlock,
              Restore
<1>8. CASE EndBatch \/ Silence \/ Render \/ UNCHANGED vars
  BY <1>8 DEF EndBatch, Silence, Render, Emit, vars
<1> QED
  BY StepCases, <1>1, <1>2, <1>3, <1>4, <1>5, <1>6, <1>7, <1>8

LEMMA OrderStep ==
  ASSUME TypeInv, LockInv, RingInv, OrderInv, Stream, [Next]_vars
  PROVE  OrderInv'
<1> USE DEF OrderInv, busVars, ringVars, shadowVars, producerVars, replayVars,
            recoveryVars, consumerVars
<1>1. CASE \/ \E cells \in Words : BusWrite(cells)
           \/ CaptureBusy \/ CaptureLock
  <2>1. /\ UNCHANGED <<observed, consumerVars>>
        /\ dropped' \in {dropped, dropped + 1}
        /\ ppc \notin {"full", "publish"} /\ ppc' \notin {"full", "publish"}
    BY <1>1 DEF BusWrite, CaptureBusy, CaptureLock
  <2> QED
    BY <2>1, NumberTypes DEF Settled
<1>2. CASE Record
  <2>1. /\ UNCHANGED <<consumerVars, dropped>> /\ observed' = observed + 1
        /\ ppc = "record" /\ ppc' \in {"full", "publish"}
    BY <1>2 DEF Record
  <2>2. Settled' = Settled
    BY <2>1, NumberTypes DEF Settled
  <2> QED
    BY <2>1, <2>2, NumberTypes
<1>3. CASE DropFull \/ Publish \/ CaptureUnlock
  <2>1. /\ UNCHANGED <<observed, consumerVars>>
        /\ dropped' \in {dropped, dropped + 1} /\ ppc' \in {"unlock", "idle"}
    BY <1>3 DEF DropFull, Publish, CaptureUnlock
  <2>2. Settled <= Settled' /\ Settled' \in Nat
    BY <2>1, NumberTypes DEF Settled
  <2> QED
    BY <2>1, <2>2, NumberTypes
<1>4. CASE StartLoop \/ LoopTop
  <2>1. /\ clock' <= Settled /\ lastDrop' \in {lastDrop, dropped}
        /\ UNCHANGED <<producerVars, at, snap, dropped>>
        /\ cpc' \in {"top", "snapshot", "apply"}
        /\ cpc' = "snapshot" => recovery'
    BY <1>4, NumberTypes DEF StartLoop, LoopTop
  <2> QED
    BY <2>1, NumberTypes DEF Settled
<1>5. CASE SnapshotBusy \/ SnapshotLock \/ SnapshotUnlock
  BY <1>5 DEF SnapshotBusy, SnapshotLock, SnapshotUnlock, Settled
<1>6. CASE SnapshotCopy
  <2>1. Settled = observed
    BY <1>6 DEF SnapshotCopy, LockInv, Settled
  <2>2. snap'.stamp = observed /\ snap'.dropped = dropped
    BY <1>6 DEF SnapshotCopy
  <2> QED
    BY <1>6, <2>1, <2>2, NumberTypes DEF SnapshotCopy, Settled
<1>7. CASE Restore
  BY <1>7, NumberTypes DEF Restore, SnapshotDrops, Settled
<1>8. CASE ApplyEvent
  <2>1. tail < head /\ at' = Stamp(tail)
    BY <1>8, NumberTypes
    DEF ApplyEvent, EventDue, NextEvent, RingInv, Stamp
  <2>2. Stamp(tail) \in 1 .. observed
    BY <2>1, NumberTypes DEF Stream, IsStep, Slot, Stamp
  <2> QED
    BY <1>8, <2>1, <2>2, NumberTypes DEF ApplyEvent, Settled
<1>9. CASE PopEvent \/ EndBatch \/ Silence \/ Render
  BY <1>9 DEF PopEvent, EndBatch, Silence, Render, Emit, Settled
<1>10. CASE UNCHANGED vars
  BY <1>10 DEF vars, Settled
<1> QED
  BY StepCases, <1>1, <1>2, <1>3, <1>4, <1>5, <1>6, <1>7, <1>8, <1>9, <1>10
-----------------------------------------------------------------------------
(* The stream of events.                                                   *)

\* Two indices less than a ring apart never share a slot.
LEMMA ModDistinct ==
  ASSUME NEW N \in Nat \ {0}, NEW i \in Nat, NEW j \in Nat, i < j, j - i < N
  PROVE  i % N # j % N
<1> DEFINE q == i \div N  r == j \div N
<1>1. /\ q \in Int /\ r \in Int /\ i % N \in Int /\ j % N \in Int
      /\ i = N * q + (i % N) /\ j = N * r + (j % N)
  OBVIOUS
<1> SUFFICES ASSUME i % N = j % N PROVE FALSE
  OBVIOUS
<1> HIDE DEF q, r
<1>2. N * q \in Int /\ N * r \in Int /\ N * (r - q) = N * r - N * q
  BY <1>1
<1>3. j - i = N * (r - q)
  BY <1>1, <1>2
<1>4. r - q <= 0 => N * (r - q) <= 0
  BY <1>1
<1>5. r - q >= 1 => N * (r - q) >= N
  BY <1>1
<1> QED
  BY <1>1, <1>3, <1>4, <1>5

\* The steps that neither fill a slot, move an index, observe a write, nor
\* change what CPU1 plays.
Still ==
  /\ UNCHANGED <<events, tail, End, latest, observed, past, live, at, snap>>
  /\ Consumed' = Consumed
  /\ ppc' = "publish" => ppc = "publish" /\ head' = head
  /\ cpc' \in {"unlock", "restore"} <=> cpc \in {"unlock", "restore"}

LEMMA Footprint ==
  ASSUME [Next]_vars
  PROVE  Record \/ SnapshotCopy \/ Restore \/ ApplyEvent \/ PopEvent \/ Still
<1> USE DEF Still, busVars, ringVars, shadowVars, producerVars, replayVars,
            recoveryVars, consumerVars
<1>1. CASE \/ \E cells \in Words : BusWrite(cells)
           \/ CaptureBusy \/ CaptureLock \/ DropFull \/ Publish \/ CaptureUnlock
  BY <1>1 DEF BusWrite, CaptureBusy, CaptureLock, DropFull, Publish,
              CaptureUnlock, End, Consumed
<1>2. CASE StartLoop \/ LoopTop \/ SnapshotBusy \/ SnapshotLock \/ SnapshotUnlock
  BY <1>2 DEF StartLoop, LoopTop, SnapshotBusy, SnapshotLock, SnapshotUnlock,
              End, Consumed
<1>3. CASE EndBatch \/ Silence \/ Render \/ UNCHANGED vars
  BY <1>3 DEF EndBatch, Silence, Render, Emit, vars, End, Consumed
<1> QED
  BY StepCases, <1>1, <1>2, <1>3

\* What Record leaves of the ring, and what it adds to it.
LEMMA Recording ==
  ASSUME TypeInv, RingInv, Record
  PROVE  /\ ppc = "record" /\ End = head
         /\ observed' = observed + 1 /\ observed < MaxWrites
         /\ past'[observed'] = Stored(latest, word, writes)
         /\ latest' = past'[observed']
         /\ past' = [past EXCEPT ![observed'] = past'[observed']]
         /\ \A n \in 0 .. observed : past'[n] = past[n]
         /\ \A i \in tail .. head - 1 : Slot(i)' = Slot(i) /\ Stamp(i)' = Stamp(i)
         /\ UNCHANGED <<head, tail, at, live, snap, cpc, Consumed>>
         /\ \/ ppc' = "full" /\ End' = head /\ head - tail >= Capacity
            \/ /\ ppc' = "publish" /\ End' = head + 1
               /\ Slot(head)' = [cells |-> word, value |-> writes,
                                 stamp |-> observed']
               /\ Stamp(head)' = observed'
<1>1. /\ ppc = "record" /\ observed' = observed + 1
      /\ latest' = Stored(latest, word, writes)
      /\ past' = [past EXCEPT ![observed + 1] = latest']
      /\ UNCHANGED <<head, tail, at, live, snap, cpc>>
  BY DEF Record, consumerVars, replayVars, recoveryVars
<1>2. observed \in Nat /\ observed < MaxWrites /\ MaxWrites \in Nat
  <2>1. observed < writes /\ writes \in 0 .. MaxWrites
    BY <1>1 DEF TypeInv, TypeOK
  <2> QED
    BY <2>1, NumberTypes
<1>3. DOMAIN past = 0 .. MaxWrites /\ observed + 1 \in 0 .. MaxWrites
  BY <1>2 DEF TypeInv, TypeOK
<1>4. /\ past'[observed'] = latest'
      /\ \A n \in 0 .. observed : past'[n] = past[n]
  BY <1>1, <1>2, <1>3
<1>5. /\ \A i \in tail .. head - 1 : Slot(i)' = Slot(i) /\ Stamp(i)' = Stamp(i)
      /\ \/ ppc' = "full" /\ head - tail >= Capacity
         \/ /\ ppc' = "publish"
            /\ Slot(head)' = [cells |-> word, value |-> writes,
                              stamp |-> observed']
            /\ Stamp(head)' = observed'
  <2>1. CASE head - tail >= Capacity
    BY <2>1 DEF Record, Slot, Stamp
  <2>2. CASE ~(head - tail >= Capacity)
    <3> DEFINE new == [cells |-> word, value |-> writes, stamp |-> observed']
    <3>1. /\ ppc' = "publish"
          /\ events' = [events EXCEPT ![head % Capacity] = new]
      BY <2>2 DEF Record
    <3>2. DOMAIN events = 0 .. Capacity - 1 /\ head % Capacity \in 0 .. Capacity - 1
      BY NumberTypes, SlotType DEF TypeInv, TypeOK
    <3>3. Slot(head)' = new /\ Stamp(head)' = new.stamp
      BY <1>1, <3>1, <3>2 DEF Slot, Stamp
    <3>4. ASSUME NEW i \in tail .. head - 1
          PROVE  Slot(i)' = Slot(i) /\ Stamp(i)' = Stamp(i)
      <4>1. i \in Nat /\ i < head /\ head - i < Capacity
        BY <2>2, NumberTypes
      <4>2. i % Capacity # head % Capacity /\ i % Capacity \in 0 .. Capacity - 1
        BY <4>1, NumberTypes, ModDistinct, SlotType DEF TypeInv
      <4> QED
        BY <3>1, <3>2, <4>2 DEF Slot, Stamp
    <3> QED
      BY <3>1, <3>3, <3>4
  <2> QED
    BY <2>1, <2>2
<1>6. End = head /\ Consumed' = Consumed
      /\ End' = IF ppc' = "publish" THEN head + 1 ELSE head
  BY <1>1 DEF End, Consumed
<1> QED
  BY <1>1, <1>2, <1>4, <1>5, <1>6

LEMMA StreamStep ==
  ASSUME TypeInv, LockInv, RingInv, OrderInv, Stream, Copies, [Next]_vars
  PROVE  Stream'
<1>1. CASE Record
  <2>1. ASSUME NEW i \in tail .. head - 1
        PROVE  IsStep(Slot(i))' /\ Stamp(i)' = Stamp(i) /\ Stamp(i) \in 1 .. observed
    <3>1. IsStep(Slot(i)) /\ Slot(i)' = Slot(i) /\ Slot(i).stamp \in 1 .. observed
      BY <1>1, Recording DEF Stream, IsStep
    <3>2. Slot(i).stamp - 1 \in 0 .. observed /\ Slot(i).stamp \in 0 .. observed
          /\ Slot(i).stamp \in 1 .. observed'
      BY <1>1, <3>1, Recording, NumberTypes
    <3>3. Stamp(i)' = Stamp(i) /\ Stamp(i) = Slot(i).stamp
      BY <1>1, Recording DEF Stamp, Slot
    <3> QED
      BY <1>1, <3>1, <3>2, <3>3, Recording DEF IsStep
  <2>2. CASE ppc' = "full"
    <3>1. /\ End' = head /\ End = head /\ UNCHANGED <<tail, Consumed, at, snap, cpc>>
      BY <1>1, <2>2, Recording
    <3>2. \A i \in tail .. head - 1 : IsStep(Slot(i))' /\ Stamp(i)' = Stamp(i)
      BY <2>1
    <3>3. \A i \in Consumed .. head - 1 : i \in tail .. head - 1
      BY NumberTypes
    <3>4. \A i \in tail' .. End' - 1 : IsStep(Slot(i))'
      BY <3>1, <3>2
    <3> QED
      BY <2>2, <3>1, <3>2, <3>3, <3>4 DEF Stream
  <2>3. CASE ppc' = "publish"
    <3>1. IsStep(Slot(head))'
      <4>1. Slot(head)' = [cells |-> word, value |-> writes, stamp |-> observed']
        BY <1>1, <2>3, Recording
      <4>2. past'[observed' - 1] = latest
        BY <1>1, Recording, NumberTypes DEF Copies
      <4>3. past'[observed'] = Stored(latest, word, writes)
        BY <1>1, Recording
      <4>4. observed' \in 1 .. observed'
        BY <1>1, Recording, NumberTypes
      <4> QED
        BY <1>1, <4>1, <4>2, <4>3, <4>4 DEF IsStep, Stored
    <3>2. /\ End' = head + 1 /\ End = head /\ tail' = tail /\ head' = head
          /\ Stamp(head)' = observed + 1 /\ Consumed' = Consumed /\ at' = at
          /\ snap' = snap /\ cpc' = cpc /\ observed' = observed + 1
      BY <1>1, <2>3, Recording
    <3>3. \A i \in tail .. head : i \in tail .. head - 1 \/ i = head
      BY NumberTypes
    <3>4. at <= observed /\ (cpc \in {"unlock", "restore"} => snap.stamp <= observed)
      BY NumberTypes DEF OrderInv
    <3>5. \A i \in tail' .. End' - 1 : IsStep(Slot(i))'
      BY <2>1, <3>1, <3>2, <3>3, NumberTypes
    <3>6. \A i, j \in tail' .. End' - 1 : i < j => Stamp(i)' < Stamp(j)'
      <4> SUFFICES ASSUME NEW i \in tail .. head, NEW j \in tail .. head, i < j
                   PROVE  Stamp(i)' < Stamp(j)'
        BY <3>2, NumberTypes
      <4>1. i \in tail .. head - 1
        BY NumberTypes
      <4>2. Stamp(i)' \in 1 .. observed
        BY <2>1, <4>1
      <4>3. CASE j = head
        BY <3>2, <4>2, <4>3, NumberTypes
      <4>4. CASE j # head
        <5>1. j \in tail .. head - 1
          BY <3>3, <4>4
        <5> QED
          BY <2>1, <3>2, <4>1, <5>1 DEF Stream
      <4> QED
        BY <4>3, <4>4
    <3>7. \A i \in Consumed' .. End' - 1 : at' < Stamp(i)'
      <4> SUFFICES ASSUME NEW i \in Consumed .. head PROVE at < Stamp(i)'
        BY <3>2, NumberTypes
      <4>1. CASE i = head
        BY <3>2, <3>4, <4>1, NumberTypes
      <4>2. CASE i # head
        <5>1. i \in tail .. head - 1 /\ i \in Consumed .. End - 1
          BY <3>2, <4>2, NumberTypes
        <5> QED
          BY <2>1, <5>1 DEF Stream
      <4> QED
        BY <4>1, <4>2
    <3>8. cpc' \in {"unlock", "restore"} =>
            \A i \in tail' .. End' - 1 : snap'.stamp < Stamp(i)'
      <4> SUFFICES ASSUME cpc \in {"unlock", "restore"}, NEW i \in tail .. head
                   PROVE  snap.stamp < Stamp(i)'
        BY <3>2, NumberTypes
      <4>1. CASE i = head
        BY <3>2, <3>4, <4>1, NumberTypes
      <4>2. CASE i # head
        <5>1. i \in tail .. head - 1
          BY <3>3, <4>2
        <5> QED
          BY <2>1, <3>2, <5>1 DEF Stream
      <4> QED
        BY <4>1, <4>2
    <3> QED
      BY <3>2, <3>5, <3>6, <3>7, <3>8 DEF Stream
  <2> QED
    BY <1>1, <2>2, <2>3, Recording
<1>2. CASE SnapshotCopy
  <2>1. /\ tail' = head /\ head' = head /\ ppc' = ppc /\ ppc # "publish"
        /\ cpc = "copy" /\ cpc' = "unlock"
    BY <1>2 DEF SnapshotCopy, SkipPrefix, LockInv, producerVars, ringVars
  <2>2. End' = head /\ Consumed' = head
    BY <2>1 DEF End, Consumed
  <2>3. head .. head - 1 = {}
    BY NumberTypes
  <2> QED
    BY <2>1, <2>2, <2>3 DEF Stream
<1>3. CASE Restore
  <2>1. /\ UNCHANGED <<events, head, tail, past, observed, ppc>>
        /\ cpc = "restore" /\ cpc' = "apply" /\ at' = snap.stamp
    BY <1>3 DEF Restore, producerVars, ringVars, shadowVars
  <2>2. Consumed' = tail /\ End' = End
    BY <2>1 DEF Consumed, End
  <2> QED
    BY <2>1, <2>2 DEF Stream, IsStep, Slot, Stamp
<1>4. CASE ApplyEvent
  <2>1. /\ UNCHANGED <<events, head, tail, past, observed, ppc>>
        /\ cpc = "apply" /\ cpc' = "pop" /\ at' = Stamp(tail) /\ tail # head
    BY <1>4 DEF ApplyEvent, EventDue, NextEvent, Stamp, producerVars, ringVars,
                shadowVars
  <2>2. Consumed' = tail + 1 /\ End' = End
    BY <2>1 DEF Consumed, End
  <2>3. ASSUME NEW i \in tail + 1 .. End - 1 PROVE Stamp(tail) < Stamp(i)
    <3>1. i \in tail .. End - 1 /\ tail \in tail .. End - 1 /\ tail < i
      BY NumberTypes
    <3> QED
      BY <3>1 DEF Stream
  <2> QED
    BY <2>1, <2>2, <2>3 DEF Stream, IsStep, Slot, Stamp
<1>5. CASE PopEvent
  <2>1. /\ UNCHANGED <<events, head, past, observed, ppc, at>>
        /\ cpc = "pop" /\ cpc' = "apply" /\ tail' = tail + 1
    BY <1>5 DEF PopEvent, producerVars, ringVars, shadowVars
  <2>2. Consumed = tail + 1 /\ Consumed' = tail + 1 /\ End' = End
    BY <2>1 DEF Consumed, End
  <2>3. \A i \in tail + 1 .. End - 1 : i \in tail .. End - 1
    BY NumberTypes
  <2> QED
    BY <2>1, <2>2, <2>3 DEF Stream, IsStep, Slot, Stamp
<1>6. CASE Still
  BY <1>6 DEF Still, Stream, IsStep, Slot, Stamp
<1> QED
  BY Footprint, <1>1, <1>2, <1>3, <1>4, <1>5, <1>6
-----------------------------------------------------------------------------
(* Gaps.                                                                   *)

\* The event CPU1 applies is the write after the moment it is at.
LEMMA NextIsNext ==
  ASSUME TypeInv, RingInv, Stream, Covered, ApplyEvent
  PROVE  /\ tail < head /\ Consumed = tail /\ Stamp(tail) = at + 1
         /\ at' = at + 1 /\ Consumed' = tail + 1 /\ at + 1 <= clock
         /\ live' = Stored(live, Slot(tail).cells, Slot(tail).value)
         /\ IsStep(Slot(tail)) /\ Slot(tail).stamp = at + 1
<1>1. /\ cpc = "apply" /\ tail # head /\ NextEvent = Slot(tail)
      /\ Slot(tail).stamp <= clock /\ Stamp(tail) = Slot(tail).stamp
      /\ cpc' = "pop" /\ tail' = tail /\ at' = Slot(tail).stamp
      /\ live' = Stored(live, Slot(tail).cells, Slot(tail).value)
  BY DEF ApplyEvent, EventDue, NextEvent, Slot, Stamp
<1>2. Consumed = tail /\ Consumed' = tail + 1
  BY <1>1 DEF Consumed
<1>3. tail < head /\ tail \in tail .. End - 1
  BY <1>1, NumberTypes DEF RingInv
<1>4. at < Stamp(tail) /\ IsStep(Slot(tail)) /\ Stamp(tail) \in Nat
  <2>1. IsStep(Slot(tail)) /\ at < Stamp(tail)
    BY <1>2, <1>3 DEF Stream
  <2>2. tail \in Nat /\ TypeOK
    BY NumberTypes DEF TypeInv
  <2>3. Stamp(tail) \in 0 .. MaxWrites
    BY <2>2, SlotType
  <2> QED
    BY <2>1, <2>3
<1>5. at + 1 \in at + 1 .. clock
  BY <1>1, <1>4, NumberTypes
<1>6. tail + (at + 1 - at) - 1 = tail
  BY NumberTypes
<1>7. Stamp(tail) = at + 1
  <2>1. \A n \in at + 1 .. clock : Stamp(Consumed + (n - at) - 1) = n
    BY <1>1 DEF Covered
  <2>2. Stamp(Consumed + (at + 1 - at) - 1) = at + 1
    BY <1>5, <2>1, NumberTypes
  <2> QED
    BY <1>2, <1>6, <2>2
<1> QED
  BY <1>1, <1>2, <1>3, <1>4, <1>5, <1>7, NumberTypes

LEMMA CopiesStep ==
  ASSUME TypeInv, LockInv, RingInv, OrderInv, Stream, Copies, Covered,
         [Next]_vars
  PROVE  Copies'
<1>1. CASE Record
  <2>1. at \in 0 .. observed
        /\ (cpc \in {"unlock", "restore"} => snap.stamp \in 0 .. observed)
    BY NumberTypes DEF OrderInv
  <2>2. past'[at] = past[at]
        /\ (cpc \in {"unlock", "restore"} => past'[snap.stamp] = past[snap.stamp])
    BY <1>1, <2>1, Recording
  <2>3. latest' = past'[observed'] /\ UNCHANGED <<at, live, snap, cpc>>
    BY <1>1, Recording
  <2> QED
    BY <2>2, <2>3 DEF Copies, Shows
<1>2. CASE SnapshotCopy
  <2>1. /\ UNCHANGED <<latest, past, observed, live, at>>
        /\ snap'.file = latest /\ snap'.stamp = observed
    BY <1>2 DEF SnapshotCopy, producerVars, shadowVars, replayVars
  <2> QED
    BY <2>1 DEF Copies, Shows
<1>3. CASE Restore
  <2>1. /\ UNCHANGED <<latest, past, observed>> /\ cpc = "restore"
        /\ cpc' = "apply" /\ at' = snap.stamp /\ live' = Restored(snap.file)
    BY <1>3 DEF Restore, producerVars, shadowVars
  <2> QED
    BY <2>1 DEF Copies, Shows, Restored
<1>4. CASE ApplyEvent
  <2>1. /\ UNCHANGED <<latest, past, observed, snap>> /\ cpc' = "pop"
    BY <1>4 DEF ApplyEvent, producerVars, shadowVars, recoveryVars
  <2>2. past[at + 1] = Stored(past[at], Slot(tail).cells, Slot(tail).value)
    <3>1. IsStep(Slot(tail)) /\ Slot(tail).stamp = at + 1
      BY <1>4, NextIsNext
    <3>2. past[Slot(tail).stamp] =
            Stored(past[Slot(tail).stamp - 1], Slot(tail).cells, Slot(tail).value)
      BY <3>1 DEF IsStep
    <3>3. Slot(tail).stamp - 1 = at
      BY <3>1, NumberTypes
    <3> QED
      BY <3>1, <3>2, <3>3
  <2>3. at' = at + 1 /\ live' = Stored(live, Slot(tail).cells, Slot(tail).value)
    BY <1>4, NextIsNext
  <2>4. ASSUME NEW c \in Cells
        PROVE  live'[c] = past'[at'][c] \/ (c \notin Restorable /\ live'[c] = 0)
    <3>1. live[c] = past[at][c] \/ (c \notin Restorable /\ live[c] = 0)
      BY DEF Copies, Shows
    <3> QED
      BY <2>1, <2>2, <2>3, <3>1 DEF Stored
  <2> QED
    BY <2>1, <2>4 DEF Copies, Shows
<1>5. CASE PopEvent
  BY <1>5 DEF PopEvent, producerVars, shadowVars, Copies, Shows
<1>6. CASE Still
  BY <1>6 DEF Still, Copies, Shows
<1> QED
  BY Footprint, <1>1, <1>2, <1>3, <1>4, <1>5, <1>6

\* A step that leaves the ring and the history alone brings no gap to light
\* and hides none, unless it counts a write that found the ring full or is
\* the start of the loop.
Quiet ==
  /\ Still /\ Recorded' = Recorded /\ head <= head' /\ head' \in Nat
  /\ ~Unrecovered' => ~Unrecovered
  /\ cpc' = "boot" => cpc = "boot"
  /\ ppc' = "full" => ppc = "full"
  /\ cpc' \in {"unlock", "restore"} /\ dropped' = snap.dropped =>
       dropped = snap.dropped

LEMMA GapFootprint ==
  ASSUME TypeInv, OrderInv, [Next]_vars
  PROVE  \/ Record \/ SnapshotCopy \/ Restore \/ ApplyEvent \/ PopEvent
         \/ DropFull \/ StartLoop \/ Quiet
<1> SUFFICES ASSUME ~(Record \/ SnapshotCopy \/ Restore \/ ApplyEvent
                      \/ PopEvent \/ DropFull \/ StartLoop)
             PROVE  Quiet
  OBVIOUS
<1> USE DEF busVars, ringVars, shadowVars, producerVars, replayVars,
            recoveryVars, consumerVars
<1>0. Still
  BY Footprint
<1>1. CASE \/ \E cells \in Words : BusWrite(cells)
           \/ CaptureLock \/ Publish \/ CaptureUnlock
  <2>1. /\ UNCHANGED <<cpc, dropped, lastDrop, recovery, tail, observed, snap>>
        /\ head' \in {head, head + 1} /\ ppc # "full" /\ ppc' # "full"
    BY <1>1 DEF BusWrite, CaptureLock, Publish, CaptureUnlock
  <2> QED
    BY <1>0, <2>1, NumberTypes, MirrorAssumption
    DEF Quiet, Unrecovered, HighWater, Recorded
<1>2. CASE CaptureBusy
  <2>1. /\ UNCHANGED <<cpc, lastDrop, recovery, tail, head, observed, snap>>
        /\ dropped' = dropped + 1 /\ ppc = "capture" /\ ppc' = "idle"
    BY <1>2 DEF CaptureBusy
  <2>2. dropped' # lastDrop'
    BY <2>1, NumberTypes DEF OrderInv
  <2>3. cpc \in {"unlock", "restore"} => dropped' # snap.dropped
    BY <2>1, NumberTypes DEF OrderInv
  <2> QED
    BY <1>0, <2>1, <2>2, <2>3, NumberTypes DEF Quiet, Unrecovered, Recorded
<1>3. CASE LoopTop
  <2>1. /\ UNCHANGED <<ppc, lastDrop, dropped, tail, head, observed, snap>>
        /\ cpc = "top" /\ cpc' \in {"snapshot", "apply"}
        /\ ~recovery' => ~recovery /\ dropped = lastDrop /\ ~(head - tail >= HighWater)
    BY <1>3 DEF LoopTop, NeedsRecovery, TypeInv, TypeOK
  <2> QED
    BY <1>0, <2>1, NumberTypes DEF Quiet, Unrecovered, Recorded
<1>4. CASE SnapshotBusy \/ SnapshotLock \/ SnapshotUnlock \/ EndBatch
           \/ Silence \/ Render
  <2>1. /\ UNCHANGED <<ppc, lastDrop, dropped, recovery, tail, head, observed,
                      snap>>
        /\ cpc \notin {"boot", "top"} /\ cpc' # "boot"
    BY <1>4 DEF SnapshotBusy, SnapshotLock, SnapshotUnlock, EndBatch, Silence,
                Render, Emit
  <2> QED
    BY <1>0, <2>1, NumberTypes DEF Quiet, Unrecovered, Recorded
<1>5. CASE UNCHANGED vars
  BY <1>0, <1>5, NumberTypes DEF Quiet, Unrecovered, Recorded, HighWater, vars
<1> QED
  BY StepCases, <1>1, <1>2, <1>3, <1>4, <1>5

\* A recorded write extends the ring, or, when that is full, is not expected
\* in it until it is counted.
LEMMA RecordContinues ==
  ASSUME TypeInv, RingInv, Record, NEW n \in Nat, NEW first \in Nat,
         tail <= first, Continues(n, first)
  PROVE  /\ Recorded' - n = End' - first
         /\ \A i \in first .. End' - 1 : Stamp(i)' = n + 1 + (i - first)
<1>1. /\ ppc = "record" /\ End = head /\ observed' = observed + 1
      /\ \A i \in tail .. head - 1 : Stamp(i)' = Stamp(i)
      /\ \/ ppc' = "full" /\ End' = head
         \/ ppc' = "publish" /\ End' = head + 1 /\ Stamp(head)' = observed + 1
  BY Recording
<1>2. Recorded = observed /\ Recorded' = IF ppc' = "full" THEN observed ELSE observed + 1
  BY <1>1, NumberTypes DEF Recorded
<1>3. observed - n = head - first
  BY <1>1, <1>2 DEF Continues
<1>4. ASSUME NEW i \in first .. head - 1 PROVE Stamp(i)' = n + 1 + (i - first)
  <2>1. i \in tail .. head - 1
    BY NumberTypes
  <2> QED
    BY <1>1, <2>1 DEF Continues
<1>5. CASE ppc' = "full"
  BY <1>1, <1>2, <1>3, <1>4, <1>5
<1>6. CASE ppc' = "publish"
  <2>1. /\ End' = head + 1 /\ Stamp(head)' = observed + 1
        /\ Recorded' = observed + 1
    BY <1>1, <1>2, <1>6
  <2>2. Recorded' - n = End' - first
    BY <1>3, <2>1, NumberTypes
  <2>3. ASSUME NEW i \in first .. head PROVE Stamp(i)' = n + 1 + (i - first)
    <3>1. CASE i = head
      <4>1. Stamp(i)' = observed + 1
        BY <2>1, <3>1, Recording DEF Stamp
      <4> QED
        BY <1>3, <3>1, <4>1, NumberTypes
    <3>2. CASE i # head
      BY <1>4, <3>2, NumberTypes
    <3> QED
      BY <3>1, <3>2
  <2>4. End' - 1 = head
    BY <2>1, NumberTypes
  <2> QED
    BY <2>2, <2>3, <2>4
<1> QED
  BY <1>1, <1>5, <1>6

LEMMA NoGapStep ==
  ASSUME TypeInv, LockInv, RingInv, OrderInv, Stream, NoGap, Covered,
         [Next]_vars
  PROVE  NoGap'
<1> USE DEF busVars, ringVars, shadowVars, producerVars, replayVars,
            recoveryVars, consumerVars
<1>1. CASE Record
  <2>1. UNCHANGED <<consumerVars, dropped, head, tail, cpc, at, snap, recovery,
                    lastDrop, Consumed>>
    BY <1>1, Recording DEF Record
  <2>2. Unrecovered' = Unrecovered
    BY <2>1 DEF Unrecovered, HighWater
  <2>3. Continues(at, Consumed) => Continues(at, Consumed)'
    <3> SUFFICES ASSUME Continues(at, Consumed) PROVE Continues(at, Consumed)'
      OBVIOUS
    <3>1. at \in Nat /\ Consumed \in Nat /\ tail <= Consumed
      BY NumberTypes
    <3>2. /\ Recorded' - at = End' - Consumed
          /\ \A i \in Consumed .. End' - 1 : Stamp(i)' = at + 1 + (i - Consumed)
      BY <1>1, <3>1, RecordContinues
    <3> QED
      BY <2>1, <3>2 DEF Continues
  <2>4. Continues(snap.stamp, tail) => Continues(snap.stamp, tail)'
    <3> SUFFICES ASSUME Continues(snap.stamp, tail) PROVE Continues(snap.stamp, tail)'
      OBVIOUS
    <3>1. snap.stamp \in Nat /\ tail \in Nat /\ tail <= tail
      BY NumberTypes
    <3>2. /\ Recorded' - snap.stamp = End' - tail
          /\ \A i \in tail .. End' - 1 : Stamp(i)' = snap.stamp + 1 + (i - tail)
      BY <1>1, <3>1, RecordContinues
    <3> QED
      BY <2>1, <3>2 DEF Continues
  <2>5. ppc' = "full" => head - tail >= Capacity
    BY <1>1, Recording
  <2> QED
    BY <2>1, <2>2, <2>3, <2>4, <2>5 DEF NoGap
<1>2. CASE SnapshotCopy
  <2>1. /\ cpc = "copy" /\ cpc' = "unlock" /\ tail' = head /\ snap'.stamp = observed
        /\ UNCHANGED <<events, head, ppc, observed, recovery>> /\ recovery
        /\ ppc \notin {"publish", "full"}
    BY <1>2 DEF SnapshotCopy, SkipPrefix, OrderInv, LockInv
  <2>2. Continues(snap.stamp, tail)'
    BY <2>1, NumberTypes DEF Continues, Recorded, End
  <2> QED
    BY <2>1, <2>2 DEF NoGap, Unrecovered
<1>3. CASE Restore
  <2>1. /\ cpc = "restore" /\ cpc' = "apply" /\ lastDrop' = snap.dropped
        /\ at' = snap.stamp
        /\ UNCHANGED <<events, head, tail, ppc, observed, dropped>>
    BY <1>3 DEF Restore, SnapshotDrops
  <2>2. ~Unrecovered' => Continues(snap.stamp, tail)
    BY <2>1 DEF NoGap, Unrecovered
  <2>3. Continues(snap.stamp, tail) => Continues(at, Consumed)'
    BY <2>1 DEF Continues, Recorded, End, Consumed, Stamp
  <2> QED
    BY <2>1, <2>2, <2>3 DEF NoGap
<1>4. CASE ApplyEvent
  <2>1. /\ UNCHANGED <<events, head, tail, ppc, observed, dropped, lastDrop,
                      recovery>>
        /\ cpc = "apply" /\ cpc' = "pop"
    BY <1>4 DEF ApplyEvent
  <2>2. at' = at + 1 /\ Consumed = tail /\ Consumed' = tail + 1
    BY <1>4, NextIsNext
  <2>3. Recorded' = Recorded /\ End' = End /\ \A i \in Nat : Stamp(i)' = Stamp(i)
    BY <2>1 DEF Recorded, End, Stamp
  <2>4. Continues(at, Consumed) => Continues(at, Consumed)'
    BY <2>2, <2>3, NumberTypes DEF Continues
  <2> QED
    BY <2>1, <2>4 DEF NoGap, Unrecovered
<1>5. CASE PopEvent
  <2>1. /\ UNCHANGED <<events, head, ppc, observed, dropped, lastDrop,
                      recovery, at>>
        /\ cpc = "pop" /\ cpc' = "apply" /\ tail' = tail + 1
    BY <1>5 DEF PopEvent
  <2>2. Consumed' = Consumed
    BY <2>1 DEF Consumed
  <2>3. Continues(at, Consumed) => Continues(at, Consumed)'
    BY <2>1, <2>2 DEF Continues, Recorded, End, Stamp
  <2> QED
    BY <2>1, <2>3 DEF NoGap, Unrecovered
<1>6. CASE DropFull
  <2>1. /\ UNCHANGED <<head, tail, lastDrop, recovery, cpc, snap>>
        /\ dropped' = dropped + 1 /\ ppc = "full" /\ ppc' = "unlock"
    BY <1>6 DEF DropFull
  <2>2. Unrecovered'
    BY <2>1, NumberTypes DEF Unrecovered, OrderInv
  <2>3. cpc \in {"unlock", "restore"} => dropped' # snap.dropped
    BY <2>1, NumberTypes DEF OrderInv
  <2>4. cpc = "boot" => head - tail >= Capacity
    BY <2>1 DEF NoGap
  <2> QED
    BY <2>1, <2>2, <2>3, <2>4 DEF NoGap
<1>7. CASE StartLoop
  <2>1. /\ UNCHANGED <<events, head, tail, ppc, observed, at>>
        /\ cpc = "boot" /\ cpc' = "top"
    BY <1>7 DEF StartLoop
  <2>2. HighWater <= Capacity /\ HighWater \in Nat
    BY MirrorAssumption DEF HighWater
  <2>3. ~Unrecovered' => ~(head - tail >= Capacity)
    BY <2>1, <2>2, NumberTypes DEF Unrecovered, HighWater
  <2>4. Continues(at, Consumed) => Continues(at, Consumed)'
    BY <2>1 DEF Continues, Recorded, End, Stamp, Consumed
  <2> QED
    BY <2>1, <2>3, <2>4 DEF NoGap
<1>8. CASE Quiet
  <2>1. /\ UNCHANGED <<events, tail, End, at, snap, Consumed, Recorded>>
        /\ head <= head' /\ head' \in Nat
    BY <1>8 DEF Quiet, Still
  <2>2. /\ Continues(at, Consumed) => Continues(at, Consumed)'
        /\ Continues(snap.stamp, tail) => Continues(snap.stamp, tail)'
    BY <2>1 DEF Continues, Stamp
  <2>3. head - tail >= Capacity => head' - tail >= Capacity
    BY <2>1, NumberTypes
  <2> QED
    BY <1>8, <2>1, <2>2, <2>3 DEF Quiet, Still, NoGap
<1> QED
  BY GapFootprint, <1>1, <1>2, <1>3, <1>4, <1>5, <1>6, <1>7, <1>8
\* When the top of the loop finds no drop, everything that has settled is in
\* the ring.
LEMMA SettledIsCovered ==
  ASSUME TypeInv, RingInv, Continues(at, tail), NEW n \in at + 1 .. Settled
  PROVE  /\ tail + (n - at) - 1 < head
         /\ Stamp(tail + (n - at) - 1) = n
<1> DEFINE i == tail + (n - at) - 1
<1>1. Recorded - at = End - tail
  BY DEF Continues
<1>2. End - head = Recorded - Settled
  BY NumberTypes DEF End, Recorded, Settled
<1>3. n \in Nat /\ i \in Nat /\ i < head
  BY <1>1, <1>2, NumberTypes
<1>4. i \in tail .. End - 1
  BY <1>3, NumberTypes
<1>5. Stamp(i) = at + 1 + (i - tail)
  BY <1>4 DEF Continues
<1> QED
  BY <1>3, <1>5, NumberTypes

LEMMA CoveredStep ==
  ASSUME TypeInv, LockInv, RingInv, OrderInv, Stream, NoGap, Covered,
         [Next]_vars
  PROVE  Covered'
<1> USE DEF busVars, ringVars, shadowVars, producerVars, replayVars,
            recoveryVars, consumerVars
<1>1. CASE LoopTop
  <2>1. /\ UNCHANGED <<events, head, tail, at>> /\ clock' \in clock .. Settled
        /\ cpc = "top" /\ cpc' \in {"snapshot", "apply"}
        /\ cpc' = "apply" =>
             ~recovery /\ dropped = lastDrop /\ ~(head - tail >= HighWater)
    BY <1>1 DEF LoopTop, NeedsRecovery, TypeInv, TypeOK
  <2>2. cpc' = "apply" => Continues(at, tail)
    BY <2>1 DEF NoGap, Unrecovered, Consumed
  <2>3. ASSUME cpc' = "apply", NEW n \in at + 1 .. clock'
        PROVE  tail + (n - at) - 1 < head /\ Stamp(tail + (n - at) - 1) = n
    <3>1. n \in at + 1 .. Settled
      BY <2>1, NumberTypes
    <3> QED
      BY <2>2, <2>3, <3>1, SettledIsCovered
  <2>4. Consumed' = tail
    BY <2>1 DEF Consumed
  <2> QED
    BY <2>1, <2>3, <2>4 DEF Covered, Stamp
<1>2. CASE Restore
  <2>1. cpc' = "apply" /\ clock' = snap.stamp /\ at' = snap.stamp
    BY <1>2 DEF Restore
  <2>2. \A m \in Nat : \A n \in m + 1 .. m : FALSE
    OBVIOUS
  <2>3. \A n \in at' + 1 .. clock' : FALSE
    BY <2>1, <2>2, NumberTypes
  <2> QED
    BY <2>1, <2>3 DEF Covered
<1>3. CASE ApplyEvent
  <2>1. /\ UNCHANGED <<events, head, tail, clock>>
        /\ cpc = "apply" /\ cpc' = "pop"
    BY <1>3 DEF ApplyEvent
  <2>2. at' = at + 1 /\ Consumed = tail /\ Consumed' = tail + 1
    BY <1>3, NextIsNext
  <2>3. ASSUME NEW n \in at' + 1 .. clock'
        PROVE  /\ Consumed' + (n - at') - 1 < head'
               /\ Stamp(Consumed' + (n - at') - 1) = n
    <3>1. n \in at + 1 .. clock /\ tail + 1 + (n - (at + 1)) - 1 = tail + (n - at) - 1
      BY <2>1, <2>2, NumberTypes
    <3>2. tail + (n - at) - 1 < head /\ Stamp(tail + (n - at) - 1) = n
      BY <2>1, <2>2, <3>1 DEF Covered
    <3> QED
      BY <2>1, <2>2, <3>1, <3>2
  <2> QED
    BY <2>1, <2>3 DEF Covered, Stamp
<1>4. CASE PopEvent
  <2>1. /\ UNCHANGED <<events, head, clock, at>>
        /\ cpc = "pop" /\ cpc' = "apply" /\ tail' = tail + 1
    BY <1>4 DEF PopEvent
  <2>2. Consumed' = Consumed
    BY <2>1 DEF Consumed
  <2> QED
    BY <2>1, <2>2 DEF Covered, Stamp
<1>5. CASE EndBatch
  <2>1. /\ UNCHANGED <<at, clock>> /\ cpc = "apply"
        /\ cpc' \in {"silent", "render"} /\ (cpc' = "render" => ~EventDue)
    BY <1>5 DEF EndBatch, Backlog
  <2>2. ASSUME cpc' = "render", ~(clock <= at) PROVE FALSE
    <3>1. Consumed = tail
      BY <2>1 DEF Consumed
    <3>2. at + 1 \in at + 1 .. clock /\ tail + (at + 1 - at) - 1 = tail
      BY <2>2, NumberTypes
    <3>3. \A n \in at + 1 .. clock : /\ Consumed + (n - at) - 1 < head
                                     /\ Stamp(Consumed + (n - at) - 1) = n
      BY <2>1 DEF Covered
    <3>4. tail < head /\ Stamp(tail) = at + 1
      BY <3>1, <3>2, <3>3, NumberTypes
    <3> QED
      BY <2>1, <2>2, <3>2, <3>4, NumberTypes DEF EventDue, NextEvent, Stamp
  <2> QED
    BY <2>1, <2>2 DEF Covered
<1>6. CASE Record
  <2>1. UNCHANGED <<head, tail, at, clock, cpc, Consumed>>
        /\ \A i \in tail .. head - 1 : Stamp(i)' = Stamp(i)
    BY <1>6, Recording DEF Record
  <2>2. ASSUME cpc \in {"apply", "pop"}, NEW n \in at + 1 .. clock
        PROVE  /\ Consumed + (n - at) - 1 < head
               /\ Stamp(Consumed + (n - at) - 1)' = n
    <3> DEFINE i == Consumed + (n - at) - 1
    <3>1. i < head /\ Stamp(i) = n
      BY <2>2 DEF Covered
    <3>2. i \in tail .. head - 1
      BY <3>1, NumberTypes
    <3>3. Stamp(i)' = Stamp(i)
      BY <2>1, <3>2
    <3> QED
      BY <3>1, <3>3
  <2> QED
    BY <2>1, <2>2 DEF Covered
<1>7. CASE \/ \E cells \in Words : BusWrite(cells)
           \/ CaptureBusy \/ CaptureLock \/ DropFull \/ Publish \/ CaptureUnlock
           \/ UNCHANGED vars
  <2>1. UNCHANGED <<events, tail, at, clock, cpc, Consumed>>
        /\ head' \in {head, head + 1}
    BY <1>7 DEF BusWrite, CaptureBusy, CaptureLock, DropFull, Publish,
                CaptureUnlock, Consumed, vars
  <2>2. \A i \in Int : i < head => i < head'
    BY <2>1, NumberTypes
  <2>3. \A n \in at + 1 .. clock : Consumed + (n - at) - 1 \in Int
    BY NumberTypes
  <2> QED
    BY <2>1, <2>2, <2>3 DEF Covered, Stamp
<1>8. CASE \/ StartLoop \/ SnapshotBusy \/ SnapshotLock \/ SnapshotCopy
           \/ SnapshotUnlock \/ Silence \/ Render
  BY <1>8 DEF StartLoop, SnapshotBusy, SnapshotLock, SnapshotCopy,
              SnapshotUnlock, Silence, Render, Emit, Covered
<1> QED
  BY StepCases, <1>1, <1>2, <1>3, <1>4, <1>5, <1>6, <1>7, <1>8

-----------------------------------------------------------------------------
(* The theorems.                                                           *)

LEMMA InitInv == Init => MirrorInv
<1> SUFFICES ASSUME Init PROVE MirrorInv
  OBVIOUS
<1> USE DEF Init
<1>1. 0 \in 0 .. MaxWrites /\ 0 \in 0 .. Batch /\ 0 \in Nat
  BY MirrorAssumption
<1>2. Reset \in Files /\ NoEvent \in Events
      /\ NoSnap \in [file : Files, dropped : Nat, stamp : 0 .. MaxWrites]
  BY <1>1 DEF Reset, Files, NoEvent, Events, NoSnap
<1>3. TypeInv
  <2>1. /\ events \in [0 .. Capacity - 1 -> Events]
        /\ past \in [0 .. MaxWrites -> Files]
    BY <1>2
  <2>2. /\ paula \in Files /\ latest \in Files /\ live \in Files
        /\ snap \in [file : Files, dropped : Nat, stamp : 0 .. MaxWrites]
        /\ event \in Events
    BY <1>2
  <2>3. /\ writes \in 0 .. MaxWrites /\ observed \in 0 .. MaxWrites
        /\ at \in 0 .. MaxWrites /\ clock \in 0 .. MaxWrites
        /\ processed \in 0 .. Batch /\ observed <= writes
        /\ head \in Nat /\ tail \in Nat /\ dropped \in Nat /\ lastDrop \in Nat
    BY <1>1
  <2> QED
    BY <2>1, <2>2, <2>3 DEF TypeInv, TypeOK, ProducerPc, ConsumerPc
<1>4. End = 0 /\ Consumed = 0 /\ Settled = 0 /\ Recorded = 0
  BY DEF End, Consumed, Settled, Recorded
<1>5. LockInv /\ RingInv /\ OrderInv
  BY <1>4, MirrorAssumption DEF LockInv, RingInv, OrderInv
<1>6. 0 .. 0 - 1 = {}
  OBVIOUS
<1>7. Stream
  BY <1>4, <1>6 DEF Stream
<1>8. Copies
  BY <1>1 DEF Copies, Shows
<1>9. Continues(at, Consumed)
  BY <1>4, <1>6 DEF Continues
<1>10. NoGap /\ Covered
  BY <1>9 DEF NoGap, Covered
<1> QED
  BY <1>3, <1>5, <1>7, <1>8, <1>10 DEF MirrorInv

LEMMA StepInv == MirrorInv /\ [Next]_vars => MirrorInv'
BY TypeStep, LockStep, RingStep, OrderStep, StreamStep, CopiesStep, NoGapStep,
   CoveredStep
DEF MirrorInv

LEMMA MirrorInvariant == Spec => []MirrorInv
BY InitInv, StepInv, PTL DEF Spec

\* Type correctness: in particular every slot index is one of the ring's, every
\* moment one of the history's, and a frame applies at most a batch.
THEOREM TypeCorrect == Spec => []TypeOK
<1>1. MirrorInv => TypeOK
  BY DEF MirrorInv, TypeInv
<1> QED
  BY <1>1, MirrorInvariant, PTL

\* "A lost event invalidates the exact register history", so none is lost in
\* silence: as long as hdmi_audio_poc_run sees no new drop and no ring filled to
\* the mark, the ring continues, write by write, what it has applied.
THEOREM NoSilentGap == Spec => []GapsAreCounted
<1>1. MirrorInv => GapsAreCounted
  <2> SUFFICES ASSUME MirrorInv, ~Unrecovered
               PROVE  /\ Settled - at = head - Consumed
                      /\ \A i \in Consumed .. head - 1 :
                           Stamp(i) = at + 1 + (i - Consumed)
    BY DEF GapsAreCounted
  <2>1. Continues(at, Consumed) /\ TypeInv
    BY DEF MirrorInv, NoGap
  <2>2. End - head = Recorded - Settled
    BY <2>1, NumberTypes DEF End, Recorded, Settled
  <2>3. \A i \in Consumed .. head - 1 : i \in Consumed .. End - 1
    BY <2>1, NumberTypes
  <2> QED
    BY <2>1, <2>2, <2>3, NumberTypes DEF Continues
<1> QED
  BY <1>1, MirrorInvariant, PTL

\* paula_render_live is called only when no due event is left, and then no due
\* event was lost either: the frame has every observed write that was due.
THEOREM NoFrameIsIncomplete == Spec => RenderedFramesAreComplete
<1>1. MirrorInv /\ [Next]_vars
        => [Render => \E n \in clock .. observed :
                        \A c \in Restorable : live[c] = past[n][c]]_vars
  <2> SUFFICES ASSUME MirrorInv, Render
               PROVE  \E n \in clock .. observed :
                        \A c \in Restorable : live[c] = past[n][c]
    OBVIOUS
  <2>1. cpc = "render" /\ TypeInv
    BY DEF Render, Emit, MirrorInv
  <2>2. at \in clock .. observed
    BY <2>1, NumberTypes DEF MirrorInv, Covered, OrderInv
  <2>3. \A c \in Restorable : live[c] = past[at][c]
    BY MirrorAssumption DEF MirrorInv, Copies, Shows
  <2> QED
    BY <2>2, <2>3
<1> QED
  BY <1>1, MirrorInvariant, PTL DEF Spec, RenderedFramesAreComplete

\* Each step of the mirror is a step of the delayed registers, or one that they
\* do not see.
LEMMA StepRefines ==
  ASSUME MirrorInv, MirrorInv', [Next]_vars
  PROVE  [Registers!Next]_(Registers!vars)
<1> USE DEF MirrorInv, Registers!vars
<1>1. CASE Record
  <2>1. Registers!Observe
    BY <1>1, Recording DEF Registers!Observe
  <2> QED
    BY <2>1 DEF Registers!Next
<1>2. CASE Restore \/ ApplyEvent
  <2>1. at' \in at .. observed
    <3>1. CASE Restore
      BY <3>1, NumberTypes DEF Restore, OrderInv
    <3>2. CASE ApplyEvent
      <4>1. at' = at + 1 /\ at' \in 1 .. observed
        BY <3>2, NextIsNext DEF IsStep
      <4> QED
        BY <4>1, NumberTypes
    <3> QED
      BY <1>2, <3>1, <3>2
  <2>2. UNCHANGED <<past, observed>>
    BY <1>2 DEF Restore, ApplyEvent, producerVars, shadowVars
  <2>3. \A c \in Cells :
          live'[c] = past[at'][c] \/ (c \notin Restorable /\ live'[c] = 0)
    BY <2>2 DEF Copies, Shows
  <2>4. Registers!Follow
    BY <2>1, <2>2, <2>3 DEF Registers!Follow
  <2> QED
    BY <2>4 DEF Registers!Next
<1>3. CASE SnapshotCopy \/ PopEvent \/ Still
  BY <1>3 DEF SnapshotCopy, PopEvent, Still, producerVars, shadowVars, replayVars
<1> QED
  BY Footprint, <1>1, <1>2, <1>3

\* The mirror implements DelayedRegisters: the registers CPU1 plays are those
\* CPU0 captured some writes ago, never a mixture of two moments, never older
\* than what it played before.
THEOREM MirrorIsDelayedRegisters == Spec => MirrorOnlyLags
<1>1. Init => Registers!Init
  BY MirrorAssumption DEF Init, Reset, Registers!Init
<1>2. MirrorInv /\ MirrorInv' /\ [Next]_vars => [Registers!Next]_(Registers!vars)
  BY StepRefines
<1> QED
  BY <1>1, <1>2, MirrorInvariant, PTL DEF Spec, MirrorOnlyLags, Registers!Spec
=============================================================================
