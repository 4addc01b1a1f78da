----------------------------- MODULE EventMirror -----------------------------
(***************************************************************************)
(* The register event mirror: the ring of paula_mirror.c between CPU0,     *)
(* which captures the writes of the 68k code to the audio registers, and   *)
(* CPU1, whose frame loop (hdmi_audio_poc_run) replays them 50 ms later    *)
(* and resynchronises from a snapshot when an event was lost.              *)
(*                                                                         *)
(* One action is one atomic access to a word both CPUs use, with the       *)
(* private work around it.  What the lock protects (latest, and event_head *)
(* on the producer's side) is accessed only between its actions.           *)
(*                                                                         *)
(* Data: a register write stores a set of cells at once.  A cell is a      *)
(* whole register (LCH, LCL, LEN, PER, VOL, DAT) or one bit of a SET/CLR   *)
(* register (DMACON, INTENA, INTREQ, ADKCON), whose unselected bits stay.  *)
(* What it stores is abstracted to the number of the write, 0 for a cell   *)
(* in reset.  mirror_shadow_word and poc_apply_live_event decode a word    *)
(* alike (width 1 replicates the byte), so one operator, Stored, is both.  *)
(*                                                                         *)
(* Time: an event's stamp is its number among the observed writes, and     *)
(* clock is the latest stamp that is due.  Whether the clock is late is    *)
(* left open.  Left out: probe counters, messages, sample prefetches.      *)
(***************************************************************************)
EXTENDS Integers

CONSTANTS
  Cells,       \* registers, and the bits of the SET/CLR registers
  Words,       \* the sets of cells that one register write may store
  Restorable,  \* the cells a resynchronisation restores: all but AUDxDAT
  Capacity,    \* PAULA_MIRROR_EVENT_CAPACITY
  Batch,       \* events applied per frame at most: 128
  MaxWrites    \* bound: register writes of a behaviour

ASSUME MirrorAssumption ==
  /\ Words \subseteq (SUBSET Cells) \ {{}}
  /\ Restorable \subseteq Cells
  /\ Capacity \in Nat \ {0} /\ Batch \in Nat \ {0}
  /\ MaxWrites \in Nat

VARIABLES
  paula,               \* the registers of the physical Paula
  writes,              \* register writes so far
  ppc, word,           \* CPU0: control, the cells of the write in progress
  lock,                \* event_lock: free, or who holds it
  events, head, tail,  \* the event ring
  dropped,             \* the counter of lost events
  latest,              \* the producer's register shadow
  observed, past,      \* history: writes that reached latest, its values
  cpc,                 \* CPU1: control
  live,                \* the registers of the software Paula
  at,                  \* history: the moment of past that live shows
  event,               \* CPU1's copy of the event it applies
  processed,           \* events applied in this frame
  clock,               \* the replay clock
  lastDrop, recovery,  \* last_drop, recovery_pending
  snap,                \* the snapshot
  missed               \* history: a drop since the snapshot began

busVars == <<paula, writes, word>>
ringVars == <<events, head>>
shadowVars == <<latest, observed, past>>
producerVars == <<busVars, ppc, ringVars, shadowVars>>
replayVars == <<live, at, event, processed>>
recoveryVars == <<clock, lastDrop, recovery, snap>>
consumerVars == <<tail, cpc, replayVars, recoveryVars>>
vars == <<producerVars, consumerVars, lock, dropped, missed>>

Files == [Cells -> 0 .. MaxWrites]
Reset == [c \in Cells |-> 0]
Events ==
  [cells : SUBSET Cells, value : 0 .. MaxWrites, stamp : 0 .. MaxWrites]
NoEvent == [cells |-> {}, value |-> 0, stamp |-> 0]
NoSnap == [file |-> Reset, dropped |-> 0, stamp |-> 0]

ProducerPc == {"idle", "capture", "record", "full", "publish", "unlock"}
ConsumerPc == {"boot", "top", "snapshot", "copy", "unlock", "restore", "apply",
               "pop", "silent", "render"}

\* The registers after a write of these cells.
Stored(file, cells, value) ==
  [c \in Cells |-> IF c \in cells THEN value ELSE file[c]]

\* The state paula_mirror_enable leaves, before any capture.
Init ==
  /\ paula = Reset /\ writes = 0
  /\ ppc = "idle" /\ word = {}
  /\ lock = "free"
  /\ events = [i \in 0 .. Capacity - 1 |-> NoEvent] /\ head = 0 /\ tail = 0
  /\ dropped = 0
  /\ latest = Reset /\ observed = 0 /\ past = [n \in 0 .. MaxWrites |-> Reset]
  /\ cpc = "boot" /\ live = Reset /\ at = 0 /\ event = NoEvent /\ processed = 0
  /\ clock = 0 /\ lastDrop = 0 /\ recovery = FALSE /\ snap = NoSnap
  /\ missed = FALSE

-----------------------------------------------------------------------------
(* CPU0: paula_mirror_capture, after the physical write of the register.   *)

BusWrite(cells) ==
  /\ ppc = "idle"
  /\ writes < MaxWrites
  /\ writes' = writes + 1
  /\ paula' = Stored(paula, cells, writes + 1)
  /\ word' = cells
  /\ ppc' = "capture"
  /\ UNCHANGED <<ringVars, shadowVars, consumerVars, lock, dropped, missed>>

\* "Never make a physical bus write wait for the audio renderer": a write
\* that finds the lock held is lost.
CaptureBusy ==
  /\ ppc = "capture"
  /\ lock # "free"
  /\ dropped' = dropped + 1
  /\ missed' = (missed \/ cpc \in {"copy", "unlock", "restore"})
  /\ ppc' = "idle" /\ word' = {}
  /\ UNCHANGED <<paula, writes, ringVars, shadowVars, consumerVars, lock>>

CaptureLock ==
  /\ ppc = "capture"
  /\ lock = "free"
  /\ lock' = "producer"
  /\ ppc' = "record"
  /\ UNCHANGED <<busVars, ringVars, shadowVars, consumerVars, dropped, missed>>

\* The shadow of the registers, the test for a full ring, and the slot.
Record ==
  /\ ppc = "record"
  /\ latest' = Stored(latest, word, writes)
  /\ observed' = observed + 1
  /\ past' = [past EXCEPT ![observed'] = latest']
  /\ IF head - tail >= Capacity
     THEN ppc' = "full" /\ UNCHANGED events
     ELSE /\ ppc' = "publish"
          /\ events' = [events EXCEPT ![head % Capacity] =
                          [cells |-> word, value |-> writes,
                           stamp |-> observed']]
  /\ UNCHANGED <<busVars, head, consumerVars, lock, dropped, missed>>

DropFull ==
  /\ ppc = "full"
  /\ dropped' = dropped + 1
  /\ missed' = (missed \/ cpc \in {"copy", "unlock", "restore"})
  /\ ppc' = "unlock"
  /\ UNCHANGED <<busVars, ringVars, shadowVars, consumerVars, lock>>

Publish ==
  /\ ppc = "publish"
  /\ head' = head + 1
  /\ ppc' = "unlock"
  /\ UNCHANGED <<busVars, events, shadowVars, consumerVars, lock, dropped,
                 missed>>

CaptureUnlock ==
  /\ ppc = "unlock"
  /\ lock' = "free"
  /\ ppc' = "idle" /\ word' = {}
  /\ UNCHANGED <<paula, writes, ringVars, shadowVars, consumerVars, dropped,
                 missed>>

-----------------------------------------------------------------------------
(* CPU1: one turn of the frame loop.                                       *)

\* HDMI is initialised.  Nothing tells CPU0, which meanwhile may have started
\* the 68k code (a boot delay makes it unlikely) and even filled the ring.
StartLoop ==
  /\ cpc = "boot"
  /\ lastDrop' = dropped
  /\ cpc' = "top"
  /\ UNCHANGED <<producerVars, tail, replayVars, clock, recovery, snap, lock,
                 dropped, missed>>

HighWater == (3 * Capacity) \div 4

NeedsRecovery(late) ==
  dropped # lastDrop \/ head - tail >= HighWater \/ late

\* Writes whose event is in the ring or was given up.
Settled == IF ppc \in {"full", "publish"} THEN observed - 1 ELSE observed

\* The top of the loop.  The clock moves on, and stays latency (50 ms)
\* behind: a write has settled long before its event is due, and what is
\* captured from here on is not due in this turn.
LoopTop ==
  /\ cpc = "top"
  /\ clock' \in clock .. Settled
  /\ \E late \in BOOLEAN :
       recovery' = (recovery \/ NeedsRecovery(late))
  /\ cpc' = IF recovery' THEN "snapshot" ELSE "apply"
  /\ processed' = 0
  /\ UNCHANGED <<producerVars, tail, live, at, event, lastDrop, snap, lock,
                 dropped, missed>>

\* paula_mirror_snapshot_take: "a bounded try-lock".  The turn then only
\* puts out a silent frame.
SnapshotBusy ==
  /\ cpc = "snapshot"
  /\ lock # "free"
  /\ cpc' = "silent"
  /\ UNCHANGED <<producerVars, tail, replayVars, recoveryVars, lock, dropped,
                 missed>>

SnapshotLock ==
  /\ cpc = "snapshot"
  /\ lock = "free"
  /\ lock' = "consumer"
  /\ cpc' = "copy"
  /\ missed' = FALSE
  /\ UNCHANGED <<producerVars, tail, replayVars, recoveryVars, dropped>>

\* Fault: the obsolete prefix of the ring is kept.
KeepPrefix(h, t) == t
SkipPrefix(h, t) == h

\* The copy of latest and of the drop count, and the prefix discarded.
SnapshotCopy ==
  /\ cpc = "copy"
  /\ snap' = [file |-> latest, dropped |-> dropped, stamp |-> observed]
  /\ tail' = SkipPrefix(head, tail)
  /\ cpc' = "unlock"
  /\ UNCHANGED <<producerVars, replayVars, clock, lastDrop, recovery, lock,
                 dropped, missed>>

\* Fault: the lock is never given back.
Kept == "consumer"
Released == "free"

SnapshotUnlock ==
  /\ cpc = "unlock"
  /\ lock' = Released
  /\ cpc' = "restore"
  /\ UNCHANGED <<producerVars, tail, replayVars, recoveryVars, dropped,
                 missed>>

\* Fault: the reset comes after the replay.
ResetLast(file) == Reset

\* Reset, then a replay of the registers seen (poc_restore_live_state).
Restored(file) == [c \in Cells |-> IF c \in Restorable THEN file[c] ELSE 0]

\* Fault: the count is read when the restoration ends.
CurrentDrops(s) == dropped
SnapshotDrops(s) == s.dropped

\* The rest of the restoration, private to CPU1; the clock starts again
\* latency behind, where nothing after the snapshot is due.
Restore ==
  /\ cpc = "restore"
  /\ live' = Restored(snap.file) /\ at' = snap.stamp
  /\ lastDrop' = SnapshotDrops(snap)
  /\ clock' = snap.stamp
  /\ recovery' = FALSE
  /\ snap' = NoSnap
  /\ cpc' = "apply"
  /\ UNCHANGED <<producerVars, tail, event, processed, lock, dropped, missed>>

NextEvent == events[tail % Capacity]
EventDue == tail # head /\ NextEvent.stamp <= clock

\* Fault: one event too many.
BatchAndOne(n) == n <= Batch
InBatch(n) == n < Batch

\* Peek and apply an event that is due ...
ApplyEvent ==
  /\ cpc = "apply"
  /\ InBatch(processed) /\ EventDue
  /\ event' = NextEvent
  /\ live' = Stored(live, NextEvent.cells, NextEvent.value)
  /\ at' = NextEvent.stamp
  /\ cpc' = "pop"
  /\ UNCHANGED <<producerVars, tail, processed, recoveryVars, lock, dropped,
                 missed>>

\* ... and pop it.
PopEvent ==
  /\ cpc = "pop"
  /\ tail' = tail + 1
  /\ processed' = processed + 1
  /\ event' = NoEvent
  /\ cpc' = "apply"
  /\ UNCHANGED <<producerVars, live, at, recoveryVars, lock, dropped, missed>>

\* Fault: the frame is rendered however many events are due.
NoBacklog == FALSE
Backlog == EventDue

\* The batch is over: "emit silence for this frame ... rather than rendering
\* audio with an incomplete register state".
EndBatch ==
  /\ cpc = "apply"
  /\ ~(InBatch(processed) /\ EventDue)
  /\ cpc' = IF Backlog THEN "silent" ELSE "render"
  /\ UNCHANGED <<producerVars, tail, replayVars, recoveryVars, lock, dropped,
                 missed>>

Emit(kind) ==
  /\ cpc = kind
  /\ cpc' = "top"
  /\ UNCHANGED <<producerVars, tail, replayVars, recoveryVars, lock, dropped,
                 missed>>

Silence == Emit("silent")
Render == Emit("render")

-----------------------------------------------------------------------------
Capture ==
  \/ CaptureBusy \/ CaptureLock \/ Record \/ DropFull \/ Publish
  \/ CaptureUnlock

Frame ==
  \/ StartLoop \/ LoopTop
  \/ SnapshotBusy \/ SnapshotLock \/ SnapshotCopy \/ SnapshotUnlock \/ Restore
  \/ ApplyEvent \/ PopEvent \/ EndBatch \/ Silence \/ Render

Next == (\E cells \in Words : BusWrite(cells)) \/ Capture \/ Frame

Spec == Init /\ [][Next]_vars

\* A capture never waits and neither does the loop (the MAI FIFO drains at
\* 48 kHz; a stall ends the program).  Time passes, so what has settled is
\* due some day, unless a recovery overtakes it.
FairSpec ==
  /\ Spec
  /\ WF_vars(Capture) /\ WF_vars(Frame)
  /\ SF_vars(LoopTop /\ clock' = Settled)

-----------------------------------------------------------------------------
(* Properties.                                                             *)

\* The values the variables may take; a frame applies at most a batch.
TypeOK ==
  /\ paula \in Files /\ latest \in Files /\ live \in Files
  /\ past \in [0 .. MaxWrites -> Files]
  /\ writes \in 0 .. MaxWrites /\ observed \in 0 .. MaxWrites
  /\ ppc \in ProducerPc /\ word \in SUBSET Cells
  /\ lock \in {"free", "producer", "consumer"}
  /\ events \in [0 .. Capacity - 1 -> Events] /\ head \in Nat /\ tail \in Nat
  /\ dropped \in Nat /\ lastDrop \in Nat
  /\ cpc \in ConsumerPc /\ at \in 0 .. MaxWrites /\ event \in Events
  /\ processed \in 0 .. Batch
  /\ clock \in 0 .. MaxWrites /\ recovery \in BOOLEAN /\ missed \in BOOLEAN
  /\ snap \in [file : Files, dropped : Nat, stamp : 0 .. MaxWrites]

\* The stamp of an event in the ring.
Stamp(i) == events[i % Capacity].stamp

\* A drop CPU1 has not recovered from but is bound to find out about.
Unrecovered ==
  \/ recovery \/ dropped # lastDrop
  \/ cpc \in {"boot", "top"} /\ head - tail >= HighWater

\* Where CPU1 stands in the stream once the event in its hands is popped.
Consumed == IF cpc = "pop" THEN tail + 1 ELSE tail

\* No silent gap: unless CPU1 has a drop to recover from, the ring holds exactly
\* the settled writes it has not applied, in order, and no slot was overwritten.
GapsAreCounted ==
  ~Unrecovered =>
    /\ Settled - at = head - Consumed
    /\ \A i \in Consumed .. head - 1 : Stamp(i) = at + 1 + (i - Consumed)

\* The mirror only lags: CPU1 never plays registers that mix two moments,
\* and never goes back.
Registers == INSTANCE DelayedRegisters WITH shown <- live
MirrorOnlyLags == Registers!Spec

\* A rendered frame has every observed write that was due in it.
RenderedFramesAreComplete ==
  [][Render => \E n \in clock .. observed :
                 \A c \in Restorable : live[c] = past[n][c]]_vars

\* "Recover ... without permanently silencing HDMI."
NeverSilentForEver == []<><<Render>>_vars

\* Once the 68k code stops writing, CPU1 ends up at the producer's shadow.
MirrorCatchesUp == <>[](\A c \in Restorable : live[c] = latest[c])

\* The software Paula is up to date, for all that CPU1 can tell.
UpToDate ==
  ppc = "idle" /\ tail = head /\ ~Unrecovered /\ cpc \in {"top", "apply"}

\* "A lost event invalidates the exact register history.  Reconstruct the
\* latest CPU-observed state": unless the loss is younger than the latest
\* snapshot, what CPU1 takes for the current registers is what the 68k code
\* wrote.
RecoveryReconstructs ==
  UpToDate /\ ~missed => \A c \in Restorable : live[c] = paula[c]

\* "A new drop during restoration must trigger another recovery."
NewDropRecovers ==
  missed /\ cpc \in {"apply", "pop", "render", "top"} => Unrecovered
=============================================================================
