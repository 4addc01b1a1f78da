---------------------------- MODULE ReplayClock -----------------------------
(***************************************************************************)
(* The replay clock of CPU1 (paula_replay.h) in the frame loop of          *)
(* hdmi_audio_poc_run: a counter of Freq ticks per second, frames of 1/Rate *)
(* second, a latency between the write of a register and its effect, and a *)
(* restart of the clock when it lags too far behind.                       *)
(*                                                                         *)
(* Counters and differences have Width bits, differences are read as       *)
(* signed.  On the side of the producer only the event being captured      *)
(* matters here: CPU0 reads the counter, and publishes the event after.    *)
(***************************************************************************)
EXTENDS Integers

CONSTANTS
  Freq, Rate,     \* counter ticks and frames per second: CNTFRQ and 48000
  Latency,        \* latency: 50 ms
  MaxLag,         \* max_lag: 250 ms
  MaxCapture,     \* longest time from a stamp to the publication of its event
  Width,          \* bits of the counter
  MaxNow          \* bound: where the counter ends

ASSUME ClockAssumption ==
  /\ Freq \in Nat /\ Rate \in Nat \ {0}
  /\ Latency \in Nat /\ MaxLag \in Nat /\ MaxCapture \in Nat
  /\ MaxCapture < Latency /\ Latency < MaxNow
  /\ Width \in Nat /\ MaxNow \in Nat
  /\ MaxNow + Freq \div Rate + 1 + Latency + MaxLag < (2 ^ Width) \div 2   \* "much shorter than 2^63"

VARIABLES
  now,              \* CNTVCT
  tick, remainder,  \* clock
  recovering,       \* recovery_pending
  at,               \* the loop: "check", "restore", "wait", "drain" or "output"
  stamp,            \* the stamp of an event not yet published, or None
  origin, frames    \* history: the last start of the clock, and the frames since

tickVars == <<tick, remainder, origin, frames>>
replayVars == <<now, tickVars, recovering, at, stamp>>

None == -1
Modulus == 2 ^ Width

\* (int64_t)(a - b) as a function of the difference.
\* Fault: differences are unsigned.
Unsigned(d) == d % Modulus
Signed(d) ==
  LET u == d % Modulus IN IF u < Modulus \div 2 THEN u ELSE u - Modulus

Due(time, target) == Signed(time - target) >= 0
Late == Signed(now - tick) > Latency + MaxLag

-----------------------------------------------------------------------------
StartTick(t) == IF t > Latency THEN t - Latency ELSE 0

Started(t) ==
  /\ tick' = StartTick(t) /\ remainder' = 0
  /\ origin' = StartTick(t) /\ frames' = 0

Quotient == Freq \div Rate
Rest == Freq % Rate

\* Fault: the carry is taken one step late.
CarriesOver(r) == r > Rate
Carries(r) == r >= Rate

\* Fault: the fraction of a tick is dropped.
AdvanceFloor ==
  /\ tick' = tick + Quotient /\ remainder' = 0
  /\ frames' = frames + 1 /\ origin' = origin
Advance ==
  LET r == remainder + Rest IN
  /\ tick' = tick + Quotient + (IF Carries(r) THEN 1 ELSE 0)
  /\ remainder' = IF Carries(r) THEN r - Rate ELSE r
  /\ frames' = frames + 1 /\ origin' = origin

ReplayInit ==
  /\ now \in 0 .. Latency + 1
  /\ tick = StartTick(now) /\ remainder = 0
  /\ origin = StartTick(now) /\ frames = 0
  /\ recovering = FALSE /\ at = "check" /\ stamp = None

-----------------------------------------------------------------------------
(* CPU1. *)

\* A drop or a full ring may call for recovery at any turn, a lag does.
Check ==
  /\ at = "check"
  /\ \E loss \in BOOLEAN : recovering' = (recovering \/ loss \/ Late)
  /\ at' = IF recovering' THEN "restore" ELSE "wait"
  /\ UNCHANGED <<now, tickVars, stamp>>

Restore ==
  /\ at = "restore"
  /\ recovering' = FALSE /\ Started(now) /\ at' = "wait"
  /\ UNCHANGED <<now, stamp>>

\* The snapshot fails: a silent frame without waiting.
RestoreFails ==
  /\ at = "restore" /\ tick <= MaxNow   \* bound: on the silent frames
  /\ at' = "output"
  /\ UNCHANGED <<now, tickVars, recovering, stamp>>

Wait ==
  /\ at = "wait" /\ Due(now, tick + Latency)
  /\ at' = "drain"
  /\ UNCHANGED <<now, tickVars, recovering, stamp>>

\* All events in the ring that are due are applied, and the frame rendered.
Drain ==
  /\ at = "drain" /\ at' = "output"
  /\ UNCHANGED <<now, tickVars, recovering, stamp>>

Output ==
  /\ at = "output" /\ Advance /\ at' = "check"
  /\ UNCHANGED <<now, recovering, stamp>>

-----------------------------------------------------------------------------
(* CPU0 and time. *)

Stamp ==
  /\ stamp = None /\ stamp' = now
  /\ UNCHANGED <<now, tickVars, recovering, at>>

Publish ==
  /\ stamp # None /\ stamp' = None
  /\ UNCHANGED <<now, tickVars, recovering, at>>

Pass ==
  /\ now < MaxNow
  /\ stamp # None => now < stamp + MaxCapture
  /\ now' = now + 1
  /\ UNCHANGED <<tickVars, recovering, at, stamp>>

ReplayNext ==
  \/ Check \/ Restore \/ RestoreFails \/ Wait \/ Drain \/ Output
  \/ Stamp \/ Publish \/ Pass

ReplaySpec == ReplayInit /\ [][ReplayNext]_replayVars

-----------------------------------------------------------------------------
ReplayTypeOK ==
  /\ now \in Nat /\ tick \in Nat /\ remainder \in 0 .. Rate - 1
  /\ recovering \in BOOLEAN /\ at \in {"check", "restore", "wait", "drain", "output"}
  /\ stamp \in Nat \cup {None} /\ origin \in Nat /\ frames \in Nat

(* No frame is played while an event due in it is stamped but not yet in the *)
(* ring: the latency covers the time that CPU0 takes to publish it.          *)
LatencyCoversCapture == at = "drain" /\ stamp # None => stamp > tick

(* The frames since a start are those of the ideal clock: the remainder      *)
(* carried from frame to frame accounts for every fraction of a tick.        *)
Ideal == INSTANCE FrameClock
IdealClock == Ideal!Spec

(* The clock is the ideal one, and so far behind that captures are over.     *)
ClockIsExact == IdealClock /\ []LatencyCoversCapture

=============================================================================
