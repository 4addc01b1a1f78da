----------------------------- MODULE PaulaStream -----------------------------
(***************************************************************************)
(* What the live renderer promises: a software Paula that plays from       *)
(* memory it can always read.  Every committed frame holds the samples     *)
(* that lie in memory, each once and in order, and the master gain and the *)
(* interrupts go with committed frames only.                               *)
(***************************************************************************)
EXTENDS PaulaCore

CONSTANTS
  Highs, Lows, Lens,  \* what is written to AUDxLCH, AUDxLCL and AUDxLEN
  MaxSteps,           \* bound: source samples of a channel in one frame
  Ramp,               \* steps of a full fade: 96
  Wrap                \* modulus of the interrupt counter: 2^32

VARIABLES
  core,    \* the Paula core
  irqs,    \* PP_VIRTUAL_IRQS
  gain, target,  \* master_gain, master_target
  out      \* the latest committed frame (last_left, last_right)

vars == <<core, irqs, gain, target, out>>

Silent == [samples |-> [ch \in Chans |-> 0], gain |-> 0]

Init ==
  /\ core = ResetCore /\ irqs = 0 /\ gain = Ramp /\ target = Ramp
  /\ out = Silent

\* A register write, with the core it leaves.
Written(before, after) ==
  \/ \E ch \in Chans :
       \/ \E h \in Highs : after = WriteHigh(before, ch, h)
       \/ \E l \in Lows : after = WriteLow(before, ch, l)
       \/ \E n \in Lens : after = WriteLen(before, ch, n)
  \/ \E set \in BOOLEAN, bits \in SUBSET DmaBits :
       after = WriteDma(before, set, bits)

Write == Written(core, core') /\ UNCHANGED <<irqs, gain, target, out>>

\* A resynchronisation: the core is reset, takes registers, and the channels
\* that are on start at the block those registers name.
Resync ==
  /\ \A ch \in Chans :
       LET c == core'.chan[ch] IN
       IF On(core', ch) THEN c = Primed(c) ELSE c = [ResetChannel EXCEPT
                                                     !.loc = c.loc,
                                                     !.len = c.len]
  /\ out' = Silent
  /\ UNCHANGED <<irqs, gain, target>>

SetTarget == target' \in 0 .. Ramp /\ UNCHANGED <<core, irqs, gain, out>>

\* One more source sample of a channel, and its reloads so far.
PlaysOne(on, before) ==
  LET address == Block(before.chan).ptr IN
  IF on
  THEN [chan |-> Advance(before.chan, ByteAt(address), ByteAt(address + 1)),
        reloads |-> before.reloads + (IF Reloads(before.chan) THEN 1 ELSE 0)]
  ELSE [chan |-> Silenced(before.chan), reloads |-> before.reloads]

\* A channel after each number of source samples, and the reloads on the way.
Played(on, c) ==
  LET played[n \in 0 .. MaxSteps] ==
        IF n = 0 THEN [chan |-> c, reloads |-> 0] ELSE PlaysOne(on, played[n - 1])
  IN played

\* The sums of what the first channels count.
Sums(counts) ==
  LET sum[n \in 0 .. NumChans] == IF n = 0 THEN 0 ELSE sum[n - 1] + counts[n - 1]
  IN sum

Toward(g, t) == IF g < t THEN g + 1 ELSE IF g > t THEN g - 1 ELSE g

\* All channels play some samples; master_gain takes a step.
Frame ==
  \E count \in [Chans -> 0 .. MaxSteps] :
    LET played == [ch \in Chans |-> Played(On(core, ch), core.chan[ch])[count[ch]]]
        samples == [ch \in Chans |-> played[ch].chan.cur]
    IN
    /\ core' = [core EXCEPT !.chan = [ch \in Chans |-> played[ch].chan]]
    /\ irqs' = (irqs + Sums([ch \in Chans |-> played[ch].reloads])[NumChans]) % Wrap
    /\ gain' = Toward(gain, target)
    /\ out' = [samples |-> samples, gain |-> gain']
    /\ UNCHANGED target

Next == Write \/ Resync \/ SetTarget \/ Frame

Spec == Init /\ [][Next]_vars
=============================================================================
