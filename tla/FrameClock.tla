----------------------------- MODULE FrameClock -----------------------------
(***************************************************************************)
(* What the replay clock promises: the moments of the frames since a start *)
(* are those of an ideal clock of Rate frames per Freq counter ticks,      *)
(* rounded down to a tick, so that no error accumulates however many       *)
(* frames are played.                                                      *)
(***************************************************************************)
EXTENDS Integers

CONSTANTS Freq, Rate

VARIABLES
  origin, frames,   \* where the clock was started, the frames since
  tick              \* the moment of the next frame

\* Frame number n after a start at o is the last tick not after o + n Freq/Rate.
IsMoment(t, o, n) ==
  /\ t \in Nat
  /\ Rate * (t - o) <= n * Freq
  /\ n * Freq < Rate * (t - o) + Rate

Init == origin \in Nat /\ frames = 0 /\ tick = origin

Start == origin' \in Nat /\ frames' = 0 /\ tick' = origin'

Frame ==
  /\ frames' = frames + 1 /\ origin' = origin
  /\ IsMoment(tick', origin', frames')

Spec == Init /\ [][Start \/ Frame]_<<origin, frames, tick>>

=============================================================================
