-------------------------- MODULE DelayedRegisters --------------------------
(***************************************************************************)
(* What the event mirror promises the software Paula, and nothing of how   *)
(* it does it: the registers CPU1 plays are those CPU0 wrote, some writes  *)
(* ago.  They may lag, they may leap forward over writes whose events were *)
(* lost, but they never mix two moments and never go back.                 *)
(***************************************************************************)
EXTENDS Integers

CONSTANTS
  Cells,       \* registers, and the bits of the SET/CLR registers
  Restorable,  \* the cells a resynchronisation brings back
  MaxWrites    \* bound: the moments there are

VARIABLES
  past,        \* past[n]: the registers after n observed writes
  observed,    \* how many writes were observed
  at,          \* the moment CPU1 is at
  shown        \* the registers CPU1 plays

vars == <<past, observed, at, shown>>

Init ==
  /\ past = [n \in 0 .. MaxWrites |-> [c \in Cells |-> 0]]
  /\ observed = 0
  /\ at = 0
  /\ shown = past[0]

\* CPU0 writes a register.
Observe ==
  /\ observed' = observed + 1
  /\ past' = [past EXCEPT ![observed'] = past'[observed']]
  /\ UNCHANGED <<at, shown>>

\* CPU1 moves on.  A cell that no resynchronisation restores may be clear.
Follow ==
  /\ at' \in at .. observed
  /\ \A c \in Cells :
       \/ shown'[c] = past[at'][c]
       \/ c \notin Restorable /\ shown'[c] = 0
  /\ UNCHANGED <<past, observed>>

Next == Observe \/ Follow

Spec == Init /\ [][Next]_vars
=============================================================================
