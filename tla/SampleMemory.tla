---------------------------- MODULE SampleMemory ----------------------------
(***************************************************************************)
(* What the Chip RAM cache promises the renderer on CPU1, and nothing of   *)
(* how it does it: a regular register per byte.  A read either misses or   *)
(* returns a version of the byte that was not yet replaced, by a write     *)
(* that had completed, when the read began.                                *)
(*                                                                         *)
(* A byte is abstracted to the number of the bus write that stored it.     *)
(***************************************************************************)
EXTENDS Integers

CONSTANTS
  Addr,    \* the bytes of Chip RAM
  Miss,    \* the answer of a read whose page is not in the cache
  NoRead   \* the byte has not been read yet

VARIABLES
  mem,     \* mem[a]: the version of byte a on the physical bus
  stable,  \* stable[a]: the latest version whose write has completed
  open,    \* a read is in progress
  addr,    \* the byte the reader is at
  floor,   \* stable[addr] when the open read began
  answer   \* what the latest completed read of that byte returned

vars == <<mem, stable, open, addr, floor, answer>>

Init ==
  /\ mem = [a \in Addr |-> 0]
  /\ stable = mem
  /\ open = FALSE
  /\ addr \in Addr
  /\ floor = 0
  /\ answer = NoRead

\* A bus write stores a new version of one byte.
Write(a) ==
  /\ mem'[a] > mem[a]
  /\ mem' = [mem EXCEPT ![a] = mem'[a]]
  /\ UNCHANGED <<stable, open, addr, floor, answer>>

\* The write of byte a returns to the CPU that issued it.
Complete(a) ==
  /\ stable' = [stable EXCEPT ![a] = mem[a]]
  /\ UNCHANGED <<mem, open, addr, floor, answer>>

\* The reader, between two reads, turns to another byte.
Seek ==
  /\ ~open
  /\ addr' \in Addr
  /\ answer' = NoRead
  /\ UNCHANGED <<mem, stable, open, floor>>

Begin ==
  /\ ~open
  /\ open' = TRUE
  /\ floor' = stable[addr]
  /\ UNCHANGED <<mem, stable, addr, answer>>

End ==
  /\ open
  /\ open' = FALSE
  /\ \/ answer' = Miss
     \/ answer' \in floor .. mem[addr]
  /\ floor' = 0
  /\ UNCHANGED <<mem, stable, addr>>

Next ==
  \/ \E a \in Addr : Write(a) \/ Complete(a)
  \/ Seek
  \/ Begin
  \/ End

Spec == Init /\ [][Next]_vars
=============================================================================
