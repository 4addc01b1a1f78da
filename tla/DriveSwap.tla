----------------------------- MODULE DriveSwap ------------------------------
(***************************************************************************)
(* Drive DF0 exchanged for another one (vectors.c, swap_df0_with_dfx): the *)
(* handlers exchange the select bits of CIA-B, port B, on the way to the   *)
(* port and on the way back, and answer for the drive ID that an internal  *)
(* drive does not have.                                                    *)
(*                                                                         *)
(* A value of the port is the set of its lines that are low, which is      *)
(* active: a drive's number for its select line, Motor for the motor.      *)
(***************************************************************************)
EXTENDS Naturals, FiniteSets

CONSTANTS Swaps   \* the values of swap_df0_with_dfx, 0 for none

ASSUME SwapAssumption == Swaps \subseteq 0 .. 3

VARIABLES
  swap_df0_with_dfx, spoof_df0_id,
  port,     \* the lines low at the port
  wanted,    \* history: the lines the program means to be low
  rdy,      \* the drives pull RDY low
  read      \* the last RDY read and the line then, or <<>>

driveVars == <<swap_df0_with_dfx, spoof_df0_id, port, wanted, rdy, read>>

Drives == 0 .. 3
Motor == 4
Lines == Drives \union {Motor}

DriveInit ==
  /\ swap_df0_with_dfx \in Swaps /\ spoof_df0_id = FALSE
  /\ port = {} /\ wanted = {} /\ rdy = FALSE /\ read = <<>>

-----------------------------------------------------------------------------
\* Fault: only a selected DF0 is exchanged.
DiffersOne(value) == 0 \in value /\ swap_df0_with_dfx \notin value
Differs(value) == (0 \in value) # (swap_df0_with_dfx \in value)

\* Both bits are inverted if they differ.
Inverted(value) ==
  LET both == {0, swap_df0_with_dfx}
  IN  IF swap_df0_with_dfx # 0 /\ Differs(value) THEN (value \ both) \union (both \ value) ELSE value

\* Fault: the ID is answered with the motor on as well.
AsksForIdAlways(value) == swap_df0_with_dfx \in value
AsksForId(value) == swap_df0_with_dfx \in value /\ Motor \notin value

\* SYSWriteValToAddr, CIABPRB
WritePRB(value) ==
  /\ port' = Inverted(value)
  /\ spoof_df0_id' = IF swap_df0_with_dfx # 0 THEN AsksForId(value) ELSE spoof_df0_id

\* SYSReadValFromAddr, CIABPRB: the port reads back what it puts out.
ReadPRB == Inverted(port)

\* SYSReadValFromAddr, CIAAPRA
ReadRdy == rdy \/ (swap_df0_with_dfx # 0 /\ spoof_df0_id)

\* The program writes the port, or changes some of its bits.
Write ==
  \E value \in SUBSET Lines :
    WritePRB(value) /\ wanted' = value /\ read' = <<>> /\ UNCHANGED <<swap_df0_with_dfx, rdy>>

Change ==
  \E l \in Lines, low \in BOOLEAN :
    LET Changed(value) == IF low THEN value \union {l} ELSE value \ {l} IN
    /\ WritePRB(Changed(ReadPRB)) /\ wanted' = Changed(wanted)
    /\ read' = <<>> /\ UNCHANGED <<swap_df0_with_dfx, rdy>>

ReadPRA ==
  /\ read' = <<ReadRdy, rdy>>
  /\ UNCHANGED <<swap_df0_with_dfx, spoof_df0_id, port, wanted, rdy>>

DriveAnswers == rdy' = ~rdy /\ read' = <<>> /\ UNCHANGED <<swap_df0_with_dfx, spoof_df0_id, port, wanted>>

DriveNext == Write \/ Change \/ ReadPRA \/ DriveAnswers

DriveSpec == DriveInit /\ [][DriveNext]_driveVars

-----------------------------------------------------------------------------
Exchanged(d) ==
  IF d = 0 THEN swap_df0_with_dfx ELSE IF d = swap_df0_with_dfx THEN 0 ELSE d

(* However the program sets the port, as a whole or bit by bit from what it  *)
(* reads there, the drive it selects is the exchanged one, and the motor     *)
(* line is its own.                                                          *)
SelectsExchanged ==
  /\ \A d \in Drives : d \in wanted <=> Exchanged(d) \in port
  /\ Motor \in wanted <=> Motor \in port

(* "If drive selected but motor off, Amiga is reading drive ID": then, and   *)
(* for the exchanged drive only, RDY reads low; else it is the line.         *)
IdIsAnswered ==
  read # <<>> =>
    read[1] = (\/ read[2]
               \/ swap_df0_with_dfx # 0 /\ swap_df0_with_dfx \in wanted /\ Motor \notin wanted)

(* The program sees two drives exchanged, with the ID that DF0 lacks.        *)
DrivesAreExchanged == SelectsExchanged /\ IdIsAnswered

=============================================================================
