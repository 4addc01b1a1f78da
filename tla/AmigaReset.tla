----------------------------- MODULE AmigaReset -----------------------------
(***************************************************************************)
(* The RESET line and what depends on it: ps_pulse_reset on CPU0 (the 68k  *)
(* RESET instruction), the housekeeper on CPU2, which restarts the Pi when *)
(* somebody else pulls the line, the ROM overlay, and the chain of the     *)
(* boards that Emu68 adds by AutoConfig (SYSWriteValToAddr and             *)
(* SYSReadValFromAddr).                                                    *)
(*                                                                         *)
(* Kickstart is external: after a reset it reads the board that answers,   *)
(* then gives it a base or shuts it up, until none answers.  usleep is     *)
(* taken to outlast one turn of the housekeeper.                           *)
(***************************************************************************)
EXTENDS Naturals, Sequences

CONSTANTS
  Boards,      \* the boards in order: [z3 : BOOLEAN, enabled : BOOLEAN]
  FastPage0,   \* fast_page0
  MaxResets,   \* bound: reset pulses
  MaxPulls     \* bound: resets from the keyboard

ResetAssumption ==
  /\ Boards \in Seq([z3 : BOOLEAN, enabled : BOOLEAN])
  /\ FastPage0 \in BOOLEAN /\ MaxResets \in Nat /\ MaxPulls \in Nat

VARIABLES
  pulse,             \* ps_pulse_reset: where it is, "off" outside
  driven, pulled,    \* RESET is driven by the PiStorm; pulled by the keyboard
  ignore,            \* ignore_reset
  keeper, low, why,  \* ps_housekeeper: where it is, its sample; history: the keyboard pulled then
  overlay, page0,    \* overlay; what page 0 is mapped to: "bus", "rom" or "ram"
  idx,               \* board_idx, from 1
  state, order,      \* history: "silent", "mapped", "shut" for a board; those done since the reset
  kick,              \* Kickstart: "start", "read" or "reply"
  resets, pulls

pulseVars == <<pulse, driven, ignore, resets>>
keeperVars == <<keeper, low, why>>
keyboardVars == <<pulled, pulls>>
romVars == <<overlay, page0>>
boardVars == <<idx, state, order>>
resetVars == <<pulseVars, keeperVars, keyboardVars, romVars, boardVars, kick>>

Last == Len(Boards) + 1
Silent == [i \in DOMAIN Boards |-> "silent"]

ResetInit ==
  /\ pulse = "off" /\ driven = FALSE /\ pulled = FALSE /\ ignore = FALSE
  /\ keeper = "sample" /\ low = FALSE /\ why = FALSE
  /\ overlay = TRUE /\ page0 = IF FastPage0 THEN "rom" ELSE "bus"
  /\ idx = 1 /\ state = Silent /\ order = <<>> /\ kick = "start"
  /\ resets = 0 /\ pulls = 0

-----------------------------------------------------------------------------
(* The reset pulse. *)

IsLow == driven \/ pulled

Pulse(from, to) ==
  pulse = from /\ pulse' = to /\ UNCHANGED <<keeperVars, keyboardVars, resets, page0>>
KeepsBoards == UNCHANGED <<boardVars, overlay, kick>>

\* The program executes RESET, or the emulation begins.
CallPulse ==
  /\ pulse = "off" /\ resets < MaxResets /\ resets' = resets + 1
  /\ pulse' = "wait"
  /\ UNCHANGED <<driven, ignore, keeperVars, keyboardVars, romVars, boardVars, kick>>

\* Fault: the pulse begins without ignore_reset.
IgnoredNot == ignore
Ignored == TRUE

WaitFree ==
  /\ ~IsLow /\ Pulse("wait", "drive") /\ ignore' = Ignored
  /\ UNCHANGED driven /\ KeepsBoards

Drive ==
  /\ Pulse("drive", "hold") /\ driven' = TRUE
  /\ UNCHANGED ignore /\ KeepsBoards

ReleaseReset ==
  /\ Pulse("hold", "boards") /\ driven' = FALSE
  /\ UNCHANGED ignore /\ KeepsBoards

FirstBoard == 1

ResetBoards ==
  /\ Pulse("boards", "settle")
  /\ overlay' = TRUE /\ idx' = FirstBoard
  /\ state' = Silent /\ order' = <<>> /\ kick' = "start"
  /\ UNCHANGED <<driven, ignore>>

\* Fault: the pulse leaves ignore_reset set.
ReleasedNot == ignore
Released == FALSE

\* usleep(10000): the turn of the housekeeper that saw the pulse has ended.
Settle ==
  /\ ~(keeper = "test" /\ low /\ ~why)
  /\ Pulse("settle", "off") /\ ignore' = Released
  /\ UNCHANGED driven /\ KeepsBoards

-----------------------------------------------------------------------------
(* The housekeeper.  It reads the pins once in a turn. *)

SamplePins ==
  /\ keeper = "sample"
  /\ low' = IsLow /\ why' = pulled /\ keeper' = "test"
  /\ UNCHANGED <<pulseVars, keyboardVars, romVars, boardVars, kick>>

TestPins ==
  /\ keeper = "test"
  /\ keeper' = IF low /\ ~ignore THEN "restart" ELSE "sample"
  /\ UNCHANGED <<pulseVars, low, why, keyboardVars, romVars, boardVars, kick>>

Pull ==
  /\ ~pulled /\ pulls < MaxPulls /\ pulled' = TRUE /\ pulls' = pulls + 1
  /\ UNCHANGED <<pulseVars, keeperVars, romVars, boardVars, kick>>

LetGo ==
  /\ pulled /\ pulled' = FALSE
  /\ UNCHANGED <<pulseVars, keeperVars, pulls, romVars, boardVars, kick>>

-----------------------------------------------------------------------------
(* The 68k program: overlay and AutoConfig. *)

Program == pulse = "off" /\ UNCHANGED <<pulseVars, keeperVars, keyboardVars>>

\* A byte to CIAAPRA whose OVL bit differs from overlay.
WriteOverlay ==
  /\ Program
  /\ overlay' = ~overlay
  /\ page0' = IF FastPage0 THEN (IF overlay' THEN "rom" ELSE "ram") ELSE page0
  /\ UNCHANGED <<boardVars, kick>>

\* Fault: a disabled board answers.
FirstEnabledAny(i) == i
FirstEnabled(i) ==
  CHOOSE j \in i .. Last :
    /\ j = Last \/ Boards[j].enabled
    /\ \A k \in i .. j - 1 : ~Boards[k].enabled

\* A byte read of the window: disabled boards are passed over.
ReadBoard ==
  /\ Program /\ kick = "read"
  /\ idx' = FirstEnabled(idx)
  /\ kick' = IF idx' = Last THEN "done" ELSE "reply"
  /\ UNCHANGED <<romVars, state, order>>

StartConfig ==
  /\ Program /\ kick = "start" /\ kick' = "read"
  /\ UNCHANGED <<romVars, boardVars>>

NextBoard == idx + 1

\* The board in turn takes no more accesses: E80044 of a Zorro III board or
\* E80048 of a Zorro II board maps it, E8004C or E8004E shuts it up.
Passes(s) ==
  /\ state' = [state EXCEPT ![idx] = s] /\ order' = Append(order, idx)
  /\ idx' = NextBoard

\* Fault: Zorro II boards are mapped by another register.
MapsAtOther(board) == IF board.z3 THEN "44" ELSE "4a"
MapsAt(board) == IF board.z3 THEN "44" ELSE "48"

Configure(offset) ==
  /\ Program /\ kick = "reply" /\ idx # Last
  /\ IF offset = MapsAt(Boards[idx])
     THEN Passes("mapped") /\ kick' = "read"
     ELSE UNCHANGED <<boardVars, kick>>
  /\ UNCHANGED romVars

ShutUp ==
  /\ Program /\ kick = "reply" /\ idx # Last
  /\ Passes("shut") /\ kick' = "read"
  /\ UNCHANGED romVars

ResetNext ==
  \/ CallPulse \/ WaitFree \/ Drive \/ ReleaseReset \/ ResetBoards \/ Settle
  \/ SamplePins \/ TestPins \/ Pull \/ LetGo
  \/ WriteOverlay \/ StartConfig \/ ReadBoard \/ Configure("44") \/ Configure("48") \/ ShutUp

ResetSpec == ResetInit /\ [][ResetNext]_resetVars

\* The steps of a pulse, one after another.
PulseGoesOn == WaitFree \/ Drive \/ ReleaseReset \/ ResetBoards \/ Settle

\* Both cores go on; a board is answered by the right register in the end.
ResetFairSpec ==
  /\ ResetSpec
  /\ WF_resetVars(SamplePins \/ TestPins) /\ WF_resetVars(PulseGoesOn)
  /\ WF_resetVars(StartConfig \/ ReadBoard)
  /\ WF_resetVars(Configure("44")) /\ WF_resetVars(Configure("48"))

-----------------------------------------------------------------------------
ResetTypeOK ==
  /\ pulse \in {"off", "wait", "drive", "hold", "boards", "settle"}
  /\ driven \in BOOLEAN /\ pulled \in BOOLEAN /\ ignore \in BOOLEAN
  /\ keeper \in {"sample", "test", "restart"} /\ low \in BOOLEAN /\ why \in BOOLEAN
  /\ overlay \in BOOLEAN /\ page0 \in {"bus", "rom", "ram"}
  /\ idx \in 1 .. Last /\ kick \in {"start", "read", "reply", "done"}
  /\ state \in [DOMAIN Boards -> {"silent", "mapped", "shut"}]
  /\ order \in Seq(DOMAIN Boards)

(* Only the keyboard restarts the Pi: the machine's own reset pulse, which   *)
(* the housekeeper sees on the same pin, never does.                         *)
OwnResetIsIgnored == keeper = "restart" => why

(* Every enabled board is configured in its turn and once, no disabled one   *)
(* is, and when the chain has ended every enabled board is done.             *)
EnabledBoards == {i \in DOMAIN Boards : Boards[i].enabled}
ChainInOrder ==
  /\ \A m, n \in DOMAIN order : m < n => order[m] < order[n]
  /\ \A i \in DOMAIN Boards : state[i] # "silent" => i \in EnabledBoards
  /\ kick = "done" => \A i \in EnabledBoards : state[i] # "silent"

(* The machine's own resets and the boards, whenever a reset comes between.  *)
ResetsAreHandled == OwnResetIsIgnored /\ ChainInOrder

(* With fast_page0, page 0 is ROM while the overlay is active, else RAM.     *)
PageZeroFollowsOverlay ==
  FastPage0 /\ pulse = "off" => page0 = IF overlay THEN "rom" ELSE "ram"

(* The RESET line held by the keyboard restarts the Pi, even when a pulse of *)
(* the machine's own runs at that time.                                      *)
KeyboardResetsPi == pulled ~> (~pulled \/ keeper = "restart")

(* The chain of boards ends, or another reset begins.                        *)
ChainEnds == kick = "start" ~> (kick = "done" \/ pulse # "off")

=============================================================================
