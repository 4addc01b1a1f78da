---------------------------- MODULE MCSequential ----------------------------
(***************************************************************************)
(* One instance for TLC of the parts that are sequential, or nearly so:    *)
(* the replay clock, the map of the lower memory, the exchanged drives,    *)
(* the dispatcher's translations, the fault handlers, the ROM and the      *)
(* audio clock ratio.                                                      *)
(*                                                                         *)
(* As in MCConcurrent a behaviour lets one part leave its initial state,   *)
(* the one in running.                                                     *)
(***************************************************************************)
EXTENDS ReplayClock, SlowMemory, DriveSwap, Translations, RomImage, MaiRatio,
  FaultHandlers, TLC

CONSTANTS
  a1, a2, a3,   \* addresses of code
  u1, u2, u3,   \* places of units
  only,         \* contents of memory
  idle

VARIABLES running

-----------------------------------------------------------------------------
(* The parts. *)

\* Addresses that all fall into one set of the LRU, which has two ways: with
\* flushes and changes of the code (the constants of the configuration), with
\* more addresses than units, and with more units than ways.
Crowded == INSTANCE Translations WITH
  Addresses <- {a1, a2, a3}, Versions <- {only}
Evicting == INSTANCE Translations WITH
  Addresses <- {a1, a2, a3}, Units <- {u1, u2, u3},
  Versions <- {only}, MaxEpoch <- 0
NoUnits == INSTANCE Translations WITH
  Addresses <- {a1}, Units <- {idle}, Versions <- {idle}, MaxEpoch <- 0

\* No definition of Translations tells two units or contents apart.
Symmetry == Permutations(Units) \union Permutations(Versions)

\* Pointers inside the address space, at both its ends, and far outside.
Codes == INSTANCE Opcodes
Known == Codes!Known
XValues ==
  {[n \in Registers |-> CASE n = 0 -> 181 [] n = 1 -> 107 [] n = Base -> b [] OTHER -> x] :
     b \in {6, 15, 253, 90}, x \in {3, 27, 252}}
VValues == {[n \in {0, 1} |-> IF n = 0 THEN 93 ELSE 166]}
MemoryBytes == [a \in 0 .. 15 |-> (5 * a + a \div 3) % 2]

\* Rates with ratios in the bounds, at their ends and beyond.
ClockRates == 1 .. 60
SampleRates == 1 .. 25

ASSUME SequentialAssumption ==
  /\ TranslationsAssumption /\ Crowded!TranslationsAssumption
  /\ Evicting!TranslationsAssumption
  /\ NothingMishandled
  /\ RomAssumption /\ RatioAssumption

-----------------------------------------------------------------------------
Parts == {"clock", "memory", "drives", "flushed", "crowded", "evicting", "handlers", "rom", "ratio"}
On(part) == running = part

Init ==
  /\ running \in Parts
  /\ ReplayInit /\ (~On("clock") => now = 0)
  /\ SlowInit /\ (~On("memory") => machine = [move |-> FALSE, block |-> FALSE, fill |-> 1, ram |-> Chip])
  /\ DriveInit /\ (~On("drives") => swap_df0_with_dfx = 0)
  /\ \/ On("flushed") /\ UnitInit
     \/ On("crowded") /\ Crowded!UnitInit
     \/ On("evicting") /\ Evicting!UnitInit
     \/ running \notin {"flushed", "crowded", "evicting"} /\ NoUnits!UnitInit /\ cacheOn
  /\ HandlerInit /\ (~On("handlers") => regs[2] = 6 /\ regs[3] = 3)
  /\ InstallInit
       /\ (~On("rom") => size = "512K" /\ fromBus /\ ~recalc /\ ~fastZero /\ kick = <<0, 0, 1, 2, 0, 0, 0, 3>>)
  /\ RatioInit /\ (~On("ratio") => clock_rate = 1 /\ sample_rate = 1)

Next ==
  \/ On("clock") /\ ReplayNext
       /\ UNCHANGED <<running, slowVars, driveVars, unitVars, handlerVars, installVars, ratioVars>>
  \/ On("memory") /\ SlowNext
       /\ UNCHANGED <<running, replayVars, driveVars, unitVars, handlerVars, installVars, ratioVars>>
  \/ On("drives") /\ DriveNext
       /\ UNCHANGED <<running, replayVars, slowVars, unitVars, handlerVars, installVars, ratioVars>>
  \/ On("flushed") /\ UnitNext
       /\ UNCHANGED <<running, replayVars, slowVars, driveVars, handlerVars, installVars, ratioVars>>
  \/ On("crowded") /\ Crowded!UnitNext
       /\ UNCHANGED <<running, replayVars, slowVars, driveVars, handlerVars, installVars, ratioVars>>
  \/ On("evicting") /\ Evicting!UnitNext
       /\ UNCHANGED <<running, replayVars, slowVars, driveVars, handlerVars, installVars, ratioVars>>
  \/ On("handlers") /\ HandlerNext
       /\ UNCHANGED <<running, replayVars, slowVars, driveVars, unitVars, installVars, ratioVars>>
  \/ On("rom") /\ InstallNext
       /\ UNCHANGED <<running, replayVars, slowVars, driveVars, unitVars, handlerVars, ratioVars>>
  \/ On("ratio") /\ RatioNext
       /\ UNCHANGED <<running, replayVars, slowVars, driveVars, unitVars, handlerVars, installVars>>

vars == <<running, replayVars, slowVars, driveVars, unitVars, handlerVars, installVars, ratioVars>>

Spec == Init /\ [][Next]_vars

-----------------------------------------------------------------------------
(* The properties of the parts are stated in their modules.                  *)

\* The types of all parts.
TypesOK ==
  /\ ReplayTypeOK /\ HandlerTypeOK /\ RomTypeOK /\ RatioTypeOK
  /\ CASE On("flushed") -> UnitTypeOK [] On("crowded") -> Crowded!UnitTypeOK
       [] On("evicting") -> Evicting!UnitTypeOK [] OTHER -> NoUnits!UnitTypeOK

=============================================================================
