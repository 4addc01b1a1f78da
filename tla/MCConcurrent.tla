---------------------------- MODULE MCConcurrent ----------------------------
(***************************************************************************)
(* One instance for TLC of the parts that run on several cores, or beside  *)
(* each other on one: the mixer, interrupts, the bus, the HDMI output, the *)
(* start of the cores and RESET.                                           *)
(*                                                                         *)
(* The parts share no variable, so a behaviour of all of them is, for each *)
(* part, a behaviour of that part with stuttering: what holds of a part    *)
(* alone holds of it beside the others.  A behaviour here lets one part    *)
(* leave its initial state, the one in running; the state space is the sum *)
(* of those of the parts, not the product.                                 *)
(***************************************************************************)
EXTENDS MixerControl, Interrupts, CoreStart, BusAccess, HdmiOutput, AmigaReset

CONSTANT g1   \* one of the windows

VARIABLE running

-----------------------------------------------------------------------------
(* The parts. *)

\* Two windows and another program (the constants of the run), or one window
\* alone.
Sole == INSTANCE MixerControl WITH
  Guis <- {g1}, Limit <- 1, PokedLevels <- {}, Clicks <- {"interp", "mute", "defaults"}, MaxEvents <- 3

\* A program that enables and serves the ARM device; the lines and a System
\* Error beside it.
ArmOnly == INSTANCE Interrupts WITH Widths <- {2}, Lines <- {0}, MaxErrors <- 0, MaxWrites <- 3
WithLines == INSTANCE Interrupts WITH Widths <- {2}, Lines <- {0, 4}, MaxErrors <- 0, MaxWrites <- 1
WithError == INSTANCE Interrupts WITH Widths <- {2}, Lines <- {0}, MaxErrors <- 1, MaxWrites <- 1

\* One access of every size at every boundary, or two of some.
OneAccess == INSTANCE BusAccess WITH MaxAccesses <- 1
TwoAccesses == INSTANCE BusAccess WITH Addresses <- {3, 7, 10, 11, 12}, Sizes <- {1, 2, 4}

\* The boot with its panel (the constants of the run), or the output alone.
Output == INSTANCE HdmiOutput WITH Timeout <- 2, MaxFull <- 2, MaxPosts <- 1

\* Boards of both kinds, some disabled.
Board(z, e) == [z3 |-> z, enabled |-> e]
FourBoards == <<Board(FALSE, FALSE), Board(FALSE, TRUE), Board(TRUE, FALSE), Board(TRUE, TRUE)>>

ASSUME ConcurrentAssumption ==
  /\ MixerAssumption /\ Sole!MixerAssumption
  /\ InterruptsAssumption /\ ArmOnly!InterruptsAssumption
  /\ WithLines!InterruptsAssumption /\ WithError!InterruptsAssumption
  /\ BusAssumption /\ OneAccess!BusAssumption /\ TwoAccesses!BusAssumption
  /\ OutputAssumption /\ Output!OutputAssumption
  /\ CoreAssumption /\ ResetAssumption

Parts == {"mixer", "sole", "arm", "lines", "error", "access", "accesses", "panel", "audio", "start", "reset"}

-----------------------------------------------------------------------------
Init ==
  /\ running \in Parts
  /\ IF running = "sole" THEN Sole!MixerInit ELSE MixerInit
  /\ IrqInit /\ (running \notin {"arm", "lines", "error"} => ~sr.m /\ sr.mask = 0)
  /\ BusInit
  /\ OutputInit /\ (running \notin {"panel", "audio"} => ~full)
  /\ StartInit /\ (running # "start" => ~ppc_enable)
  /\ ResetInit

Next ==
  \/ running = "mixer" /\ MixerNext
       /\ UNCHANGED <<running, irqVars, busVars, outputVars, startVars, resetVars>>
  \/ running = "sole" /\ Sole!MixerNext
       /\ UNCHANGED <<running, irqVars, busVars, outputVars, startVars, resetVars>>
  \/ running = "arm" /\ ArmOnly!IrqNext
       /\ UNCHANGED <<running, mixerVars, busVars, outputVars, startVars, resetVars>>
  \/ running = "lines" /\ WithLines!IrqNext
       /\ UNCHANGED <<running, mixerVars, busVars, outputVars, startVars, resetVars>>
  \/ running = "error" /\ WithError!IrqNext
       /\ UNCHANGED <<running, mixerVars, busVars, outputVars, startVars, resetVars>>
  \/ running = "access" /\ OneAccess!BusNext
       /\ UNCHANGED <<running, mixerVars, irqVars, outputVars, startVars, resetVars>>
  \/ running = "accesses" /\ TwoAccesses!BusNext
       /\ UNCHANGED <<running, mixerVars, irqVars, outputVars, startVars, resetVars>>
  \/ running = "panel" /\ OutputNext
       /\ UNCHANGED <<running, mixerVars, irqVars, busVars, startVars, resetVars>>
  \/ running = "audio" /\ Output!OutputNext
       /\ UNCHANGED <<running, mixerVars, irqVars, busVars, startVars, resetVars>>
  \/ running = "start" /\ StartNext
       /\ UNCHANGED <<running, mixerVars, irqVars, busVars, outputVars, resetVars>>
  \/ running = "reset" /\ ResetNext
       /\ UNCHANGED <<running, mixerVars, irqVars, busVars, outputVars, startVars>>

vars == <<running, mixerVars, irqVars, busVars, outputVars, startVars, resetVars>>

Spec == Init /\ [][Next]_vars

\* The fairness of each part, while it runs; see the module of the part.
On(parts) == running \in parts
FairSpec ==
  /\ Spec
  /\ WF_mixerVars(On({"mixer"}) /\ CPU1)
  /\ \A g \in Guis :
       /\ WF_mixerVars(On({"mixer"}) /\ Tick(g))
       /\ WF_mixerVars(On({"mixer"}) /\ (Update(g) \/ Send(g)))
       /\ SF_mixerVars(On({"mixer"}) /\ Release(g))
  /\ WF_irqVars(On({"arm", "lines", "error"}) /\ Dispatch)
  /\ WF_irqVars(On({"arm", "lines", "error"}) /\ Return)
  /\ WF_irqVars(On({"arm", "lines", "error"}) /\ IrqVector)
  /\ WF_irqVars(On({"arm", "lines", "error"}) /\ ps_housekeeper)
  /\ WF_busVars(On({"access", "accesses"}) /\ NextStep)
  /\ WF_busVars(On({"access", "accesses"}) /\ BlitDone)
  /\ WF_outputVars(On({"panel"}) /\ Cpu0)
  /\ WF_outputVars(On({"audio"}) /\ Output!Cpu1GoesOn)
  /\ WF_outputVars(On({"audio"}) /\ Output!Time)
  /\ WF_startVars(On({"start"}) /\ CPU0)
  /\ \A c \in Cores :
       WF_startVars(On({"start"}) /\ (Enter(c) \/ Prepare(c) \/ Clear(c)))
  /\ WF_resetVars(On({"reset"}) /\ (SamplePins \/ TestPins))
  /\ WF_resetVars(On({"reset"}) /\ PulseGoesOn)
  /\ WF_resetVars(On({"reset"}) /\ (StartConfig \/ ReadBoard))
  /\ WF_resetVars(On({"reset"}) /\ Configure("44"))
  /\ WF_resetVars(On({"reset"}) /\ Configure("48"))

-----------------------------------------------------------------------------
(* The properties, one or two for each part; their conjuncts are stated and  *)
(* explained in the module of the part.  AcksAreHonest, SoleWindowKeepsOthers, *)
(* InterruptsAreExact, BootIsOrdered, CopiesFollowTheBus, AccessesAreWhole,  *)
(* PanelIsWhole and ResetsAreHandled are stated only there.                  *)

\* The types of all parts.
TypesOK ==
  /\ MixerTypeOK /\ IrqTypeOK /\ BusTypeOK /\ StartTypeOK /\ ResetTypeOK
  /\ IF On({"audio"}) THEN Output!OutputTypeOK ELSE OutputTypeOK

\* MixerControl: in the end all windows show what is in force.
MixerSettles == On({"mixer"}) => WindowsSettle

\* Interrupts: a request of the ARM device, and a level that stays on the
\* lines, is taken up unless the program masks it.
InterruptsAreServed ==
  On({"arm", "lines", "error"}) => ArmIsServed /\ LineIsServed

\* HdmiOutput, CoreStart, BusAccess, AmigaReset: the boot ends whatever CPU1 does with the
\* mailbox, a message and a full FIFO end whatever CPU0 does, the 68k is started,
\* every access to the bus ends, the wait for the blitter included, and so does
\* the chain of boards; a reset from the keyboard restarts the Pi.
NoCoreIsHeldUp ==
  /\ On({"panel"}) => BootGoesOn
  /\ On({"audio"}) => Output!MessageEnds /\ Output!StallEndsAudio
  /\ On({"start"}) => EmulationStarts
  /\ On({"access", "accesses"}) => AccessesEnd
  /\ On({"reset"}) => KeyboardResetsPi /\ ChainEnds

=============================================================================
