----------------------------- MODULE CoreStart ------------------------------
(***************************************************************************)
(* How the boot core wakes the other cores (start.c) and what each of them *)
(* does first (_secondary_start, secondary_boot): the stack handed over in *)
(* temp_stack under boot_lock, the PPC core's initialisation, the gate     *)
(* that holds CPU1 back until the platform is initialised, and the start   *)
(* of the 68k (M68K_StartEmu), which builds the context that the           *)
(* housekeeper writes into and lets the PPC core go.                       *)
(*                                                                         *)
(* Stacks are numbered in the order of their allocation.  StartupPPC and   *)
(* the housekeeper begin where a core "works".                             *)
(***************************************************************************)
EXTENDS Naturals, FiniteSets

CONSTANTS
  NCores,    \* the secondary cores: 3
  Steps,     \* the steps of the platform initialisation
  Seconds    \* the time the panel is shown: 10

CoreAssumption == NCores \in Nat /\ NCores >= 3 /\ Steps \in Nat /\ Seconds \in Nat

Cores == 1 .. NCores
KeeperCore == 2
PpcCore == NCores
Contexts == {"null", "zeroed", "set", "complete"}

VARIABLES
  boot_lock, temp_stack,
  boot, next, steps, elapsed,   \* CPU0: where it is; the core to wake; steps and seconds past
  ppc_enable,
  released,              \* the cores whose spin address is written
  doing, sp_of,              \* "asleep", "entered", "ready", "gate", "arming", "works"; their stacks
  ppcReady,              \* InitPPC is done
  poc_start, enabled,    \* poc_start; the mirror is enabled
  context,               \* what __m68k_state points to
  housekeeper_enabled, ppc_start,   \* PPCStart is released
  saw                    \* the context a core last worked on, or "none"

emuVars == <<context, housekeeper_enabled, ppc_start>>
cpu0Vars == <<boot, next, steps, elapsed, ppc_enable, emuVars>>
startVars == <<boot_lock, temp_stack, cpu0Vars, released, doing, sp_of, ppcReady, poc_start, enabled, saw>>

StartInit ==
  /\ boot_lock = FALSE /\ temp_stack = 0
  /\ boot = "lock" /\ next = 1 /\ steps = 0 /\ elapsed = 0 /\ released = {}
  /\ doing = [c \in Cores |-> "asleep"] /\ sp_of = [c \in Cores |-> 0]
  /\ ppc_enable \in BOOLEAN /\ ppcReady = FALSE /\ poc_start = FALSE /\ enabled = FALSE
  /\ context = "null" /\ housekeeper_enabled = FALSE /\ ppc_start = FALSE /\ saw = [c \in Cores |-> "none"]

-----------------------------------------------------------------------------
(* CPU0. *)

Secondaries == UNCHANGED <<doing, sp_of, ppc_enable, ppcReady, enabled, saw>>
Others == Secondaries /\ UNCHANGED emuVars

\* Fault: the boot core does not wait for the core it woke.
TakesBusy(l) == TRUE
Takes(l) == ~l

ToWake(n) == n <= NCores

\* Before each core, and once more after the last.
TakeLock ==
  /\ boot = "lock" /\ Takes(boot_lock) /\ boot_lock' = TRUE
  /\ boot' = IF ToWake(next) THEN "stack" ELSE "unlock"
  /\ UNCHANGED <<temp_stack, elapsed, next, steps, released, poc_start>> /\ Others

SetStack ==
  /\ boot = "stack" /\ boot' = "wake" /\ temp_stack' = next
  /\ UNCHANGED <<boot_lock, elapsed, next, steps, released, poc_start>> /\ Others

Wake ==
  /\ boot = "wake" /\ boot' = "lock"
  /\ released' = released \cup {next} /\ next' = next + 1
  /\ UNCHANGED <<boot_lock, temp_stack, elapsed, steps, poc_start>> /\ Others

Unlock ==
  /\ boot = "unlock" /\ boot' = "platform" /\ boot_lock' = FALSE
  /\ UNCHANGED <<temp_stack, elapsed, next, steps, released, poc_start>> /\ Others

\* ROM, checksum, memory map, page 0.
Platform ==
  /\ boot = "platform" /\ steps < Steps /\ steps' = steps + 1
  /\ UNCHANGED <<boot_lock, temp_stack, boot, elapsed, next, released, poc_start>> /\ Others

OpenGate ==
  /\ boot = "platform" /\ steps = Steps
  /\ poc_start' = TRUE /\ boot' = "test"
  /\ UNCHANGED <<boot_lock, temp_stack, elapsed, next, steps, released>> /\ Others

\* hdmi_audio_poc_boot_test
ShowPanel ==
  /\ boot = "test" /\ elapsed < Seconds /\ elapsed' = elapsed + 1
  /\ UNCHANGED <<boot_lock, temp_stack, boot, next, steps, released, poc_start>> /\ Others

\* Fault: the boot core waits until CPU1 has enabled the mirror.
PanelEndsArmed == elapsed = Seconds /\ enabled
PanelEnds == elapsed = Seconds

EndPanel ==
  /\ boot = "test" /\ PanelEnds /\ boot' = "context"
  /\ UNCHANGED <<boot_lock, temp_stack, elapsed, next, steps, released, poc_start>> /\ Others

\* M68K_StartEmu, in its steps.
Starts(from, to) ==
  /\ boot = from /\ boot' = to
  /\ UNCHANGED <<boot_lock, temp_stack, elapsed, next, steps, released, poc_start>> /\ Secondaries

\* The context is on this stack, cleared, and __m68k_state points to it.
NewContext ==
  Starts("context", "registers") /\ context' = "zeroed" /\ UNCHANGED <<housekeeper_enabled, ppc_start>>

\* ISP and PC come from the vectors at 0, JIT_CONTROL from the command line.
SetRegisters ==
  Starts("registers", "options") /\ context' = "set" /\ UNCHANGED <<housekeeper_enabled, ppc_start>>

\* CACR, slow memory, drives.
ReadOptions ==
  Starts("options", "keeper") /\ context' = "complete" /\ UNCHANGED <<housekeeper_enabled, ppc_start>>

EnableKeeper ==
  Starts("keeper", "ppc") /\ housekeeper_enabled' = TRUE /\ UNCHANGED <<context, ppc_start>>

StartPpc ==
  Starts("ppc", "emulate") /\ ppc_start' = TRUE /\ UNCHANGED <<context, housekeeper_enabled>>

M68K_StartEmu == NewContext \/ SetRegisters \/ ReadOptions \/ EnableKeeper \/ StartPpc

-----------------------------------------------------------------------------
(* The secondary cores. *)

Moves(c, from, to) ==
  /\ doing[c] = from /\ doing' = [doing EXCEPT ![c] = to]
  /\ UNCHANGED <<temp_stack, cpu0Vars, released, poc_start, saw>>

\* _secondary_start
Enter(c) ==
  /\ c \in released /\ Moves(c, "asleep", "entered")
  /\ sp_of' = [sp_of EXCEPT ![c] = temp_stack]
  /\ UNCHANGED <<boot_lock, ppcReady, enabled>>

\* Fault: InitPPC is not called.
IsInitNever(c) == FALSE
IsInit(c) == c = PpcCore /\ ppc_enable

\* secondary_boot up to the release of boot_lock.
Prepare(c) ==
  /\ Moves(c, "entered", "ready")
  /\ ppcReady' = (ppcReady \/ IsInit(c))
  /\ UNCHANGED <<boot_lock, sp_of, enabled>>

Clear(c) ==
  /\ Moves(c, "ready", IF c = 1 THEN "gate" ELSE "works")
  /\ boot_lock' = FALSE
  /\ UNCHANGED <<sp_of, ppcReady, enabled>>

\* Fault: CPU1 does not wait for poc_start.
GateAlways == TRUE
Gate == poc_start

\* hdmi_audio_poc_run: CPU1 waits, then enables the mirror.
PassGate ==
  /\ Gate /\ Moves(1, "gate", "arming")
  /\ UNCHANGED <<boot_lock, sp_of, ppcReady, enabled>>

Arm ==
  /\ Moves(1, "arming", "works") /\ enabled' = TRUE
  /\ UNCHANGED <<boot_lock, sp_of, ppcReady>>

WorksOn(c) ==
  /\ doing[c] = "works" /\ saw' = [saw EXCEPT ![c] = context]
  /\ UNCHANGED <<boot_lock, temp_stack, cpu0Vars, released, doing, sp_of, ppcReady, poc_start, enabled>>

\* Fault: the housekeeper polls from the start.
KeeperMayAlways == TRUE
KeeperMay == housekeeper_enabled

\* One turn of ps_housekeeper: it writes the line into the context.
Housekeep == KeeperMay /\ WorksOn(KeeperCore)

StartupPPC == ppc_enable /\ ppc_start /\ WorksOn(PpcCore)

CPU0 ==
  \/ TakeLock \/ SetStack \/ Wake \/ Unlock \/ Platform \/ OpenGate \/ ShowPanel \/ EndPanel
  \/ M68K_StartEmu

StartNext ==
  \/ CPU0
  \/ \E c \in Cores : Enter(c) \/ Prepare(c) \/ Clear(c)
  \/ PassGate \/ Arm \/ Housekeep \/ StartupPPC
  \/ boot = "emulate" /\ UNCHANGED startVars

StartSpec == StartInit /\ [][StartNext]_startVars

\* CPU0 goes on, and every core it wakes begins; CPU1 may stop at its gate.
StartFairSpec ==
  /\ StartSpec
  /\ WF_startVars(CPU0)
  /\ \A c \in Cores : WF_startVars(Enter(c) \/ Prepare(c) \/ Clear(c))

-----------------------------------------------------------------------------
StartTypeOK ==
  /\ boot_lock \in BOOLEAN /\ temp_stack \in 0 .. NCores
  /\ boot \in {"lock", "stack", "wake", "unlock", "platform", "test",
               "context", "registers", "options", "keeper", "ppc", "emulate"}
  /\ next \in 1 .. NCores + 1 /\ steps \in 0 .. Steps /\ elapsed \in 0 .. Seconds /\ released \subseteq Cores
  /\ doing \in [Cores -> {"asleep", "entered", "ready", "gate", "arming", "works"}]
  /\ sp_of \in [Cores -> 0 .. NCores]
  /\ ppc_enable \in BOOLEAN /\ ppcReady \in BOOLEAN /\ poc_start \in BOOLEAN /\ enabled \in BOOLEAN
  /\ context \in Contexts /\ housekeeper_enabled \in BOOLEAN /\ ppc_start \in BOOLEAN
  /\ saw \in [Cores -> Contexts \cup {"none"}]

(* No two cores run on one stack: temp_stack is not written while a core     *)
(* that was woken may still read it.                                         *)
StacksAreSeparate ==
  \A c \in Cores : doing[c] # "asleep" => sp_of[c] = c

(* The platform is initialised, and the 68k started, on a machine whose      *)
(* cores have all begun and whose PPC core is ready.                         *)
PlatformAfterCores ==
  boot \notin {"lock", "stack", "wake", "unlock"} =>
    /\ \A c \in Cores : doing[c] \notin {"asleep", "entered", "ready"}
    /\ ppc_enable => ppcReady

(* "wait for CPU0 to finish platform initialization": the mirror is not      *)
(* enabled before.                                                           *)
MirrorAfterPlatform == doing[1] \in {"arming", "works"} => steps = Steps /\ next = NCores + 1

(* The housekeeper and the PPC core touch the 68k's context only when it is   *)
(* complete: an interrupt level noted earlier would go to address 0, or be    *)
(* cleared with the rest.                                                     *)
ContextBeforeWork == \A c \in Cores : saw[c] \in {"none", "complete"}

(* The four together.                                                        *)
BootIsOrdered ==
  StacksAreSeparate /\ PlatformAfterCores /\ MirrorAfterPlatform /\ ContextBeforeWork

(* The 68k starts, even if CPU1 stops at its gate.                           *)
EmulationStarts == <>(boot = "emulate")

=============================================================================
