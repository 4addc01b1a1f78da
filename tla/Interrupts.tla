----------------------------- MODULE Interrupts -----------------------------
(***************************************************************************)
(* Interrupts for the emulated 68k.  An ARM device is shown to AmigaOS as  *)
(* EXTER, level 6: the IRQ vector of CPU0 notes it in INT_shadow and asks  *)
(* for it in INTF when the shadow of INTENA has INTEN and EXTER; the fault *)
(* handlers keep the shadow while the program accesses INTENA and INTREQ.  *)
(* The housekeeper on CPU2 copies the IPL pin into INTF, a PPC core may    *)
(* ask for level 2, a System Error for level 7.  The dispatcher looks at   *)
(* INTF between two translated units and enters the exception.             *)
(*                                                                         *)
(* INTENA is the set of its bits INTEN and EXTER.  Sync exceptions mask    *)
(* IRQ and SError, so a fault handler is one step to them; the dispatcher  *)
(* is not.  RTE, the driver of the ARM device and the PPC are external.    *)
(***************************************************************************)
EXTENDS Naturals, Sequences

CONSTANTS
  Widths,      \* the widths of accesses to INTENA and INTENAR
  Lines,       \* the levels the IPL lines may show; 0 is none
  MaxErrors,   \* bound: System Errors
  MaxWrites    \* bound: accesses to INTENA and INTREQ

InterruptsAssumption ==
  Widths \subseteq {1, 2, 4} /\ 0 \in Lines /\ Lines \subseteq 0 .. 6 /\ MaxErrors \in Nat /\ MaxWrites \in Nat

VARIABLES
  device, masked,   \* the ARM device asserts its line; SPSR masks IRQ
  intena,           \* INTENA in Paula
  shadow, pending,  \* INT_shadow.INTENA and .ARMPending
  arm, err, ppc,    \* INTF.ARM, .ARM_err and .PPC
  line, ipl,        \* the IPL lines; INTF.IPL
  pc, level,        \* the dispatcher; the level it has found
  sr,               \* S, M and the interrupt mask
  sp, usp, ssp,     \* A7, and USP, ISP / MSP as CTX holds them
  frames,           \* history: the exceptions in progress
  errors, writes    \* how many there have been

deviceVars == <<device, masked>>
shadowVars == <<intena, shadow, pending>>
flagVars == <<arm, err, ppc>>
lineVars == <<line, ipl>>
loopVars == <<pc, level, sr, sp, usp, ssp, frames>>
countVars == <<errors, writes>>
irqVars == <<deviceVars, shadowVars, flagVars, lineVars, loopVars, countVars>>

Bits == {"INTEN", "EXTER"}
Stacks == {"isp", "msp"}
SupervisorStack(m) == IF m THEN "msp" ELSE "isp"

IrqInit ==
  /\ device = FALSE /\ masked = FALSE
  /\ intena = {} /\ shadow = {} /\ pending = FALSE
  /\ arm = 0 /\ err = FALSE /\ ppc = FALSE /\ line = 0 /\ ipl = FALSE
  /\ pc = "top" /\ level = 0
  /\ sr \in [s : {FALSE}, m : BOOLEAN, mask : {0, 3}]
  /\ sp = [of |-> "usp", depth |-> 0] /\ usp = sp
  /\ ssp = [k \in Stacks |-> [of |-> k, depth |-> 0]]
  /\ frames = <<>> /\ errors = 0 /\ writes = 0

-----------------------------------------------------------------------------
(* The vectors. *)

Enabled(ena) == Bits \subseteq ena

Assert ==
  /\ ~device /\ device' = TRUE
  /\ UNCHANGED <<masked, shadowVars, flagVars, lineVars, loopVars, countVars>>

\* curr_el_spx_irq on CPU0; IRQ stays masked on return.
IrqVector ==
  /\ device /\ ~masked /\ masked' = TRUE
  /\ pending' = TRUE
  /\ arm' = IF Enabled(shadow) THEN 6 ELSE arm
  /\ UNCHANGED <<device, intena, shadow, err, ppc, lineVars, loopVars, countVars>>

\* curr_el_spx_serror: IRQ, too, stays masked on return.
SErrorVector ==
  /\ errors < MaxErrors /\ errors' = errors + 1 /\ err' = TRUE
  /\ masked' = TRUE
  /\ UNCHANGED <<device, shadowVars, arm, ppc, lineVars, loopVars, writes>>

PpcRequest ==
  /\ ppc' = ~ppc
  /\ UNCHANGED <<deviceVars, shadowVars, arm, err, lineVars, loopVars, countVars>>

-----------------------------------------------------------------------------
(* The IPL lines, and the housekeeper. *)

LineChanges ==
  /\ line' \in Lines
  /\ UNCHANGED <<deviceVars, shadowVars, flagVars, ipl, loopVars, countVars>>

ps_housekeeper ==
  /\ ipl' = (line # 0)
  /\ UNCHANGED <<deviceVars, shadowVars, flagVars, line, loopVars, countVars>>

-----------------------------------------------------------------------------
(* The program: accesses that fault, and what is external. *)

Running == pc = "run" /\ UNCHANGED <<lineVars, countVars, err, ppc>>
Accessing == pc = "run" /\ writes < MaxWrites /\ writes' = writes + 1
             /\ UNCHANGED <<deviceVars, lineVars, loopVars, errors, err, ppc>>

Words == [set : BOOLEAN, bits : SUBSET Bits]
After(ena, w) == IF w.set THEN ena \union w.bits ELSE ena \ w.bits

\* What SYSWriteValToAddr takes for the word: the low 16 bits of the value.  A
\* byte has none of the bits; a long has those of the word for INTREQ.
Seen(width, w, next) ==
  CASE width = 1 -> [set |-> FALSE, bits |-> {}] [] width = 2 -> w [] width = 4 -> next

\* Fault: INTF.ARM is left as it is when the shadow changes.
ArmLeft(ena) == arm
ArmAfter(ena) == IF pending THEN IF Enabled(ena) THEN 1 ELSE 0 ELSE arm

\* A byte is on both lanes, a long begins with the word for INTENA.
WriteINTENA ==
  /\ Accessing
  /\ \E width \in Widths, w, next \in Words :
       /\ width # 4 => next = w
       /\ intena' = After(intena, w)
       /\ shadow' = After(shadow, Seen(width, w, next))
       /\ arm' = ArmAfter(shadow')
  /\ UNCHANGED pending

ArmAcknowledged == 0

\* A word to INTREQ that clears EXTER; other words change nothing here.
WriteINTREQ ==
  /\ Accessing
  /\ pending' = FALSE /\ arm' = ArmAcknowledged
  /\ UNCHANGED <<intena, shadow>>

\* A read of INTENAR refreshes the shadow.  A long is taken for a byte: the
\* high byte becomes the low byte of INTREQR.
ReadINTENAR ==
  /\ Accessing
  /\ \E width \in Widths, low \in SUBSET Bits :
       /\ width # 4 => low = {}
       /\ shadow' = IF width = 4 THEN low ELSE intena
  /\ UNCHANGED <<intena, pending, arm>>

\* The driver serves its device and lets IRQs in again.
Serve ==
  /\ Running /\ device' = FALSE /\ masked' = FALSE
  /\ UNCHANGED <<shadowVars, arm, loopVars>>

RTE ==
  /\ Running /\ frames # <<>>
  /\ LET f == frames[Len(frames)]
         popped == [sp EXCEPT !.depth = @ - 1]
     IN  /\ sr' = f.sr
         /\ IF f.sr.s THEN sp' = popped /\ UNCHANGED ssp
            ELSE sp' = usp /\ ssp' = [ssp EXCEPT ![SupervisorStack(sr.m)] = popped]
  /\ frames' = SubSeq(frames, 1, Len(frames) - 1)
  /\ UNCHANGED <<deviceVars, shadowVars, arm, pc, level, usp>>

Return ==
  /\ Running /\ pc' = "top"
  /\ UNCHANGED <<deviceVars, shadowVars, arm, level, sr, sp, usp, ssp, frames>>

-----------------------------------------------------------------------------
(* MainLoop: the flags are read one after another. *)

Looping(from) ==
  pc = from /\ UNCHANGED <<deviceVars, shadowVars, arm, ppc, lineVars, countVars>>
StackVars == <<sr, sp, usp, ssp, frames>>

ReadINT64 ==
  /\ Looping("top")
  /\ pc' = IF arm # 0 \/ err \/ ppc \/ ipl THEN "err" ELSE "run"
  /\ level' = 0
  /\ UNCHANGED <<err, StackVars>>

ReadErr ==
  /\ Looping("err")
  /\ IF err THEN level' = 7 /\ pc' = "deliver" ELSE level' = level /\ pc' = "flags"
  /\ err' = FALSE
  /\ UNCHANGED StackVars

\* Fault: the PPC comes first.
FlagLevelPpc == IF ppc THEN 2 ELSE IF arm # 0 THEN 6 ELSE 0
FlagLevel == IF arm # 0 THEN 6 ELSE IF ppc THEN 2 ELSE 0

ReadFlags ==
  /\ Looping("flags")
  /\ level' = FlagLevel
  /\ pc' = "line"
  /\ UNCHANGED <<err, StackVars>>

\* Fault: the lines count only when no flag is set.
LineLevelElse == IF ipl /\ level = 0 THEN line ELSE level
LineLevel == IF ipl /\ line > level THEN line ELSE level

\* GetIPLLevel asks the PiStorm; the lines may have changed since.
ReadLine ==
  /\ Looping("line")
  /\ level' = LineLevel
  /\ pc' = "deliver"
  /\ UNCHANGED <<err, StackVars>>

\* Fault: the supervisor stack is loaded in supervisor mode as well.
EntryStackAlways == ssp[SupervisorStack(sr.m)]
EntryStack == IF sr.s THEN sp ELSE ssp[SupervisorStack(sr.m)]

UspSaved == IF sr.s THEN usp ELSE sp

Taken(l) == l = 7 \/ l > sr.mask

Deliver ==
  /\ Looping("deliver") /\ Taken(level)
  /\ usp' = UspSaved
  /\ sp' = [EntryStack EXCEPT !.depth = @ + 1]
  /\ frames' = Append(frames, [sr |-> sr, level |-> level])
  /\ sr' = [sr EXCEPT !.s = TRUE, !.mask = level]
  /\ pc' = "run" /\ UNCHANGED <<level, ssp, err>>

Masked ==
  /\ Looping("deliver") /\ ~Taken(level)
  /\ pc' = "run" /\ UNCHANGED <<level, err, StackVars>>

Dispatch == ReadINT64 \/ ReadErr \/ ReadFlags \/ ReadLine \/ Deliver \/ Masked

IrqNext ==
  \/ Assert \/ IrqVector \/ SErrorVector \/ PpcRequest \/ LineChanges \/ ps_housekeeper
  \/ WriteINTENA \/ WriteINTREQ \/ ReadINTENAR \/ Serve \/ RTE \/ Return
  \/ Dispatch

IrqSpec == IrqInit /\ [][IrqNext]_irqVars

\* Every core goes on, and a translated unit ends.
IrqFairSpec == IrqSpec /\ WF_irqVars(Dispatch) /\ WF_irqVars(Return) /\ WF_irqVars(IrqVector)
                 /\ WF_irqVars(ps_housekeeper)

-----------------------------------------------------------------------------
IrqTypeOK ==
  /\ device \in BOOLEAN /\ masked \in BOOLEAN /\ pending \in BOOLEAN
  /\ intena \subseteq Bits /\ shadow \subseteq Bits
  /\ arm \in {0, 1, 6} /\ err \in BOOLEAN /\ ppc \in BOOLEAN
  /\ line \in Lines /\ ipl \in BOOLEAN
  /\ pc \in {"top", "err", "flags", "line", "deliver", "run"} /\ level \in 0 .. 7
  /\ sr \in [s : BOOLEAN, m : BOOLEAN, mask : 0 .. 7]
  /\ usp = [of |-> "usp", depth |-> 0]
  /\ ssp \in [Stacks -> [of : Stacks, depth : Nat]]
  /\ sp \in [of : Stacks \union {"usp"}, depth : Nat]

(* INTF.ARM asks for level 6 exactly while an ARM interrupt is pending and   *)
(* Paula's INTENA has INTEN and EXTER: none is lost, whichever of the enable *)
(* and the interrupt came first, and none is raised that the program         *)
(* disabled.  For a program that accesses INTENA by words.                   *)
ArmFollowsEnable == (arm # 0) <=> (pending /\ Enabled(intena))

(* A level 6 of the ARM device is entered only while INTEN and EXTER are     *)
(* active, as the comment of the IRQ vector says.                            *)
ExterOnlyWhenActive ==
  [][pc = "deliver" /\ level = 6 /\ 6 \notin Lines /\ frames' # frames => Enabled(intena)]_irqVars

(* A7 is the stack of the mode, and on it lie the frames of the exceptions   *)
(* in progress; USP is untouched in supervisor mode.                         *)
StackFollowsMode ==
  /\ sp.of = IF sr.s THEN SupervisorStack(sr.m) ELSE "usp"
  /\ sp.depth = Len(frames)
  /\ ~sr.s => \A k \in Stacks : ssp[k].depth = 0

(* The two together.                                                         *)
InterruptsAreExact == ArmFollowsEnable /\ StackFollowsMode

(* A request of the ARM device above the mask does not stay: it is entered   *)
(* (which raises the mask), or the program acknowledges or masks it.         *)
Requested == arm # 0 /\ sr.mask < 6
ArmIsServed == Requested ~> ~Requested

(* A level that stays on the lines is entered, or the mask is at it.         *)
LineIsServed == \A l \in Lines \ {0} : (line = l /\ sr.mask < l) ~> (line # l \/ sr.mask >= l)

=============================================================================
