--------------------------- MODULE FaultHandlers ----------------------------
(***************************************************************************)
(* The page fault handlers of vectors.c: an AArch64 load or store of the   *)
(* translated code that touches an address without RAM is decoded and      *)
(* emulated with accesses to the Amiga bus, then skipped.                  *)
(*                                                                         *)
(* An opcode is a record of its fields; "form" is the addressing mode as   *)
(* its bits say it (bits 11 and 10, or 24 and 23 for pairs): "imm9post"    *)
(* has 01 there and "imm9pre" 11.  Values and addresses are scaled as in   *)
(* LoadStore.  The bus below SYSWriteValToAddr is BusAccess's.             *)
(***************************************************************************)
EXTENDS Integers, Sequences

CONSTANTS
  Instructions,   \* the instructions of the translated code
  Content,        \* the byte that the bus gives at each address
  RegisterFiles,  \* contents of the X registers before the instruction
  FloatFiles      \* and of the V registers

VARIABLES regs, fregs, bus, done

handlerVars == <<regs, fregs, bus, done>>

Zero == 31
Base == 2
Index == 3
Registers == {0, 1, Base, Index}

Pair == {"pair", "pairpost", "pairpre"}
WriteBack == {"imm9post", "imm9pre", "pairpost", "pairpre"}

Operands(i) == IF i.form \in Pair THEN {i.rt, i.rt2} ELSE {i.rt}

\* What the opcodes of the translated code have in their fields.
WellFormed(i) ==
  /\ i.kind \in {"load", "store", "flush"} /\ i.fp \in BOOLEAN
  /\ i.size \in (IF i.form \in Pair THEN {4, 8} ELSE {1, 2, 4, 8})
  /\ i.sign = 0 \/ (i.sign \in {4, 8} /\ i.size < i.sign /\ ~i.fp)
  /\ i.imm \in Int /\ i.rn \in Registers /\ i.rm \in Registers
  /\ i.fp => i.rt \in {0, 1}
  /\ ~i.fp => Operands(i) \subseteq Registers \cup {Zero}
  /\ ~i.fp /\ i.kind = "load" => Zero \notin Operands(i)          \* REGMAP has no slot for it
  /\ ~i.fp /\ i.form \in WriteBack => i.rn \notin Operands(i)     \* unpredictable on the CPU

ASSUME HandlerAssumption ==
  /\ RegisterFiles \subseteq [Registers -> 0 .. 255]
  /\ FloatFiles \subseteq [{0, 1} -> 0 .. 255]
  /\ Content \in [0 .. 15 -> {0, 1}]
  /\ \A i \in Instructions : WellFormed(i)

\* Loads that do not get the right value: floating point with write-back, where the
\* two modes are exchanged, and literals without sign, which write no register.
Mishandled(i) ==
  /\ i.kind = "load"
  /\ \/ i.fp /\ i.form \in {"imm9post", "imm9pre"}
     \/ i.form = "literal" /\ i.sign = 0

NothingMishandled == \A i \in Instructions : ~Mishandled(i)

\* The masks that test for floating point loads.
FloatLoadForms(size) ==
  IF size = 4 THEN {"imm9", "imm12", "imm9post", "imm9pre"}
  ELSE {"imm9", "imm12", "imm9post", "reg"}

Emulated ==
  {i \in Instructions :
     \/ ~i.fp
     \/ i.kind = "load" /\ i.size \in {4, 8} /\ i.form \in FloatLoadForms(i.size)
     \/ i.kind = "store" /\ i.size \in {4, 8} /\ i.form \in {"imm9", "imm12", "imm9post", "imm9pre", "reg"}}

Cpu == INSTANCE LoadStore
FAR(i) == Cpu!Address(i)

HandlerInit ==
  /\ regs \in RegisterFiles /\ fregs \in FloatFiles
  /\ bus = <<>> /\ done = <<>>

-----------------------------------------------------------------------------
(* The context and the bus. *)

SYSGetValueFromReg(n) == regs[n]
SYSPutValueToReg(r, n, value) == [r EXCEPT ![n] = value]

\* uint64_t, and the low half of one.
U64(v) == v % 256
U32(v) == v % 16

\* Addresses are those of a 32-bit bus, with a mirror above and below.
Wrapped(far) == U32(far)
Reached(far) == far \div 16 \in {0, 1, 15}

Ended(i) == done' = <<i, "ended">>
Hangs(i, r) == done' = <<i, "stopped">> /\ bus' = bus /\ regs' = r /\ fregs' = fregs

\* SYSWriteValToAddr; r: the registers after.
WriteVal(i, bytes, far, r) ==
  IF Reached(far)
  THEN Ended(i) /\ bus' = [at |-> Wrapped(far), bytes |-> bytes] /\ regs' = r /\ fregs' = fregs
  ELSE Hangs(i, r)

BytesOf(value, size) == Cpu!Split(value, size)
ValueAt(far, size) == Cpu!Joined(far, size)

-----------------------------------------------------------------------------
(* Pointers. *)

\* Fault: the index is taken as unsigned.
ExtendedZero(i, rm) == IF i.option \in {"uxtw", "sxtw"} THEN U32(rm) ELSE rm
Extended(i, rm) ==
  CASE i.option = "uxtw" -> U32(rm)
    [] i.option = "sxtw" -> IF U32(rm) >= 8 THEN U32(rm) + 240 ELSE U32(rm)
    [] OTHER -> rm

Shifted(i, rm) == IF i.shift THEN U64(rm * i.size) ELSE rm

OffsetOf(i) == IF i.form \in {"imm9", "imm9post", "imm9pre"} THEN i.imm ELSE i.imm * i.size

\* The pointer before the access, and the one written back.
Before(i) ==
  LET ptr == SYSGetValueFromReg(i.rn) IN
  CASE i.form \in {"imm9post", "pairpost", "exclusive"} -> ptr
    [] i.form = "reg" -> U64(ptr + Shifted(i, Extended(i, SYSGetValueFromReg(i.rm))))
    [] OTHER -> U64(ptr + OffsetOf(i))

Updated(i, r) ==
  IF i.form \in WriteBack
  THEN SYSPutValueToReg(r, i.rn, U64(SYSGetValueFromReg(i.rn) + OffsetOf(i)))
  ELSE r

-----------------------------------------------------------------------------
(* SYSPageFaultWriteHandler. *)

\* Cache flushes on the bus region are ignored.
CacheFlush(i) == i.kind = "flush" /\ Ended(i) /\ UNCHANGED <<regs, fregs, bus>>

get_fpn(i) == IF i.size = 8 THEN fregs[i.rt] ELSE U32(fregs[i.rt])

StoreFloat(i) ==
  /\ i.kind = "store" /\ i.fp /\ i.size \in {4, 8} /\ i.form \in {"imm9", "imm9post", "imm9pre", "imm12", "reg"}
  /\ WriteVal(i, BytesOf(get_fpn(i), i.size), Before(i), Updated(i, regs))

RtValue(n) == IF n = Zero THEN 0 ELSE SYSGetValueFromReg(n)

StoreInteger(i) ==
  /\ i.kind = "store" /\ ~i.fp /\ i.form \in {"imm9", "imm9post", "imm9pre", "imm12", "reg"}
  /\ WriteVal(i, BytesOf(RtValue(i.rt), i.size), Before(i), Updated(i, regs))

\* The store always succeeds.
StoreExclusive(i) ==
  /\ i.kind = "store" /\ ~i.fp /\ i.form = "exclusive"
  /\ WriteVal(i, BytesOf(RtValue(i.rt), i.size), Before(i), SYSPutValueToReg(regs, i.rm, 0))

\* Two words make one access of 8 bytes, two of 8 bytes one of 16.
StorePair(i) ==
  /\ i.kind = "store" /\ ~i.fp /\ i.form \in Pair
  /\ LET bytes == IF i.size = 4
                  THEN BytesOf(U64(16 * RtValue(i.rt)) + U32(RtValue(i.rt2)), 8)
                  ELSE BytesOf(RtValue(i.rt), 8) \o BytesOf(RtValue(i.rt2), 8) IN
     WriteVal(i, bytes, Before(i), Updated(i, regs))

-----------------------------------------------------------------------------
(* SYSPageFaultReadHandler. *)

set_fpn(i, value) ==
  [fregs EXCEPT ![i.rt] = IF i.size = 8 THEN value ELSE @ - U32(@) + value]

\* Bits 01 are taken for pre-indexed and 11 for post-indexed.
FloatPtr(i) ==
  LET ptr == SYSGetValueFromReg(i.rn) IN
  CASE i.form \in {"imm9", "reg"} -> FAR(i)
    [] i.form = "imm9post" -> U64(ptr + i.imm)
    [] i.form = "imm9pre" -> ptr
    [] OTHER -> U64(ptr + OffsetOf(i))

LoadFloat(i) ==
  /\ i.kind = "load" /\ i.fp /\ i.size \in {4, 8} /\ i.form \in FloatLoadForms(i.size)
  /\ IF Reached(FloatPtr(i))
     THEN /\ Ended(i) /\ bus' = bus
          /\ fregs' = set_fpn(i, ValueAt(FloatPtr(i), i.size))
          /\ regs' = Updated(i, regs)
     ELSE Hangs(i, regs)

Sext(i, v) == IF i.sign # 0 /\ v >= 2^(i.size - 1) THEN v + 2^i.sign - 2^i.size ELSE v

\* The pointer is computed for some forms, FAR for others.
LoadPtr(i) == IF i.form = "exclusive" THEN FAR(i) ELSE Before(i)

LoadInteger(i) ==
  /\ i.kind = "load" /\ ~i.fp /\ i.form \in {"imm9", "imm9post", "imm9pre", "imm12", "reg", "exclusive"}
  /\ IF Reached(LoadPtr(i))
     THEN /\ Ended(i) /\ UNCHANGED <<bus, fregs>>
          /\ regs' = Updated(i, SYSPutValueToReg(regs, i.rt, Sext(i, ValueAt(LoadPtr(i), i.size))))
     ELSE Hangs(i, regs)

\* One access of twice the size; LDPSW is a pair of words with sign.
LoadPair(i) ==
  /\ i.kind = "load" /\ ~i.fp /\ i.form \in Pair
  /\ IF Reached(Before(i))
     THEN LET high == ValueAt(Before(i), i.size)
              low == ValueAt(Before(i) + i.size, i.size)
              loaded == SYSPutValueToReg(SYSPutValueToReg(regs, i.rt, Sext(i, high)), i.rt2, Sext(i, low)) IN
          Ended(i) /\ UNCHANGED <<bus, fregs>> /\ regs' = Updated(i, loaded)
     ELSE Hangs(i, Updated(i, regs))

\* The register is written only for LDRSW.
LoadLiteral(i) ==
  /\ i.kind = "load" /\ ~i.fp /\ i.form = "literal"
  /\ IF Reached(FAR(i))
     THEN /\ Ended(i) /\ UNCHANGED <<bus, fregs>>
          /\ regs' = IF i.sign # 0 THEN SYSPutValueToReg(regs, i.rt, Sext(i, ValueAt(FAR(i), i.size))) ELSE regs
     ELSE Hangs(i, regs)

\* No branch for the opcode.
Unhandled(i) ==
  /\ i.fp
  /\ \/ i.kind = "store" /\ (i.size \notin {4, 8} \/ i.form \notin {"imm9", "imm9post", "imm9pre", "imm12", "reg"})
     \/ i.kind = "load" /\ (i.size \notin {4, 8} \/ i.form \notin FloatLoadForms(i.size))
  /\ Hangs(i, regs)

Handle(i) ==
  \/ CacheFlush(i) \/ StoreFloat(i) \/ StoreInteger(i) \/ StoreExclusive(i) \/ StorePair(i)
  \/ LoadFloat(i) \/ LoadInteger(i) \/ LoadPair(i) \/ LoadLiteral(i)
  \/ Unhandled(i)

\* bound: one instruction.  The handlers keep nothing from one to the next.
HandlerNext == done = <<>> /\ \E i \in Instructions : Handle(i)

HandlerSpec == HandlerInit /\ [][HandlerNext]_handlerVars

-----------------------------------------------------------------------------

\* Registers hold 64 bits, and an access reaches the bus inside its 32-bit
\* address space (SYSWriteValToAddr takes the upper half off a wrapped pointer).
HandlerTypeOK ==
  /\ DOMAIN regs = Registers /\ \A n \in DOMAIN regs : regs[n] \in 0 .. 255
  /\ DOMAIN fregs = {0, 1} /\ \A n \in DOMAIN fregs : fregs[n] \in 0 .. 255
  /\ bus # <<>> => bus.at \in 0 .. 15 /\ Len(bus.bytes) \in {1, 2, 4, 8, 16}

\* An access to the bus does what the CPU would have done with memory there: the
\* same bytes at the same address, the same registers written with the same
\* extension, the same write-back, and only what no handler knows stops the machine.
ActsLikeTheCpu == Cpu!Spec

\* A floating point load with post-index reads at the base register, as the store
\* does that tells the two modes by the same bit (pre_index = opcode & 0x800).
FloatLoadsIndexLikeStores ==
  [][\A i \in Instructions :
       /\ done' = <<i, "ended">>
       /\ i.kind = "load" /\ i.fp /\ i.form = "imm9post"
       => fregs'[i.rt] % (2^i.size) = ValueAt(regs[i.rn], i.size)]_handlerVars

=============================================================================
