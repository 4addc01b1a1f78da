----------------------------- MODULE LoadStore ------------------------------
(***************************************************************************)
(* What AArch64 loads and stores do to the registers and to the memory     *)
(* they address.  Sizes are in bytes, and a byte is scaled to one bit: a   *)
(* register has eight, the 32 bits of an address space are four.           *)
(***************************************************************************)
EXTENDS Integers, Sequences

CONSTANTS
  Instructions,   \* records [kind, form, fp, size, sign, imm, option, shift, rt, rt2, rn, rm]
  Content,        \* the byte at each address
  Emulated        \* those that must not stop the machine

VARIABLES
  regs, fregs,    \* X and V registers
  bus,            \* the bytes written by the last store: [at, bytes]
  done            \* the last instruction, and whether it ended or stopped the machine

vars == <<regs, fregs, bus, done>>

Zero == 31

Reg(n) == IF n = Zero THEN 0 ELSE regs[n]
Put(r, n, v) == IF n = Zero THEN r ELSE [r EXCEPT ![n] = v]
Signed(v, bits) == IF v >= 2^(bits - 1) THEN v - 2^bits ELSE v

\* The bytes of a value, the most significant first, and back.
Split(v, size) == [k \in 1 .. size |-> (v \div 2^(size - k)) % 2]
Two(a) == 2 * Content[a % 16] + Content[(a + 1) % 16]
Four(a) == 4 * Two(a) + Two(a + 2)
Joined(a, size) ==
  CASE size = 1 -> Content[a % 16] [] size = 2 -> Two(a) [] size = 4 -> Four(a)
    [] OTHER -> 16 * Four(a) + Four(a + 4)

-----------------------------------------------------------------------------
(* Addresses. *)

IsPair(i) == i.form \in {"pair", "pairpost", "pairpre"}
WritesBack(i) == i.form \in {"imm9post", "imm9pre", "pairpost", "pairpre"}

Index(i) ==
  CASE i.option = "uxtw" -> Reg(i.rm) % 16
    [] i.option = "sxtw" -> Signed(Reg(i.rm) % 16, 4)
    [] OTHER -> Reg(i.rm)

\* The offset of a register counts elements if it is shifted.
Offset(i) ==
  CASE i.form \in {"imm9", "imm9post", "imm9pre"} -> i.imm
    [] i.form = "reg" -> IF i.shift THEN Index(i) * i.size ELSE Index(i)
    [] OTHER -> i.imm * i.size

Moved(i) == (Reg(i.rn) + Offset(i)) % 256

Address(i) ==
  CASE i.form = "literal" -> i.imm
    [] i.form \in {"imm9post", "pairpost", "exclusive"} -> Reg(i.rn)
    [] OTHER -> Moved(i)

\* An address one round above or below the 32-bit space is in it.
Reaches(a) == a \div 16 \in {0, 1, 15}

Based(r, i) == IF WritesBack(i) THEN Put(r, i.rn, Moved(i)) ELSE r

-----------------------------------------------------------------------------
(* Instructions. *)

Loaded(i, a) ==
  LET v == Joined(a, i.size) IN
  IF i.sign = 0 THEN v ELSE Signed(v, i.size) % (2^i.sign)

Data(i, n) == Split(IF i.fp THEN fregs[n] ELSE Reg(n), i.size)

Store(i) ==
  /\ i.kind = "store"
  /\ bus' = [at |-> Address(i) % 16,
             bytes |-> Data(i, i.rt) \o (IF IsPair(i) THEN Data(i, i.rt2) ELSE <<>>)]
  /\ regs' = Based(IF i.form = "exclusive" THEN Put(regs, i.rm, 0) ELSE regs, i)
  /\ fregs' = fregs

\* The upper half of a V register above a single is left free: nothing reads it.
LoadFloat(i) ==
  /\ i.kind = "load" /\ i.fp
  /\ bus' = bus /\ regs' = Based(regs, i)
  /\ \E v \in 0 .. 255 :
       /\ fregs' = [fregs EXCEPT ![i.rt] = v]
       /\ v % (2^i.size) = Loaded(i, Address(i))

LoadInteger(i) ==
  LET first == Put(Based(regs, i), i.rt, Loaded(i, Address(i))) IN
  /\ i.kind = "load" /\ ~i.fp
  /\ bus' = bus /\ fregs' = fregs
  /\ regs' = IF IsPair(i) THEN Put(first, i.rt2, Loaded(i, Address(i) + i.size)) ELSE first

\* A cache flush changes nothing where nothing is cached.
Flush(i) == i.kind = "flush" /\ UNCHANGED <<regs, fregs, bus>>

Execute(i) ==
  /\ i.kind = "flush" \/ Reaches(Address(i))
  /\ done' = <<i, "ended">>
  /\ Store(i) \/ LoadFloat(i) \/ LoadInteger(i) \/ Flush(i)

Stop(i) ==
  /\ i \notin Emulated \/ (i.kind # "flush" /\ ~Reaches(Address(i)))
  /\ done' = <<i, "stopped">>

Init == bus = <<>> /\ done = <<>>

\* A step ends or stops one instruction, the one that done then names.
Next ==
  /\ done' # done
  /\ LET i == done'[1] IN i \in Instructions /\ (Execute(i) \/ Stop(i))

Spec == Init /\ [][Next]_vars

=============================================================================
