------------------------------ MODULE Opcodes -------------------------------
(***************************************************************************)
(* The instructions FaultHandlers is checked with: every addressing mode   *)
(* with every size and the registers it can name: 2 is the base, 3 the     *)
(* index, 31 the zero register.                                            *)
(***************************************************************************)
EXTENDS Integers

Op(kind, fp, form) ==
  [kind : {kind}, fp : {fp}, form : form, size : {4, 8}, sign : {0}, imm : {0}, option : {"lsl"},
   shift : {FALSE}, rt : {0, 1}, rt2 : {1}, rn : {2}, rm : {3}]

With(ops, sizes, imms) ==
  {[o EXCEPT !.size = s, !.imm = k] : o \in ops, s \in sizes, k \in imms}

ByImmediate(kind, fp, sizes) ==
  With(Op(kind, fp, {"imm9", "imm9post", "imm9pre"}), sizes, {-3, 2}) \cup With(Op(kind, fp, {"imm12"}), sizes, {0, 3})
ByRegister(kind, fp, sizes) ==
  {[o EXCEPT !.option = x, !.shift = s] : o \in With(Op(kind, fp, {"reg"}), sizes, {0}),
      x \in {"lsl", "uxtw", "sxtw"}, s \in BOOLEAN}
Pairs(kind, sizes) ==
  {[o EXCEPT !.rt2 = 1 - o.rt] : o \in With(Op(kind, FALSE, {"pair", "pairpost", "pairpre"}), sizes, {-1, 2})}

Zeroed(ops) == {[o EXCEPT !.rt = 31] : o \in ops} \cup {[o EXCEPT !.rt2 = 31] : o \in ops}
Extending(ops) ==
  {[o EXCEPT !.sign = s] : o \in {p \in ops : p.size < 4}, s \in {4, 8}}
    \cup {[o EXCEPT !.sign = 8] : o \in {p \in ops : p.size = 4}}
OntoBase(ops) == {[o EXCEPT !.rt = 2] : o \in {p \in ops : p.form \in {"imm9", "imm12", "reg", "pair"}}}

OperandSizes == {1, 2, 4, 8}
Exclusive(kind) == With(Op(kind, FALSE, {"exclusive"}), OperandSizes, {0})
Loads == ByImmediate("load", FALSE, OperandSizes) \cup ByRegister("load", FALSE, OperandSizes) \cup Pairs("load", {4, 8})
Stores == ByImmediate("store", FALSE, OperandSizes) \cup ByRegister("store", FALSE, OperandSizes)
            \cup Pairs("store", {4, 8}) \cup Exclusive("store")
FloatLoads == ByImmediate("load", TRUE, {4, 8}) \cup ByRegister("load", TRUE, {4, 8})
FloatStores == ByImmediate("store", TRUE, {2, 4, 8}) \cup ByRegister("store", TRUE, {4, 8})
Indexed(ops) == {o \in ops : o.form \in {"imm9post", "imm9pre"}}
Literals == {[o EXCEPT !.sign = 8] : o \in With(Op("load", FALSE, {"literal"}), {4}, {5, 9})}

\* All but the floating point loads with write-back.
Known ==
  Loads \cup Extending(Loads) \cup OntoBase(Loads) \cup Exclusive("load") \cup Literals
    \cup Stores \cup Zeroed(Stores) \cup OntoBase(Stores)
    \cup (FloatLoads \ Indexed(FloatLoads)) \cup FloatStores
    \cup Op("flush", FALSE, {"imm9"})
WriteBackLoads == Indexed(FloatLoads)

=============================================================================
