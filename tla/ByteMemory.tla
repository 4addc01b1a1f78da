----------------------------- MODULE ByteMemory -----------------------------
(***************************************************************************)
(* What an access of the 68k to the Amiga promises: Chip RAM is a memory   *)
(* of bytes, an access of any size and alignment stores or returns whole   *)
(* bytes in big-endian order, and only 24 bits of an address count.        *)
(***************************************************************************)
EXTENDS Naturals, Sequences

CONSTANTS
  Space,     \* the size of the address space: 2^24
  Ram,       \* the addresses of Chip RAM
  Sizes,     \* the sizes of an access, in bytes
  Addresses, \* the addresses accessed
  Values,    \* the sequences of bytes stored
  Other      \* a byte from elsewhere

VARIABLES
  ram,       \* a byte for every address of Ram
  result     \* what the last read returned; bytes outside Ram are Other

bytes == <<ram, result>>

Init == ram \in [Ram -> Nat] /\ result = <<>>

Address(a, i) == (a + i - 1) % Space

Store(a, v) ==
  /\ ram' = [c \in Ram |-> IF \E i \in DOMAIN v : Address(a, i) = c
                           THEN v[CHOOSE i \in DOMAIN v : Address(a, i) = c] ELSE ram[c]]
  /\ UNCHANGED result

Load(a, size) ==
  /\ result' = [i \in 1 .. size |-> IF Address(a, i) \in Ram THEN ram[Address(a, i)] ELSE Other]
  /\ UNCHANGED ram

\* An access that leaves everything as it was is a stuttering step.
Next ==
  /\ bytes' # bytes
  /\ \E a \in Addresses : (\E v \in Values : Store(a, v)) \/ (\E s \in Sizes : Load(a, s))

Spec == Init /\ [][Next]_bytes

=============================================================================
