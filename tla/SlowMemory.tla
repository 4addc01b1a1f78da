----------------------------- MODULE SlowMemory -----------------------------
(***************************************************************************)
(* Where an access to the lower memory of the Amiga goes (vectors.c,       *)
(* SYSWriteValToAddr and SYSReadValFromAddr): to the ROM that lies over    *)
(* Chip RAM after a reset, to the trapdoor memory that move_slow_to_chip   *)
(* shows as the second half of Chip RAM, to the bus, or nowhere.  Which is *)
(* decided once, by the first address of the access, in another order for  *)
(* reads than for writes.  A load may leave a part of its result unset.    *)
(*                                                                         *)
(* An address stands for Size / Half of a memory of Size = 512 KB: Chip at *)
(* 000000, Moved at 080000, a gap, and Slow at C00000.  The bus moves the  *)
(* bytes of an access one by one to consecutive addresses, as BusAccess    *)
(* shows of it.                                                            *)
(***************************************************************************)
EXTENDS Integers, Sequences

CONSTANTS
  Half,      \* the addresses of 512 KB
  Sizes,     \* the sizes of accesses of 1 to 8 bytes
  Wide,      \* those of accesses of 16 bytes, which have two values
  Values,    \* what the program stores in a byte
  Crossing   \* accesses may begin in one half and end in the next

ASSUME SlowAssumption ==
  /\ Half \in Nat \ {0} /\ Sizes \subseteq 1 .. Half /\ Wide \subseteq 1 .. Half
  /\ Values \subseteq Nat \ {0} /\ Crossing \in BOOLEAN

VARIABLES
  machine,   \* the Amiga and the options for it
  overlay,   \* the ROM is seen over Chip RAM: overlay, with rom_mapped
  mem,       \* the memory on the bus, by bus address
  meant,     \* history: what the program stored last, by its own address
  got        \* the last load and nothing since: its address, bytes and width, or <<>>

slowVars == <<machine, overlay, mem, meant, got>>

Chip == 0 .. Half - 1
Moved == Half .. 2 * Half - 1
Gap == 2 * Half .. 3 * Half - 1
Slow == 3 * Half .. 4 * Half - 1
Window == 0 .. 4 * Half - 1
Offset == 2 * Half            \* B80000
Rom == -1                     \* a byte of the ROM

\* move_slow_to_chip is a boot argument and block_c0 says that the machine has
\* Gayle, so any of the two may be set on an Amiga with any memory; fill is what the
\* memory holds at power-on.
Machines ==
  [move : BOOLEAN, block : BOOLEAN, fill : Values,
   ram : {Chip \union r : r \in {{}, Moved, Slow, Moved \union Slow}}]

\* The cell that an address stands for.
Place(a) == IF machine.move /\ a \in Moved THEN a + Offset ELSE a

\* Where the program is to find no memory, and where it finds some.  With both
\* options set a store to the moved memory is lost, since it is redirected to
\* C00000 and blocked there, while a load is not blocked: what it finds there is
\* no memory to it.
Empty == IF machine.move \/ machine.block THEN Slow ELSE {}
Shown == {a \in Window : Place(a) \in machine.ram} \ Empty
Lost == IF machine.move /\ machine.block THEN Moved ELSE {}
Memory == Shown \ Lost

SlowInit ==
  /\ machine \in Machines /\ overlay = TRUE /\ got = <<>>
  /\ mem = [a \in machine.ram |-> machine.fill] /\ meant = [a \in Shown |-> machine.fill]

-----------------------------------------------------------------------------
Accesses(size) ==
  {a \in Window : IF Crossing THEN a + size - 1 \in Window
                     ELSE \E part \in {Chip, Moved, Gap, Slow} : a \in part /\ a + size - 1 \in part}

Hidden(a) == machine.move /\ a \in Slow

\* Fault: only reads are redirected.
WriteAddressKept(a) == a
WriteAddress(a) == IF machine.move /\ a \in Moved THEN a + Offset ELSE a

Blocked(a) == machine.block /\ a \in Slow

\* Redirected first, then tested for block_c0.
SYSWriteValToAddr(a, bytes) ==
  IF Hidden(a) \/ Blocked(WriteAddress(a)) THEN mem' = mem
  ELSE LET far == WriteAddress(a) IN
       mem' = [b \in DOMAIN mem |->
                 IF b \in far .. far + Len(bytes) - 1 THEN bytes[b - far + 1] ELSE mem[b]]

StoreAt(size, a, v, last) ==
  LET bytes == [k \in 1 .. size |-> IF k = size THEN last ELSE v] IN
  /\ SYSWriteValToAddr(a, bytes)
  /\ meant' = [b \in DOMAIN meant |-> IF b \in a .. a + size - 1 THEN bytes[b - a + 1] ELSE meant[b]]
  /\ got' = <<>> /\ machine' = machine /\ overlay' = overlay

Store == \E size \in Sizes \union Wide : \E a \in Accesses(size), v, last \in Values : StoreAt(size, a, v, last)

\* Fault: the ROM is seen at every address.
OverlaidAny(a) == overlay
Overlaid(a) == overlay /\ a \in Chip

\* A byte no memory answers for floats; it reads as 0 here.
OnBus(a) == IF a \in DOMAIN mem THEN mem[a] ELSE 0

\* Tested for block_c0 and the overlay first, redirected then.
Answer(a, size) ==
  LET far == IF machine.move /\ a \in Moved THEN a + Offset ELSE a IN
  IF Blocked(a) THEN [k \in 1 .. size |-> 0]
  ELSE IF Overlaid(a) THEN [k \in 1 .. size |-> Rom]
  ELSE IF Hidden(a) THEN [k \in 1 .. size |-> 0]
  ELSE [k \in 1 .. size |-> OnBus(far + k - 1)]

\* The bytes of a 16-byte load that nothing sets, and so are those of variables
\* without a value: both halves under the overlay, whose switch has no case for 16,
\* the second where the memory was moved away or blocked.
Unset(a, size, wide) ==
  IF ~wide THEN {}
  ELSE IF Blocked(a) THEN {k \in 1 .. size : 2 * k > size}
  ELSE IF Overlaid(a) THEN 1 .. size
  ELSE IF Hidden(a) THEN {k \in 1 .. size : 2 * k > size}
  ELSE {}

Garbage == Values \union {0, Rom}

\* All that a load may return.
SYSReadValFromAddr(a, size, wide) ==
  {[k \in 1 .. size |-> IF k \in Unset(a, size, wide) THEN rest[k] ELSE Answer(a, size)[k]] :
     rest \in [1 .. size -> Garbage]}

LoadAt(size, a, wide) ==
  /\ \E bytes \in SYSReadValFromAddr(a, size, wide) : got' = <<a, bytes, wide>>
  /\ UNCHANGED <<machine, overlay, mem, meant>>

Load ==
  \E wide \in BOOLEAN : \E size \in (IF wide THEN Wide ELSE Sizes) :
    \E a \in Accesses(size) : LoadAt(size, a, wide)

\* A write to CIA-A, port A.
WriteOverlay == overlay' = ~overlay /\ got' = <<>> /\ UNCHANGED <<machine, mem, meant>>

SlowNext == Store \/ Load \/ WriteOverlay

SlowSpec == SlowInit /\ [][SlowNext]_slowVars

-----------------------------------------------------------------------------
Seen(a) ==
  IF overlay /\ a \in Chip THEN Rom ELSE IF a \in Empty THEN 0 ELSE meant[a]

Fetched(k) == got[1] + k - 1
Undefined == Unset(got[1], Len(got[2]), got[3])

(* Every byte that the program loads is what it stored there last, or the    *)
(* ROM's while that lies over it, or nothing where the memory was moved away *)
(* or blocked: reads and writes agree on the place of each address.  Left    *)
(* out are the bytes of 16-byte loads that SYSReadValFromAddr never sets     *)
(* (Undefined), and the moved memory of a machine with Gayle (Lost).         *)
LoadsSeeStores ==
  got # <<>> =>
    \A k \in DOMAIN got[2] \ Undefined :
      Fetched(k) \in Memory \union Empty => got[2][k] = Seen(Fetched(k))

(* Every byte stored in memory is in the one cell of the bus that its        *)
(* address stands for, and no store reaches any other cell: the trapdoor     *)
(* memory is not found a second time at C00000, and what the options hide    *)
(* keeps what it held at power-on.                                           *)
StoresArrive ==
  /\ \A a \in Memory : mem[Place(a)] = meant[a]
  /\ \A c \in machine.ram \ {Place(a) : a \in Memory} : mem[c] = machine.fill

(* Wherever the memory is moved to, stored bytes arrive and are loaded again, *)
(* but for what LoadsSeeStores leaves out.                                   *)
MemoryIsWhole == StoresArrive /\ LoadsSeeStores

-----------------------------------------------------------------------------
(* Two statements that the code does not keep. *)

(* All that a load finds at an address is what was stored there: false where *)
(* move_slow_to_chip meets block_c0.                                         *)
ShownIsStored == \A a \in Shown : mem[Place(a)] = meant[a]

(* A load of 16 bytes returns what a shorter one does: false under the       *)
(* overlay and in moved or blocked memory.                                   *)
WideLoadsSeeStores ==
  got # <<>> =>
    \A k \in DOMAIN got[2] : Fetched(k) \in Memory \union Empty => got[2][k] = Seen(Fetched(k))

=============================================================================
