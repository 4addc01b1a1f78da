------------------------------ MODULE RomImage ------------------------------
(***************************************************************************)
(* How the boot core installs Kickstart: from the bus (rom_copy) or from a *)
(* file, with the repair of byte-swapped files and of the checksum         *)
(* (start.c), and what the 68k then reads in its windows and, while the    *)
(* overlay is on, at 0, where its first SP and PC are (SYSReadValFromAddr).*)
(*                                                                         *)
(* A window of 512K is scaled to eight bytes of Radix values, a long of    *)
(* the checksum to two.  Bytes 2 and 3 hold the marker of the swap test,   *)
(* 4EF9 upright and F94E swapped; the checksum is the long at ChkOff.      *)
(***************************************************************************)
EXTENDS Integers, Sequences

CONSTANTS
  Radix,   \* values of a byte
  Free     \* the values of the bytes that vary between ROMs

RomAssumption == Radix \in Nat /\ Radix > 3 /\ Free \subseteq 0 .. Radix - 1

Windows == {"a8", "b0", "e0", "f0", "f8"}
RomSizes == {"256K", "512K", "1M", "2M"}
Bytes == 1 .. 8
ChkOff == 5                          \* the first byte of the checksum
Jump == <<1, 2>>                     \* 4E, F9
Top == 3       \* the parts of 512K are numbered by their place in the largest ROM
Nothing == 4
Blank == [k \in Bytes |-> 0]

VARIABLES
  stage,        \* "install", "test", "sum" or "run"
  kick,      \* Kickstart, upright: the contents of the last 512K
  size, swapped, fromBus,   \* the file, rom_copy # 0
  recalc, fastZero,         \* recalc_checksum, fast-page-zero
  phys,      \* what the RAM of a window holds
  maps,      \* what the 68k reads in a window: "bus" or the RAM of a window
  rom_mapped

inputs == <<kick, size, swapped, fromBus, recalc, fastZero>>
installVars == <<stage, inputs, phys, maps, rom_mapped>>

-----------------------------------------------------------------------------
(* The file. *)

SwapPairs(b) == [k \in Bytes |-> IF k % 2 = 1 THEN b[k + 1] ELSE b[k - 1]]

\* The parts of 512K of an upright ROM; only the last one begins with a jump.
Part(p) == IF p = Top THEN kick ELSE [kick EXCEPT ![3] = 0, ![8] = p]
\* A ROM of 256K is half a window, seen twice.
Twice(b) == [k \in Bytes |-> b[((k - 1) % 4) + 1]]

Upright(p) == IF size = "256K" THEN Twice(Part(p)) ELSE Part(p)
File(p) == IF swapped THEN SwapPairs(Upright(p)) ELSE Upright(p)

\* The part of the ROM that belongs into a window.
Belongs(w) ==
  CASE size \in {"256K", "512K"} /\ w \in {"f8", "e0"} -> Top
    [] size = "1M" /\ w \in {"e0", "f0"} -> 0
    [] size = "1M" /\ w = "f8" -> Top
    [] size = "2M" /\ w = "e0" -> 0
    [] size = "2M" /\ w = "a8" -> 1
    [] size = "2M" /\ w = "b0" -> 2
    [] size = "2M" /\ w = "f8" -> Top
    [] OTHER -> Nothing

InstallInit ==
  /\ stage = "install"
  /\ \E a, b, c, d \in Free : kick = <<a, b, Jump[1], Jump[2], c, d, 0, 3>>
  /\ size \in RomSizes /\ fromBus \in BOOLEAN
  /\ swapped \in (IF fromBus THEN {FALSE} ELSE BOOLEAN)
  /\ recalc \in BOOLEAN /\ fastZero \in BOOLEAN
  /\ phys = [w \in Windows |-> Blank] /\ maps = [w \in Windows |-> "bus"]
  /\ rom_mapped = FALSE

-----------------------------------------------------------------------------
(* rom_copy: the windows of the size are read from the bus; a ROM of up to   *)
(* 512K is mapped a second time.                                             *)
CopyFromBus ==
  /\ stage = "install" /\ fromBus
  /\ LET mapped == CASE size = "1M" -> {"f8", "e0"}
                     [] size = "2M" -> {"f8", "e0", "a8", "b0"}
                     [] OTHER -> {"f8"} IN
     /\ phys' = [w \in Windows |-> IF w \in mapped THEN Upright(Belongs(w)) ELSE phys[w]]
     /\ maps' = [w \in Windows |->
          IF w \in mapped THEN w
          ELSE IF w = "e0" /\ size \in {"256K", "512K"} THEN "f8" ELSE maps[w]]
  /\ stage' = "sum"
  /\ UNCHANGED <<inputs, rom_mapped>>

\* The file is copied into a window of its own for every place it appears.
LoadFile ==
  /\ stage = "install" /\ ~fromBus
  /\ LET mapped == {w \in Windows : Belongs(w) # Nothing} IN
     /\ phys' = [w \in Windows |-> IF w \in mapped THEN File(Belongs(w)) ELSE phys[w]]
     /\ maps' = [w \in Windows |-> IF w \in mapped THEN w ELSE maps[w]]
  /\ stage' = "test"
  /\ UNCHANGED <<inputs, rom_mapped>>

\* The windows the loop over a swapped ROM goes through.
\* Fault: the second megabyte is not repaired.
RepairedTwo == IF size \in {"1M", "2M"} THEN {"f8", "e0"} ELSE {"f8"}
Repaired ==
  CASE size = "2M" -> {"f8", "e0", "a8", "b0"}
    [] size = "1M" -> {"f8", "e0"}
    [] OTHER -> {"f8"}

\* Fault: the loop ends before the last two bytes.
SwapLoopShort(b) == [k \in Bytes |-> IF k > 6 THEN b[k] ELSE SwapPairs(b)[k]]
SwapLoop(b) == SwapPairs(b)

TestSwap ==
  /\ stage = "test"
  /\ phys' = IF phys["f8"][3] = Jump[2] /\ phys["f8"][4] = Jump[1]
             THEN [w \in Windows |-> IF w \in Repaired THEN SwapLoop(phys[w]) ELSE phys[w]]
             ELSE phys
  /\ rom_mapped' = TRUE /\ stage' = "sum"
  /\ UNCHANGED <<inputs, maps>>

-----------------------------------------------------------------------------
(* amiga_checksum: the longs are added with the carry brought round.         *)

LongMod == Radix * Radix
Value(b, k) == b[k] * Radix + b[k + 1]

\* Fault: the carry is lost.
CarryLost(sum, val) == (sum + val) % LongMod
AddCarry(sum, val) ==
  LET cksum == (sum + val) % LongMod IN IF cksum < sum THEN cksum + 1 ELSE cksum

Term(b, k) == IF k = ChkOff THEN 0 ELSE Value(b, k)
Sum(b) == AddCarry(AddCarry(AddCarry(AddCarry(0, Term(b, 1)), Term(b, 3)), Term(b, 5)), Term(b, 7))

Summed(b) == LongMod - 1 - Sum(b)

amiga_checksum(b) ==
  LET cksum == Summed(b) IN
  IF cksum = Value(b, ChkOff) THEN b
  ELSE [b EXCEPT ![ChkOff] = cksum \div Radix, ![ChkOff + 1] = cksum % Radix]

Checksum ==
  /\ stage = "sum" /\ stage' = "run"
  /\ phys' = IF recalc THEN [phys EXCEPT !["f8"] = amiga_checksum(@)] ELSE phys
  /\ UNCHANGED <<inputs, maps, rom_mapped>>

\* The emulation runs: the ROM is not changed any more.
Run == stage = "run" /\ UNCHANGED installVars

InstallNext == CopyFromBus \/ LoadFile \/ TestSwap \/ Checksum \/ Run

InstallSpec == InstallInit /\ [][InstallNext]_installVars

-----------------------------------------------------------------------------
(* What the 68k reads. *)

\* With the overlay the RAM of E00000 appears at 0, when a file is installed, and
\* else the machine's own ROM.
Overlay == IF rom_mapped THEN phys["e0"] ELSE <<"bus", "0">>

\* fast-page-zero maps the RAM of F80000 there instead.
AtZero == IF fastZero THEN phys["f8"] ELSE Overlay

RomTypeOK ==
  /\ stage \in {"install", "test", "sum", "run"}
  /\ phys \in [Windows -> [Bytes -> 0 .. Radix - 1]]
  /\ maps \in [Windows -> Windows \cup {"bus"}] /\ rom_mapped \in BOOLEAN

\* The windows that get a part of the ROM from the boot core: rom_copy leaves
\* F00000 to the bus.
Supplied(w) == Belongs(w) # Nothing /\ (fromBus => w # "f0")

\* The 68k finds the part of the ROM that belongs there, in its right byte order, but
\* for the checksum when it is recalculated.
WindowIsUpright(w) ==
  /\ maps[w] # "bus"
  /\ \A k \in Bytes : phys[maps[w]][k] = Upright(Belongs(w))[k]
                    \/ (recalc /\ maps[w] = "f8" /\ k \in {ChkOff, ChkOff + 1})

\* The window that the repair of a swapped file passes over: the second one of a
\* small ROM, and of 1M the copy of its lower half.
PassedOver ==
  CASE size \in {"256K", "512K"} -> {"e0"}
    [] size = "1M" -> {"f0"}
    [] OTHER -> {}

(* Whatever the size and the source of the ROM, the 68k finds each part of   *)
(* it upright in its window, but for the windows PassedOver of swapped files. *)
WindowsAreUpright ==
  stage = "run" =>
    \A w \in Windows : Supplied(w) /\ ~(swapped /\ w \in PassedOver) => WindowIsUpright(w)

(* The 68k takes its first SP and PC from 0.  There it finds the upright     *)
(* beginning of Kickstart with fast-page-zero, and of the ROM that belongs   *)
(* to E00000 without; but not that of a small swapped file.                  *)
Vector == 1 .. 4
VectorIsUpright ==
  \A k \in Vector : AtZero[k] = Upright(IF fastZero THEN Top ELSE Belongs("e0"))[k]

ResetVectorIsUpright ==
  stage = "run" /\ (fastZero \/ (rom_mapped /\ ~(swapped /\ "e0" \in PassedOver))) => VectorIsUpright

(* After recalc_checksum, Kickstart's own test of the ROM succeeds: in the    *)
(* arithmetic of ones' complement, where the sum is a remainder modulo       *)
(* LongMod - 1, the longs and the checksum add up to all ones.               *)
Total(b) == Value(b, 1) + Value(b, 3) + Value(b, 5) + Value(b, 7)
ChecksumIsRight ==
  stage = "run" /\ recalc => Total(phys["f8"]) > 0 /\ Total(phys["f8"]) % (LongMod - 1) = 0

(* The ROM that is installed is the one the file or the bus has, upright in  *)
(* all windows that the repair reaches, with a checksum that is right.       *)
RomIsInstalled == WindowsAreUpright /\ ResetVectorIsUpright /\ ChecksumIsRight

-----------------------------------------------------------------------------
(* Two statements that the code does not keep, for swapped files. *)

(* Every window is upright: false in E00000 up to 512K, which should be "a   *)
(* shadow of 0xf80000", and in F00000 of 1M.                                 *)
EveryWindowIsUpright == stage = "run" => \A w \in Windows : Supplied(w) => WindowIsUpright(w)

(* The 68k always starts from an upright vector: false up to 512K without    *)
(* fast-page-zero.                                                           *)
EveryVectorIsUpright == stage = "run" /\ (fastZero \/ rom_mapped) => VectorIsUpright

=============================================================================
