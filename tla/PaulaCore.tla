------------------------------ MODULE PaulaCore ------------------------------
(***************************************************************************)
(* The sample DMA of the software Paula (paula.cpp): what its registers,   *)
(* and one source sample of a channel, do to the state of the core.        *)
(*                                                                         *)
(* Data: a byte of Chip RAM is its address plus one, so that 0, which a    *)
(* missed read returns, is no byte.  Left out: what does not steer the     *)
(* DMA, that is period and phase (how many source samples fall into a      *)
(* frame), volume and mute gains, and INTENA, INTREQ and ADKCON, which     *)
(* nothing in the core reads.                                              *)
(***************************************************************************)
EXTENDS Integers

CONSTANTS
  NumChans,  \* kPaulaChannels
  Limit,     \* bytes of Chip RAM: PAULA_MIRROR_CHIP_LIMIT
  Half,      \* addresses one AUDxLCL can tell apart: 65536
  FullLen    \* the words a length of 0 stands for: 65536

ASSUME CoreAssumption ==
  /\ NumChans \in Nat /\ Limit \in Nat
  /\ Half \in Nat \ {0} /\ FullLen \in Nat \ {0}

Chans == 0 .. NumChans - 1
Master == NumChans  \* the enable bit of all channels: bit 9 of DMACON
DmaBits == Chans \cup {Master}

ResetChannel ==
  [loc |-> 0, len |-> 0, ptr |-> 0, words |-> 0, boundary |-> TRUE,
   restart |-> TRUE, cur |-> 0, next |-> 0, held |-> 0]
ResetCore == [dma |-> {}, chan |-> [ch \in Chans |-> ResetChannel]]

On(core, ch) == {ch, Master} \subseteq core.dma

ByteAt(address) == IF address < Limit THEN address + 1 ELSE 0

-----------------------------------------------------------------------------
(* writeRegister16.                                                        *)

WriteHigh(core, ch, half) ==
  [core EXCEPT !.chan[ch].loc = half * Half + (@ % Half)]
WriteLow(core, ch, half) ==
  [core EXCEPT !.chan[ch].loc = (@ \div Half) * Half + half]
WriteLen(core, ch, value) ==
  [core EXCEPT !.chan[ch].len = IF value = 0 THEN FullLen ELSE value]

\* A channel that comes on starts at its registers.
Primed(c) ==
  [c EXCEPT !.ptr = c.loc, !.words = c.len, !.boundary = TRUE,
            !.cur = 0, !.next = 0, !.held = 0, !.restart = FALSE]

WriteDma(core, set, bits) ==
  LET new == [core EXCEPT !.dma = IF set THEN @ \cup bits ELSE @ \ bits] IN
  [new EXCEPT !.chan = [ch \in Chans |->
     LET c == core.chan[ch] IN
     IF ~On(new, ch) THEN [c EXCEPT !.restart = TRUE]
     ELSE IF c.restart THEN Primed(c) ELSE c]]

-----------------------------------------------------------------------------
(* advanceOneSourceSample_.                                                *)

Reloads(c) == c.boundary /\ c.words = 0

\* The block a channel is in at its next word.
Block(c) == IF Reloads(c) THEN [c EXCEPT !.ptr = c.loc, !.words = c.len] ELSE c

\* Fault: the word counter is not kept from going below zero.
OneLess(words) == words - 1
Counted(words) == IF words > 0 THEN words - 1 ELSE 0

\* One source sample of a channel that is on; the word at the pointer, when
\* one is fetched, holds the bytes low and high.
Advance(c, low, high) ==
  IF c.boundary
  THEN [Block(c) EXCEPT !.ptr = @ + 2, !.words = Counted(@),
                        !.cur = c.next, !.next = low, !.held = high,
                        !.boundary = FALSE]
  ELSE [c EXCEPT !.cur = c.next, !.next = c.held, !.boundary = TRUE]

\* A channel that is off is silent.
Silenced(c) == [c EXCEPT !.cur = 0, !.next = 0]
=============================================================================
