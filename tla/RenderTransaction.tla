-------------------------- MODULE RenderTransaction --------------------------
(***************************************************************************)
(* The live renderer (paula_live.cpp): every output frame is speculative   *)
(* until all the sample bytes it needed were in the cache.  On a miss the  *)
(* frame is undone and the output fades; the register writes between two   *)
(* frames are never undone.  All of it runs on CPU1, but the cache changes *)
(* under it: CPU0 fills and discards pages between any two reads.          *)
(*                                                                         *)
(* A frame is one step per source sample of a channel.  How many of them a *)
(* frame takes is left open (PER and the phase decide).  The cache is      *)
(* reduced to what PageCache shows of it: a page is missing, queued or     *)
(* ready, a queued one ends up ready or missing, and only bus writes make  *)
(* it missing.                                                             *)
(***************************************************************************)
EXTENDS PaulaCore, FiniteSets

CONSTANTS
  PageSize,           \* bytes of a cache page: 256
  Window,             \* bytes of lookahead: 1024
  SweepEvery,         \* frames from one lookahead sweep to the next: 32
  Highs, Lows, Lens,  \* what is written to AUDxLCH, AUDxLCL and AUDxLEN
  MaxSteps,           \* bound: source samples of a channel in one frame
  Ramp,               \* steps of a full fade: 96
  Wrap,               \* modulus of the interrupt counter: 2^32
  MaxEvictions        \* bound: pages that bus writes make missing

ASSUME RenderAssumption ==
  /\ PageSize \in Nat \ {0} /\ PageSize % 2 = 0 /\ Limit % PageSize = 0
  /\ Window \in Nat \ {0} /\ Window % 2 = 0 /\ SweepEvery \in Nat \ {0}
  /\ MaxSteps \in Nat /\ Ramp \in Nat \ {0} /\ Wrap \in Nat \ {0}
  /\ Highs \subseteq Nat /\ Lows \subseteq 0 .. Half - 1
  /\ Lens \subseteq 0 .. FullLen - 1 /\ MaxEvictions \in Nat

VARIABLES
  core,             \* the Paula core
  pc, turn, steps,  \* a frame in progress: the channel, its samples so far
  saved,            \* the copy of the core taken when it began
  missed,           \* render_miss
  pendingIrqs,      \* speculative_irqs
  irqs,             \* PP_VIRTUAL_IRQS
  gain, target,     \* master_gain, master_target
  out,              \* last_left, last_right: samples and gain behind them
  gate, waiting,    \* output_gate, waiting_for_cache
  countdown,        \* prefetch_countdown
  page, evictions   \* the cache

frameVars == <<pc, turn, steps, saved, missed, pendingIrqs>>
outputVars == <<irqs, gain, out, gate, waiting>>
vars == <<core, frameVars, outputVars, target, countdown, page, evictions>>

Pages == 0 .. Limit \div PageSize - 1
Silent == [samples |-> [ch \in Chans |-> 0], gain |-> 0]

\* paula_live_init, and a cold cache.
Init ==
  /\ core = ResetCore /\ saved = ResetCore
  /\ pc = "idle" /\ turn = 0 /\ steps = 0 /\ missed = FALSE
  /\ pendingIrqs = 0 /\ irqs = 0
  /\ gain = Ramp /\ target = Ramp /\ out = Silent
  /\ gate = Ramp /\ waiting = FALSE /\ countdown = 0
  /\ page = [p \in Pages |-> "missing"] /\ evictions = 0

-----------------------------------------------------------------------------
(* Lookahead.                                                              *)

Least(m, n) == IF m < n THEN m ELSE n

\* The pages of a range of bytes, cut at the end of Chip RAM.
PagesOf(first, bytes) ==
  IF first >= Limit \/ bytes = 0 THEN {}
  ELSE first \div PageSize .. (Least(first + bytes, Limit) - 1) \div PageSize

\* request_page, for a set of pages.
Requested(pages) ==
  [p \in Pages |-> IF p \in pages /\ page[p] = "missing" THEN "queued"
                   ELSE page[p]]

FetchState(c) ==
  IF c.restart \/ Reloads(c) THEN [cursor |-> c.loc, words |-> c.len]
  ELSE [cursor |-> c.ptr, words |-> c.words]

Enabled(k) == {ch \in Chans : On(k, ch)}

\* Fault: the loop is not looked ahead.
BlocksOnly(k) ==
  UNION {LET fetch == FetchState(k.chan[ch])
         IN PagesOf(fetch.cursor, Least(Window, 2 * fetch.words))
         : ch \in Enabled(k)}

\* paula_live_prefetch: from the cursor of every channel that is on, and from
\* its loop point if the block ends within the window.
Sweep(k) ==
  UNION {LET c == k.chan[ch]
             fetch == FetchState(c)
             bytes == Least(Window, 2 * fetch.words)
         IN PagesOf(fetch.cursor, bytes)
            \cup PagesOf(c.loc, Least(Window - bytes, 2 * c.len))
         : ch \in Enabled(k)}

\* poc_prefetch_channel: the start of the block the registers name.
Warm(c) ==
  PagesOf(c.loc, Least(Window, 2 * (IF c.len = 0 THEN FullLen ELSE c.len)))

-----------------------------------------------------------------------------
(* Between two frames.                                                     *)

\* poc_apply_live_event: the write, the pages of the channels it makes worth
\* warming, and a sweep.
Write(after, warmed) ==
  /\ pc = "idle"
  /\ core' = after
  /\ page' = Requested(Sweep(after) \cup UNION {Warm(after.chan[ch]) :
                                                ch \in warmed})
  /\ UNCHANGED <<frameVars, outputVars, target, countdown, evictions>>

WriteChannel(ch) ==
  \/ \E h \in Highs : Write(WriteHigh(core, ch, h), {})
  \/ \E l \in Lows :
       Write(WriteLow(core, ch, l),
             IF core.chan[ch].len \in {0, FullLen} THEN {} ELSE {ch})
  \/ \E n \in Lens : Write(WriteLen(core, ch, n), {ch})

WriteControl(set, bits) ==
  LET after == WriteDma(core, set, bits) IN
  Write(after, Enabled(after) \ Enabled(core))

Registers ==
  [loc : {h * Half + l : h \in Highs \cup {0}, l \in Lows \cup {0}},
   len : {0} \cup {IF n = 0 THEN FullLen ELSE n : n \in Lens}]

WithRegisters(k, regs) ==
  [k EXCEPT !.chan = [ch \in Chans |-> [k.chan[ch] EXCEPT
                        !.loc = regs[ch].loc, !.len = regs[ch].len]]]

\* Fault: the DMA channels are enabled before they have their registers.
DmaFirst(regs, dma) ==
  WithRegisters(WriteDma(ResetCore, TRUE, dma), regs)
\* "Restore pointer/length/period/volume first.  DMA is enabled last."
DmaLast(regs, dma) ==
  WriteDma(WithRegisters(ResetCore, regs), TRUE, dma)

\* poc_restore_live_state: paula_live_reset, and the registers of a snapshot.
Restore(regs, dma) ==
  LET after == DmaLast(regs, dma) IN
  /\ pc = "idle"
  /\ core' = after
  /\ page' = Requested(Sweep(after) \cup
               UNION {Warm(after.chan[ch]) : ch \in
                        {c \in Chans : regs[c].len # 0 \/ On(after, c)}})
  /\ out' = Silent /\ gate' = Ramp /\ waiting' = FALSE /\ countdown' = 0
  /\ UNCHANGED <<frameVars, irqs, gain, target, evictions>>

\* paula_live_mixer_apply: a new master volume.
ApplyMixer ==
  /\ pc = "idle"
  /\ target' \in 0 .. Ramp
  /\ UNCHANGED <<core, frameVars, outputVars, countdown, page, evictions>>

-----------------------------------------------------------------------------
(* A frame.                                                                *)

\* Fault: render_miss survives from frame to frame.
StillMissed == missed
NotMissed == FALSE

BeginFrame ==
  /\ pc = "idle"
  /\ pc' = "render"
  /\ page' = IF countdown = 0 THEN Requested(Sweep(core)) ELSE page
  /\ countdown' = (IF countdown = 0 THEN SweepEvery ELSE countdown) - 1
  /\ saved' = core
  /\ missed' = NotMissed
  /\ UNCHANGED <<core, turn, steps, pendingIrqs, outputVars, target, evictions>>

\* The page after one whose last word is read (its last 64 bytes) is warmed.
WarmedBy(address) ==
  {p \in Pages : p = address \div PageSize + 1 /\ address % PageSize = PageSize - 2}

\* Fault: a later read that hits hides the miss.
LastRead(hit) == ~hit
AnyRead(hit) == missed \/ ~hit

\* A source sample of a channel that is off, or the second byte of a word.
AdvanceWithin ==
  LET c == core.chan[turn] IN
  /\ pc = "render" /\ turn < NumChans /\ steps < MaxSteps
  /\ ~On(core, turn) \/ ~c.boundary
  /\ core' = [core EXCEPT !.chan[turn] =
                IF On(core, turn) THEN Advance(c, 0, 0) ELSE Silenced(c)]
  /\ steps' = steps + 1
  /\ UNCHANGED <<pc, turn, saved, missed, pendingIrqs, outputVars, target,
                 countdown, page, evictions>>

\* The first byte of a word: the word is fetched through the cache.  Beyond
\* Chip RAM every byte is 0, and that is no miss.  Sample pointers are even, so
\* a word lies in one page; a page that changes between its two bytes has the
\* effect of one that changes before or after both.
AdvanceFetch ==
  LET c == core.chan[turn]
      address == Block(c).ptr
      needed == address \div PageSize
      hit == address >= Limit \/ page[needed] = "ready"
      Byte(a) == IF hit THEN ByteAt(a) ELSE 0
  IN
  /\ pc = "render" /\ turn < NumChans /\ steps < MaxSteps
  /\ On(core, turn) /\ c.boundary
  /\ core' = [core EXCEPT !.chan[turn] =
                Advance(c, Byte(address), Byte(address + 1))]
  /\ pendingIrqs' = IF Reloads(c) THEN pendingIrqs + 1 ELSE pendingIrqs
  /\ missed' = AnyRead(hit)
  /\ page' = Requested(IF hit THEN WarmedBy(address) ELSE {needed})
  /\ steps' = steps + 1
  /\ UNCHANGED <<pc, turn, saved, outputVars, target, countdown, evictions>>

\* The channel has all the source samples of this frame.
NextChannel ==
  /\ pc = "render" /\ turn < NumChans
  /\ turn' = turn + 1 /\ steps' = 0
  /\ UNCHANGED <<core, pc, saved, missed, pendingIrqs, outputVars, target,
                 countdown, page, evictions>>

\* saved and missed mean nothing between two frames.
FrameOver ==
  /\ pc = "render" /\ turn = NumChans
  /\ pc' = "idle" /\ turn' = 0 /\ pendingIrqs' = 0
  /\ saved' = ResetCore /\ missed' = NotMissed
  /\ UNCHANGED <<steps, target, page, evictions>>

Toward(g, t) == IF g < t THEN g + 1 ELSE IF g > t THEN g - 1 ELSE g

Commit ==
  /\ FrameOver
  /\ ~missed
  /\ irqs' = (irqs + pendingIrqs) % Wrap
  /\ gain' = Toward(gain, target)
  /\ out' = [samples |-> [ch \in Chans |-> core.chan[ch].cur], gain |-> gain']
  /\ gate' = Least(gate + 1, Ramp)
  /\ waiting' = FALSE
  /\ UNCHANGED <<core, countdown>>

\* Fault: the core keeps what the incomplete frame did to it.
AsRendered == core
Undone == saved

\* The miss: the core is restored and the last output fades.
Rollback ==
  /\ FrameOver
  /\ missed
  /\ core' = Undone
  /\ gate' = IF gate = 0 THEN 0 ELSE gate - 1
  /\ waiting' = TRUE
  /\ countdown' = IF waiting THEN countdown ELSE 0
  /\ UNCHANGED <<irqs, gain, out>>

-----------------------------------------------------------------------------
(* CPU0: the cache worker and the bus writes (see PageCache).              *)

Fill(p) ==
  /\ page[p] = "queued"
  /\ page' = [page EXCEPT ![p] = "ready"]
  /\ UNCHANGED <<core, frameVars, outputVars, target, countdown, evictions>>

\* A bus write hits a ready page, or one that is being loaded.
Evict(p) ==
  /\ page[p] # "missing" /\ evictions < MaxEvictions
  /\ page' = [page EXCEPT ![p] = "missing"]
  /\ evictions' = evictions + 1
  /\ UNCHANGED <<core, frameVars, outputVars, target, countdown>>

FrameStep ==
  BeginFrame \/ AdvanceWithin \/ AdvanceFetch \/ NextChannel \/ Commit
  \/ Rollback

Next ==
  \/ \E ch \in Chans : WriteChannel(ch)
  \/ \E set \in BOOLEAN, bits \in SUBSET DmaBits : WriteControl(set, bits)
  \/ \E regs \in [Chans -> Registers], dma \in SUBSET DmaBits :
       Restore(regs, dma)
  \/ ApplyMixer
  \/ FrameStep
  \/ \E p \in Pages : Fill(p) \/ Evict(p)

Spec == Init /\ [][Next]_vars

\* Frames go on, and every request is served (PageCache!RequestsAreAnswered).
FairSpec ==
  /\ Spec
  /\ WF_vars(FrameStep)
  /\ \A p \in Pages : WF_vars(Fill(p))

-----------------------------------------------------------------------------
(* Properties.                                                             *)

Bytes == 0 .. Limit
Channels ==
  [loc : Nat, len : 0 .. FullLen, ptr : Nat, words : 0 .. FullLen,
   boundary : BOOLEAN, restart : BOOLEAN, cur : Bytes, next : Bytes,
   held : Bytes]
Cores == [dma : SUBSET DmaBits, chan : [Chans -> Channels]]

\* The values the variables may take; the word counter never underflows.
TypeOK ==
  /\ core \in Cores /\ saved \in Cores
  /\ pc \in {"idle", "render"} /\ turn \in 0 .. NumChans
  /\ steps \in 0 .. MaxSteps
  /\ missed \in BOOLEAN /\ waiting \in BOOLEAN
  /\ pendingIrqs \in Nat /\ irqs \in 0 .. Wrap - 1
  /\ gain \in 0 .. Ramp /\ target \in 0 .. Ramp /\ gate \in 0 .. Ramp
  /\ out \in [samples : [Chans -> Bytes], gain : 0 .. Ramp]
  /\ countdown \in 0 .. SweepEvery - 1
  /\ page \in [Pages -> {"missing", "queued", "ready"}]
  /\ evictions \in 0 .. MaxEvictions

\* "A frame is speculative until every requested sample byte was available":
\* but for delay, the output, the samples played and the interrupts are those
\* of a Paula whose memory never misses.
Stream == INSTANCE PaulaStream WITH core <- IF pc = "idle" THEN core ELSE saved
FramesAreTransactions == Stream!Spec

\* The addresses of the words a channel plays next, a window of them.
WordsAhead(c) ==
  LET at[n \in 0 .. Window \div 2 - 1] ==
        [(IF n = 0 THEN c ELSE Advance(at[n - 1], 0, 0)) EXCEPT !.boundary = TRUE]
  IN {Block(at[n]).ptr : n \in DOMAIN at}

\* A sweep aims where the core will read: after it, every word the channels
\* play within the window, through the end of a block and around its loop, is
\* in the cache or on its way.
SweepsCoverTheWindow ==
  [][BeginFrame /\ countdown = 0 =>
       \A ch \in Enabled(core) : core.chan[ch].len # 0 =>
         \A address \in WordsAhead(core.chan[ch]) :
           address < Limit => page'[address \div PageSize] # "missing"]_vars

\* "Playback fades back in once rendering can continue": once bus writes stop
\* discarding pages, whatever the program plays, frames are not missed for
\* ever and the output gate opens for good.
OutputComesBack == <>[](~waiting /\ gate = Ramp)
=============================================================================
