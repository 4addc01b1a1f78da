# A TLA+ verification of paulastorm

paulastorm makes an Amiga's audio come out of the HDMI port of the Raspberry Pi
that replaces its CPU. The physical Paula chip keeps working; a software Paula
mirrors it. One core emulates the 68k and owns the physical bus, another core
renders audio and must never touch that bus nor wait for it. Everything between
them is lock-free or try-lock only, and that is what these modules are about.

Paths below are relative to `src/source/`.

## The system

| Component | Source | State | Operations | Hard behaviour |
|---|---|---|---|---|
| Chip RAM sample cache | `src/raspi/paula/paula_mirror.c` | `page_meta` (state + generation per page), request ring, `shadow`, `pages_ready` | read a byte, prefetch (CPU1); service (CPU0); invalidate (bus writes) | three parties, no lock: a page changes while it is copied, published or read |
| Register event mirror | `src/raspi/paula/paula_mirror.c` | event ring, `event_lock`, `latest`, `dropped` | capture (CPU0); peek, pop, snapshot (CPU1) | lost events: full ring, refused lock; snapshot against capture |
| Replay loop | `src/raspi/hdmi_audio_poc.c` | `clock`, `last_drop`, `recovery_pending` | one frame: detect, recover, wait, apply, render, output | recovery against new losses, backlog, lateness |
| Replay clock | `src/raspi/paula/paula_replay.h` | `tick`, `remainder` | start, advance, due, late | drift, signed wrap |
| Live renderer | `src/raspi/paula/paula_live.cpp` | saved core, gains, fades, prefetch countdown | reset, write, prefetch, render | a frame is speculative and may be undone |
| Paula core | `src/raspi/paula/paula.cpp` | four DMA channels, control registers | register write, advance, render | pointer latching, loop reload, interrupts |
| Mixer controls | `PaulaMixer.c`, `paula_live.cpp` | request and applied words | GUI change, apply, acknowledge, timer | two machines, one word each way |
| Paula probe | `src/raspi/paula/paula_probe.c`, `PaulaProbe.c` | counters | add, set, bus read, bus write | diagnostic |
| HDMI output | `src/raspi/hdmi_audio_poc.c` | diagnostic mailbox, MAI FIFO, IEC958 frame | boot gate, message, wait for FIFO | bounded waits, a stall that ends audio |
| Classic bus | `src/pistorm/ps_classic_protocol.c` | GPIO bus | 8 to 128-bit reads and writes, wait for the blitter | odd and long accesses are split |
| Interrupts | `src/ExecutionLoop.c`, `src/aarch64/vectors.c`, `ps_housekeeper` | `INTF`, `INT_shadow`, A7/USP/ISP/MSP | vectors, sample, level, exception entry | requests raised by another core or a vector while the dispatcher looks |
| Reset, AutoConfig | `ps_pulse_reset`, `ps_housekeeper`, `vectors.c` | RESET line, `ignore_reset`, `overlay`, `board_idx` | pulse, watch, configure a board | one core's reset seen by another |
| 68k dispatch loop | `src/ExecutionLoop.c` | translation LRU, `LastPC`, `ARMCode` | poll the cache worker, look up, verify, run | stale translations |
| Fault handlers | `src/aarch64/vectors.c` | overlay, drive select, moved memory | emulate a faulting load or store | every addressing mode by hand; the memory map |
| ROM | `src/aarch64/start.c` | ROM windows, mappings | copy, shadow, repair, checksum | the order of these |
| Boot | `src/aarch64/start.c`, `src/raspi/start_rpi64.c` | `boot_lock`, `temp_stack`, `__m68k_state` | start the cores, start the emulation | cores start in any order |

How they meet. CPU0 runs the dispatch loop; a 68k store to the bus becomes
`ps_write_*_int`, which, after the bus cycle, calls `paula_mirror_capture`
(register writes go into the event ring) and `paula_mirror_invalidate` (the page
leaves the cache). Before every dispatch the loop serves one page request, and looks at `INTF`. CPU1
runs `hdmi_audio_poc_run`: it replays events 50 ms late into the Paula core,
renders a frame, and feeds HDMI; the core reads samples through
`paula_mirror_read_byte`. CPU2 samples the reset and interrupt lines into `INTF`. A store that the
translated code cannot do by itself faults into `vectors.c`, which emulates it
with the same bus functions. The Amiga GUI
writes the mixer word, which CPU1 applies before each frame.

What makes each correct:

- *cache*: no stale byte is served; no request is lost, duplicated or
  overwritten; the ready count is exact; a waiting renderer is served;
- *mirror and loop*: registers played are those of one past moment, and moments
  only advance; a gap in the stream is always found out; silence ends;
- *renderer*: an undone frame leaves no trace but the fade;
- *mixer*: the acknowledged settings are those in force;
- *clock*: no drift, comparisons valid across the wrap;
- *output*: nothing waits for ever except the documented end states;
- *bus*: the split of an access is what the mirror sees;
- *dispatch*: the code run for an address is that of the address;
- *interrupts*: a request is taken, unless it is masked or withdrawn, and on the
  right stack;
- *reset*: the Pi follows the keyboard's resets and not its own;
- *handlers*: an emulated instruction does what the ARM would have done, and
  loads and stores agree on where each byte is;
- *boot*: no core uses what is not there yet.

## The plan

All of it is done.

1. `PageCache`, implementing `SampleMemory`; proofs in `PageCacheProofs`.
2. `EventMirror`, implementing `DelayedRegisters`; proofs in `EventMirrorProofs`.
3. `RenderTransaction` over `PaulaCore`, implementing `PaulaStream`; proofs in
   `RenderTransactionProofs`.
4. `MixerControl`: GUI, bus bank and CPU1; proofs in `MixerControlProofs`.
5. `ReplayClock`, implementing `FrameClock`.
6. `BusAccess`, implementing `ByteMemory`, with proofs in `BusAccessProofs`;
   `FaultHandlers`, implementing `LoadStore`; `SlowMemory` and `DriveSwap`.
7. `HdmiOutput`: boot panel, mailbox, FIFO stall; `MaiRatio`.
8. `Translations`, with proofs in `TranslationsProofs`; `Interrupts` (the
   dispatch loop), `AmigaReset`.
9. `RomImage`, `CoreStart`: what must be there before the 68k code starts.
10. `MCConcurrent`, `MCSequential`: the parts of 4 to 9 put together for TLC.
11. `MachineProofs`, `SequentialProofs`: the proofs about the remaining parts of
    the two: `Interrupts`, `CoreStart`, `HdmiOutput`, `AmigaReset`; and
    `ReplayClock`, `SlowMemory`, `DriveSwap`, `RomImage`, `MaiRatio`,
    `FaultHandlers`.

What could follow: `LoadStore` with bytes of eight bits instead of one, the period and
phase of a channel, and two cores that capture register writes at once.

## The modules

### SampleMemory

What the renderer may rely on: each byte of Chip RAM is a regular register. A
read either misses, or returns a version that no write completed before the
read had replaced. A version is the number of the bus write that stored the
byte.

### PageCache

| TLA+ | C |
|---|---|
| `state`, `gen` | the two halves of `page_meta[page]` |
| `requests`, `rhead`, `rtail` | `requests`, `request_head`, `request_tail` |
| `shadow`, `pagesReady`, `chip` | `shadow`, `pages_ready`, the physical memory |
| `BeginRead`, `Prefetch`, `AlreadyRequested`, `Claim`, `Enqueue`, `Fetch` | `paula_mirror_read_byte`, `paula_mirror_prefetch`, `request_page` |
| `ServiceTake` ... `ServiceDiscard` | the steps of `paula_mirror_service` |
| `BusWrite`, `Invalidate`, `InvalidateCount` | `ps_write_8_int`, `ps_write_16_int`, `paula_mirror_invalidate` |
| `MoveCursor` | whatever makes the Paula core need another byte |

An action is one atomic access to a shared word. `cursor` is the byte the
renderer needs, `result` what its last read of it gave, `stable` and `floor` are
history: the versions whose write has completed, now and when the read began. A
page that was rendered with a miss is read again from the same cursor.

`ConcurrentWriter` says whether a bus write may overlap the worker. On CPU0
they take turns; the fault handlers are installed on every core, and the
generations of `page_meta` exist for that case. `SerialNeverDiscards` shows
that without it they are never needed.

### DelayedRegisters

What the software Paula may rely on: its registers are the observed registers
of a past moment, and the moment only advances. A cell that no
resynchronisation restores (`AUDxDAT`) may also be clear.

### EventMirror

| TLA+ | C |
|---|---|
| `paula` | the registers of the physical chip |
| `latest`, `lock`, `events`, `head`, `tail`, `dropped` | the statics of `paula_mirror.c` |
| `BusWrite` | the bus cycle of a register write |
| `CaptureBusy` ... `CaptureUnlock` | `paula_mirror_capture` |
| `StartLoop`, `LoopTop`, `Restore`, `EndBatch`, `Silence`, `Render` | `hdmi_audio_poc_run`, `poc_restore_live_state` |
| `SnapshotBusy` ... `SnapshotUnlock` | `paula_mirror_snapshot_take` |
| `ApplyEvent`, `PopEvent` | `paula_mirror_peek`, `poc_apply_live_event`, `paula_mirror_pop` |
| `live` | the registers of the software Paula |
| `clock` | `clock.tick`, as the stamp of the last event that is due |

A register write stores a set of cells: a whole register, or some bits of a
SET/CLR register. The number of the write stands for what is stored. `past` and
`at` are history: the values `latest` had, and the one `live` shows. `missed`
is history too: an event was dropped since the latest snapshot began.

Time. An event is due when its time stamp is not after `clock.tick`, which
stays 50 ms behind the counter. The model keeps what follows from this: at the
top of a turn only writes whose capture is over can be due, and nothing captured
during a turn is due in it. Lateness (`paula_replay_late`) may be
found at any turn. One core captures: the 68k code runs on CPU0.

### PaulaCore, PaulaStream

`PaulaCore` holds what `Paula::writeRegister16` and
`Paula::advanceOneSourceSample_` do to the DMA state of the core (`dma` is
`dmaCon_`; `loc`, `len`, `ptr`, `words`, `boundary`, `restart`, `cur`, `next`,
`held` are `locPtrLatched`, `lenWordsLatched`, `curPtr`, `curWordsLeft`,
`onLowByte`, `dmaWantsRestart`, `curOut`, `nextOut`, `curSampleH`). How many
source samples fall into an output frame (`period`, `phase`) is left open.

`PaulaStream` is a Paula whose memory never misses: a frame plays some samples
of each channel, takes one step of the master gain and counts its interrupts.
It is what the live renderer promises, apart from delay and fades.

### RenderTransaction

| TLA+ | C, C++ |
|---|---|
| `core`, `saved` | `*core`, and its copy in `paula_live_render` |
| `missed`, `pendingIrqs` | `render_miss`, `speculative_irqs` |
| `irqs`, `gain`, `target` | `PP_VIRTUAL_IRQS`, `master_gain`, `master_target` |
| `out`, `gate`, `waiting`, `countdown` | `last_left`/`last_right`, `output_gate`, `waiting_for_cache`, `prefetch_countdown` |
| `WriteChannel`, `WriteControl` | `poc_apply_live_event`, `paula_live_write`, `paula_live_prefetch` |
| `Restore` | `poc_restore_live_state`, `paula_live_reset` |
| `ApplyMixer` | the master volume of `paula_live_mixer_apply` |
| `BeginFrame`, `Commit`, `Rollback` | `paula_live_render` before and after `core->render` |
| `AdvanceWithin`, `AdvanceFetch`, `NextChannel` | `advanceOneSourceSample_`, called through `render` and `serviceChannel_` |
| `Fill`, `Evict` | what `PageCache` does to a page: publish it, invalidate it |

A source sample is one step, so CPU0 may fill or discard a page between any two
of a frame. Register writes fall between two frames, as in the frame loop. The
output is recorded as the samples and the gain it is computed from. The refinement
of `PaulaStream` shows it `saved` instead of `core` during a frame: what is
rendered does not exist before it is committed. Sample pointers are even, as
on the Amiga; the software core does not clear bit 0.

### MixerControl

| TLA+ | C, C++ |
|---|---|
| `request`, `applied` | `PM_REQUEST`, `PM_APPLIED` of `paula_probe.c` |
| `gui[g].ctl`, `.requested`, `.applied`, `.backend`, `.slider` | the statics `master` ... `mute`, `requested_word`, `applied_word`, `backend`, `active_slider` of a running `PaulaMixer` |
| `Tick`, `ReadHdmi`, `FindBackend`, `ReadRequest`, `ReadApplied` | `update_values`, called by the timer and after each event |
| `Press`, `Move`, `Release`, `Click`, `WriteRequest`, `ReadBack` | the event loop of `main`, `send_settings` |
| `Sample`, `Adopt`, `Acknowledge` | `paula_live_mixer_apply` |
| `Poke`, `Accepts` | `paula_probe_bus_write` |

Each read or write of the bank is a step of its own, because AmigaOS switches
tasks and CPU1 runs beside them. `initialized` always equals `backend`. The
branch for an invalid word (`PaulaMixer.c:214-218`) is there, and `MixerTypeOK` shows
why it is never taken: `request` is always a valid word. `input_count` bounds what users do. A word that is asked for again while it is being applied
cannot be told from its first request: `AcksAreHonest` speaks of the words.

### FrameClock, ReplayClock

`FrameClock` counts frames and multiplies. `ReplayClock` is
`paula_replay_start`, `paula_replay_advance`, `paula_replay_due` and
`paula_replay_late` with their remainder and `Width`-bit signed differences, in
the loop of `hdmi_audio_poc_run` (`Check` ... `Output`), beside a capture that
stamps an event and publishes it up to `MaxCapture` later (`Stamp`, `Publish`,
`Pass`).

### ByteMemory, BusAccess

`BusAccess` turns a call of `ps_write_8` ... `ps_read_128` into the list `todo`
of the steps it will make: bus cycles, each followed by
`paula_mirror_capture` and `paula_mirror_invalidate`, and the wait of
`check_blit_active`. `Write8` ... `Write32`, `Read8` ... `Read32` are the functions
`ps_*_int`; `Long` and `Quarter` the wide ones above them. `ByteMemory` is an
access in one piece; the refinement shows it the memory as it was before the
access until the last cycle is over. A byte write to a word register puts the byte on both lanes,
in the chip as in the mirror. The write buffer (`ps_classic_protocol.c:920-987`, `1020-1056`)
is not part of the program: `paula_mirror.c:315-317` refuses to compile with it.

### LoadStore, FaultHandlers

`LoadStore` says what an AArch64 load or store of a given size, addressing mode
and extension does, from one idea of base, offset and write-back. `FaultHandlers` is `SYSPageFaultWriteHandler` and `SYSPageFaultReadHandler`, one
operator per group of their branches: `StoreFloat`, `StoreInteger`,
`StoreExclusive`, `StorePair`, `LoadFloat`, `LoadInteger`, `LoadPair`,
`LoadLiteral`, `CacheFlush`. An instruction that no branch knows, or an address
outside the Amiga's space, ends in the endless `wfe` of `SYSHandler` (`Hangs`).
A behaviour handles one instruction, because the handlers keep nothing between two.
Addresses and values are scaled as the comment in `LoadStore` says. The memory
(`Content`) and the registers at the fault (`RegisterFiles`, `FloatFiles`) are
constants of any value; the memory answers every load, those of 16 bytes too
(observation 9). `WellFormed` says what the fields of an opcode can be;
`Mishandled` are the two groups of loads of observation 6, and
`WriteVal` is the end of `SYSWriteValToAddr`, the bytes that go to the bus.

### SlowMemory, DriveSwap

`SlowMemory` is the memory map at the head of `SYSWriteValToAddr` and
`SYSReadValFromAddr`: `overlay`, `move_slow_to_chip`, `block_c0`. `meant` is
what the program stored, by its own address; the properties compare it with the
bus memory `mem` and with loads. The machines are all combinations of the two
options with any memory: `move_slow_to_chip` is a boot argument
(`start.c:2246`), `block_c0` says that a Gayle was found
(`start_rpi64.c:660`). `SYSReadValFromAddr` is the set of all results a
load may have: `Unset` are the bytes of a 16-byte load (`LDP` of two X
registers) that no statement sets, which may have any value. `Memory` is what the
program may rely on: without `Empty`, where it finds 0, and without `Lost`,
the moved memory of a machine with both options (observation 8). The ROM under
`overlay` is that of an installed file (`rom_mapped`); accesses to page 0 that
`fast-page-zero` keeps from faulting are not part of it. `DriveSwap` is the exchange of select bits
in CIA-B port B, both ways, with the drive ID of `DF0` (`spoof_df0_id`);
`wanted` is history, the lines the program means to pull.

### HdmiOutput, MaiRatio

| TLA+ | C |
|---|---|
| `lock`, `count`, `lines`, `status` | `poc_diag` |
| `Post`, `poc_try_lock`, `Place`, `Shift`, `Copy`, `poc_unlock` | `poc_message` |
| `Report`, `InitFails`, `InitEnds`, `Sample`, `poc_wait_fifo`, `Fail`, `Stop`, `Halt` | `hdmi_audio_init`, `hdmi_audio_poc_run` |
| `TrySnapshot`, `CopyRow`, `CopyStatus`, `Splash` | `poc_snapshot`, `hdmi_audio_poc_boot_test` |

A text is copied in two halves, so that a torn one shows. `posted` is history,
the texts in the order of their messages, and so is `taken`, how many there were when CPU0
took the lock; `View` is the mailbox as it should be after that many. `MaiRatio` is `choose_mai_ratio`, one turn
of its loop a step, and its result is compared with every ratio.

### Translations

The four places that remember a translation: `units` (`ICache`), `lru` with
`alloc`, `lastPC` with `arm`, and marked entries. `RunAgain`, `LRU_FindBlock`,
`FindUnitQuick`, `VerifyOld`, `Translate`, `Uncached` are the branches of
`MainLoop` from line 458; `SYSValidateUnit` is the fault at a marked entry. The
translator is not in `src/`; its part (`FlushAll`, `FlushRange`, freeing
and verifying of units, running) is external and follows from the
calls made to it. `since` is history: what an address held since the last flush.

### Interrupts

`IrqVector`, `SErrorVector` and `WriteINTENA`, `WriteINTREQ`, `ReadINTENAR` are
`vectors.c`; `ps_housekeeper` the copy of the IPL pins on CPU2; `ReadINT64` ...
`Deliver` the steps of `MainLoop` from 341 to 456, each read of `INTF` a step.
The sync exceptions of CPU0 mask interrupts, so a handler is one step; the
dispatcher is not. `frames` is history: the exceptions not yet returned from.

### AmigaReset

`CallPulse`, `WaitFree`, `Drive`, `ReleaseReset`, `ResetBoards`, `Settle` are the
steps of `ps_pulse_reset`, `SamplePins` and `TestPins` those of the housekeeper, which
restarts the Pi (nothing happens afterwards). `ReadBoard`, `Configure`, `ShutUp`,
`WriteOverlay` are the fault handlers' part. Kickstart is external: after a
reset it reads the board that answers and maps it or shuts it up.

### RomImage

`CopyFromBus` or `LoadFile` for each size, `TestSwap` with `SwapLoop` and
`Repaired`, `Checksum`, then `Run`; `maps` says where the 68k code then finds what
a window holds, `AtZero` what it finds at 0, where `M68K_StartEmu` takes the
first SP and PC (`start.c:2177-2180`): the RAM of F80000 with `fast-page-zero`
(`start.c:1907`), that of E00000 under the overlay of an installed file, else the bus.
`PassedOver` are the windows that the repair of a swapped file does not reach
(observation 5); of these, and of the vector that comes from them, nothing
is claimed. A window of 512 KB is eight bytes: enough for the marker of the swap
test, a checksum and bytes that vary. How many values a byte has is left open (`Radix`).

### CoreStart

`TakeLock`, `SetStack`, `Wake`, `Unlock` are the loop of `boot` that starts the
cores; `Enter`, `Prepare`, `Clear` what a core does in `_secondary_start` and
`secondary_boot`; `Platform`, `OpenGate`, `ShowPanel`, `EndPanel` the rest of CPU0's
boot; `NewContext` ... `StartPpc` are `M68K_StartEmu`; `Gate`, `PassGate`, `Arm`
the beginning of `hdmi_audio_poc_run`; `Housekeep` an access of CPU2 to the
68k context. `PpcCore` is the last core, `KeeperCore` CPU2.

## The runs

| Run | Bounds | What it shows |
|---|---|---|
| `cache_concurrent` | 2 pages of 2 bytes, 2 writes, writer free | safety of the cache, and that it implements `SampleMemory` |
| `cache_liveness` | 2 pages of 1 byte, 2 writes, writer free | requests are answered, a waiting renderer is served |
| `cache_serial` | 3 pages of 1 byte, 2 writes, writer and worker alternate | no load is wasted |
| `mirror_replay` | ring of 4, batch of 1, 6 writes of 2 cells | safety of the mirror, and that it implements `DelayedRegisters` |
| `mirror_liveness` | ring of 3, batch of 1, 4 writes | recovery ends, the mirror catches up |
| `mirror_lost_write` | 2 writes | a violation, see Findings |
| `mirror_late_drop` | 2 writes | a violation, see Findings |
| `render_playback` | 1 channel, 2 pages of a word, blocks of 1 or 2 words, up to 2 samples a frame | frames implement `PaulaStream`; the lookahead covers the window |
| `render_channels` | 2 channels, 1 page, 1 eviction | the same, with channels that share a frame |
| `render_liveness` | 1 channel, 2 pages, 1 eviction, fades of 2 steps | misses end, the gate opens |
| `concurrent_parts` | see below | the parts on several cores: mixer, interrupts, bus accesses, HDMI output, start of the cores, resets |
| `sequential_parts` | see below | the algorithms: clock, memory map, drives, translations, load and store emulation, ROM, MAI ratio |

### The parts of the last two runs

`MCConcurrent` and `MCSequential` hold the instances of the smaller modules. They
EXTEND each of them, so that a run checks the very property a theorem states,
and add further instances with other bounds by INSTANCE. The parts share no variable: where two look at the same state of the program, as
`AmigaReset` and `SlowMemory` do at `overlay`, each has it as a variable of its
own, which the part of the other core or of the program may change at any
step. So a behaviour of the whole, seen through the variables of one part, is a
behaviour of that part with stuttering. TLC therefore lets only the part in `running` leave its initial
state. The states of such a run are the sum of those of the parts. A part
appears more than once when one question needs more of one bound and another
more of another.

| Part (`running`) | Bounds | Property |
|---|---|---|
| `mixer` | 2 windows, levels 0 and 1, 3 inputs, another writer | `AcksAreHonest`, `MixerSettles` |
| `sole` | 1 window, 3 inputs, all gadgets | `SoleWindowKeepsOthers` |
| `arm` | 3 accesses by words, no lines, no System Error | `InterruptsAreExact`, `InterruptsAreServed` |
| `lines`, `error` | 1 access, level 4 on the lines; 1 access, 1 System Error | the same |
| `access` | 1 access of 1 to 16 bytes at every boundary of 16 addresses | `CopiesFollowTheBus`, `AccessesAreWhole`, `NoCoreIsHeldUp` |
| `accesses` | 2 accesses of 1 to 4 bytes at 5 addresses | the same, with a blit that is still running |
| `panel`, `audio` | 2 lines, 2 messages, CPU0 with its panel; 1 message, waits of 2 ticks | `PanelIsWhole`, `NoCoreIsHeldUp` |
| `start` | 3 cores, 5 steps, 10 seconds | `BootIsOrdered`, `NoCoreIsHeldUp` |
| `reset` | 4 boards of both kinds, 2 resets, 2 pulls | `ResetsAreHandled`, `NoCoreIsHeldUp` |
| `clock` | 13 ticks in 5 frames, 7 bits, 40 ticks | `ClockIsExact` |
| `memory` | halves of 2 bytes, 2 values, every machine, all halves and widths | `MemoryIsWhole` |
| `drives` | all four values of the option (complete) | `DrivesAreExchanged` |
| `flushed` | 2 addresses, 2 units, 2 contents, 1 full flush | `TranslationsAreCurrent` |
| `crowded` | 3 addresses in a set of 2 ways, 2 units, 1 full flush | the same |
| `evicting` | 3 addresses in a set of 2 ways, 3 units | the same |
| `handlers` | every form, size and extension (`Opcodes`), 12 register files (4 bases, 3 indexes) | `ActsLikeTheCpu` |
| `rom` | bytes of 4 values, all four sizes, all sources, with and without checksum and `fast-page-zero` | `RomIsInstalled` |
| `ratio` | clocks to 60, rates to 25, N to 14, M to 9 | `RatioIsNearest` |

Each property is the conjunction of the named parts that the module of the
part states and explains. In `flushed` the two units and the two contents are
interchangeable (`Symmetry`): no definition tells them apart, and no liveness is
checked in that run.

Why the bounds are enough to meet the interesting cases. Cache: two pages let the
reader warm the next page and fill the ring; two bytes let a write hit the half
already copied or the half still to copy; two writes let the second hit a page
that the first sent round again. Nothing else needs a bound: a page is requested only when it is missing, and
only a write makes it missing again, so generations and ring positions
stay finite. Mirror: with a ring of
4 the high-water mark is 3, so two events can wait without a recovery, one more
than a batch; six writes fill the ring, lose one and queue another one behind
the gap; the two words (`dma0` and `dma1` together, `dma1` alone) tell a lost
write from a later one that hides part of it. The liveness run swaps them for a
register that a resynchronisation restores and one that it does not.

Renderer: with one-word pages every fetch may miss; blocks of one and two words,
a length never written (0 words) and pointers beyond Chip RAM give every branch
of the reload and of the lookahead; two samples a frame put a fetch behind
another step. Two channels are what one frame needs for a hit
after a miss and a miss after a hit. The run with fades needs no second channel.

Mixer: three inputs let two windows press and release, or a poke fall
between; levels 0 and 1 are enough to tell words apart, 2 is an invalid one.
Clock: 13/5 leaves a remainder that carries in three of five frames, and 40 ticks pass
several restarts; the assumption keeps the 7 bits as far from their
sign as 2^63 is from any uptime. Bus: an access of 16 bytes at the end of the space
wraps, one at every boundary of RAM, registers and blitter straddles it; the
second access of `accesses` finds the blitter busy. Interrupts: three accesses
set, clear and set again while a request is open; an error during an exception
and the starts in either mode use all stacks. Reset: the second pull may fall into the pulse. Translations: with three
addresses in two ways an insertion evicts, and freed memory is used again for
another address. ROM: eight bytes hold one long before the checksum and two behind it.
HDMI: one text of the boot and two messages fill two lines and scroll.
Handlers: bases at both ends of the address space and outside; indexes that
are negative as words. `Half = 2` gives accesses inside, at and across an edge.

`CHECK_DEADLOCK FALSE` is used in both, because parts stop for good: a closed mixer with
no input left, an ended bus access with none left, a Pi that was restarted, CPU1
halted after a failure and CPU0 gone to the emulation, a core in `wfe`.

Every property of a passing run, and every conjunct of those of the last two but `TypesOK`, is paired in PROJECT.json with a plausible fault
of the code (a definition marked `Fault` in the module), with which TLC finds
the property violated.

### Fairness

`PageCache!FairSpec`: weak fairness of the worker (the dispatch loop polls it
before every dispatch, `ExecutionLoop.c:320-332`, and it never waits), of a
started write and of a started read; strong fairness of `BeginRead`, because
the render loop puts at most one sweep of prefetches before the frame it renders
(`paula_live.cpp:171-174`). Writes and cursor moves are under no obligation.

`EventMirror!FairSpec`: weak fairness of a started capture and of the frame
loop, which assumes that HDMI initialisation succeeds and that the MAI FIFO
drains (otherwise the code stops for good, on purpose); strong fairness of
the turns at which everything settled is due, because time passes. Behaviours
have finitely many writes: with endless ones the try-lock of the snapshot could
in principle always lose.

`RenderTransaction!FairSpec`: frames go on (the loop renders 48000 of them a
second, unless HDMI stops or a backlog lasts, which `EventMirror` treats),
and a queued page is filled, which is `PageCache!RequestsAreAnswered`; an
eviction of a queued page stands for the load that is thrown away. Evictions
are finitely many. Register writes and mixer changes may go on for ever.

`MixerFairSpec` (`MixerControl`): CPU1's loop and the windows' tasks run, the timer
returns; strong fairness of the mouse button being released. A FIFO stall is
possible and not fair.

`BusFairSpec` (`BusAccess`): CPU0 goes on with an access, and a blit ends.

`IrqFairSpec` (`Interrupts`): the dispatcher, the housekeeper and the IRQ vector run,
and the 68k code that is running comes back to the dispatcher; the program's
handlers return. Nobody is obliged to change the lines or to write a register.

`ResetFairSpec` (`AmigaReset`): both cores go on (`ps_classic_protocol.c:846-909` is an
endless loop), and Kickstart goes on with its chain. Pulling the line is free,
but a pulse is taken to outlast one turn of the housekeeper, as the `usleep`
of the code does.

`FairCpu0` and `FairCpu1` (`HdmiOutput`) are fair to one core each: the other may stop
at any step, even with the lock. Time passes for whoever waits.

`StartFairSpec` (`CoreStart`): every core that was woken goes on.

`MCConcurrent!FairSpec` states the same of the part that is running.

## Findings

1. *A write dropped by lock contention is gone for good.*
   `paula_mirror_capture` returns before it updates `latest` when it finds the
   lock held (`paula_mirror.c:107-112`). The drop is counted and makes CPU1
   recover, but the snapshot it recovers from lacks the write. The comments
   promise a reconstruction of the latest CPU-observed state after a lost event
   (`hdmi_audio_poc.c:600-602`, `706-707`). Run `mirror_lost_write`.
2. *A drop during the snapshot may go unnoticed.* The drop count is read after
   the lock is taken (`paula_mirror.c:197`). A capture refused by the lock just
   before that is included in the count, so `last_drop` already covers it and no
   recovery follows, although `hdmi_audio_poc.c:717-718` wants a new drop
   during restoration to trigger another one. Run `mirror_late_drop`.

Both need a register write to fall into the few instructions in which CPU1
holds the lock, and last until that register is written again. The passing runs
treat such a write as not observed; what they show holds in its presence.

### Observations

Seven more came up in the modules of `MCConcurrent` and `MCSequential`. The runs
keep each case closed by a constant, or do not check the property that it
violates, so that the rest can be judged; the lines in brackets say how TLC
shows it.

3. *A long access mixes INTENA with INTREQ.* `vectors.c:378` compares the address
   with `INTENA` whatever the size, so a long write to DFF09A puts the word of
   INTREQ into the shadow of INTENA, and an EXTER request is raised that
   Paula has not enabled, or not raised although it has. Line 162 wants a
   request when INTEN and EXTER are active. [`Interrupts` with `Widths <- {2, 4}`
   violates `ExterOnlyWhenActive`.]
4. *A reset leaves page 0 on RAM.* `ps_pulse_reset` turns the overlay on
   (`ps_classic_protocol.c:824`) without mapping page 0 to the ROM, which
   `vectors.c:431` and `start.c:1906` do. [`AmigaReset` with `FastPage0 <- TRUE`
   violates `PageZeroFollowsOverlay`.]
5. *Two windows of a swapped ROM stay swapped, and the reset vector with one of
   them.* The repair (`start.c:1806`) comes after the copies and goes through
   F80000, for 1M and 2M also E00000, for 2M also A80000 and B00000. It does
   not reach E00000 of 256K and 512K, "a shadow of 0xf80000" (`start.c:1765`,
   `1774`), nor F00000 of 1M (`start.c:1783`). Of these, E00000 is what the
   overlay shows at 0 (`vectors.c:614`), so unless `fast-page-zero` is on
   the 68k takes its first SP and PC (`start.c:2177-2180`) from swapped bytes.
   [`RomImage` violates `EveryWindowIsUpright` and `EveryVectorIsUpright`.]
6. *Two groups of loads* (`Mishandled`)*.* Floating point with write-back: bits 11:10 = 01 mean post-index; the
   FLDS and FLDD branches take them for pre-index (`vectors.c:1680`), unlike the stores
   (1298) and the integer loads (2040), and the form 11 of FLDD is not handled
   at all, since line 1754 repeats the mask of FLDS. Literals without sign: the
   value is put into the register only with `sext` (`vectors.c:1945`), so a plain
   one is counted as handled and loads nothing. [`FaultHandlers` with
   `Instructions <- WriteBackLoads` of `Opcodes` violates
   `FloatLoadsIndexLikeStores`.]
7. *Moved memory has an edge.* `move_slow_to_chip` looks at the first byte of an
   access only (`vectors.c:488`): a long at 07FFFE loses its second word.
   [`SlowMemory` with `Crossing = TRUE` violates `StoresArrive`.]
8. *Moved memory is lost beside Gayle.* With both `move_slow_to_chip` and
   `block_c0`, a store to 080000 is redirected to C00000 (`vectors.c:491`)
   and then dropped there (`vectors.c:498`); a load tests `block_c0` before it is
   redirected (`vectors.c:592`) and reaches the bus. The program finds memory
   that does not keep what it stores. [`SlowMemory` violates `ShownIsStored`.]
9. *Loads of 16 bytes may return what nothing has set.* The overlay's switch has no
   case for 16 (`vectors.c:618-632`), and a load of blocked or hidden memory
   sets `*value` alone (`vectors.c:594`, `645`), but both count as handled: an
   `LDP` of X registers puts its uninitialised variables into them
   (`vectors.c:1792`, `1833`). [`SlowMemory` violates `WideLoadsSeeStores`.]

## What is proved

With TLAPS, for every value of the constants that the named assumption of the
module allows, and without further hypotheses unless one is given here.

`PageCacheProofs` (at least one page, at least one byte per page, any number of
writes, writer free or not):

- `TypeCorrect`: `TypeOK` is inductive. Besides types it says that a page to
  request exists, which rests on the guard of `WarmsNext`.
- `NoStalePublication`: `ReadyIsFresh` is not inductive, because nothing in it
  speaks of a page being loaded. `FreshInv` adds
  *PrefixIsFresh*: while the worker's page has the generation it was taken at,
  each byte copied so far is at least as new as its completed writes (an
  invalidation that would break this also changes the generation);
  *VersionsOrdered*: completed versions and cached ones never exceed the
  memory's; and *HitIsFresh*: a reader that saw its page ready finds a byte
  no older than the floor of its read, even when the page was invalidated or is
  being loaded again, since a byte in the cache never gets older.
- `CacheIsRegularMemory`: every step of `PageCache` is a step of `SampleMemory`
  or leaves its variables alone, given `FreshInv` and `ReaderInv` (which pages a
  reader is about to request, and when it may reach its load).
- `RequestRingNeverOverflows`: `request_page` never looks at the tail. The
  invariant `RingInv` ties page states to the ring: occupied slots hold distinct
  pages, each queued (or, at the tail, the one being loaded), and the page being
  enqueued is in none of them. There are no more distinct pages than slots, a
  pigeonhole argument on finite sets (`RingHasRoom`).
- `NoRequestIsLost`: from the same invariant.
- `ReadyPagesAreCounted`: the count follows the pages that become ready and cease
  to be, with one step outstanding on each side of the exchange of `page_meta`.
- `SerialWorkerNeverDiscards`: while the writer takes turns with the worker, the
  page being loaded has the generation it was taken at.

`EventMirrorProofs` (any capacity, batch and number of writes):

- `TypeCorrect`.
- `NoSilentGap`, `NoFrameIsIncomplete`: `GapsAreCounted` and
  `RenderedFramesAreComplete` are not inductive. `MirrorInv` orders the events:
  the stamps in the ring ascend, and lie between what CPU1 has applied and what
  was captured (`Stream`); if the stream has a hole, it is behind the last event
  that CPU1 may still apply, or counted as a drop that it will see before it
  renders (`NoGap`); what a snapshot or the registers show was `latest` at the
  moment recorded (`Copies`); and when events are applied, every write up to the
  replay clock is in the ring, drop or not, since the clock was read before the
  drop was looked for (`Covered`).
- `MirrorIsDelayedRegisters`: every step maps to one of `DelayedRegisters` or a
  stutter, from `Copies`; that an event applied is the next one is `Covered`.

`RenderTransactionProofs` (any number of channels, size of memory, pages, windows
and frames):

- `TypeCorrect`; the word counter never goes below zero.
- `RendersFramesAsTransactions`: the refinement of `PaulaStream`. `FrameInv` says
  what a frame in progress has done since the copy of the core was taken: unless
  a byte was missed, there is a number of source samples for each channel such
  that the core is the copy after those samples, read from a memory that never
  misses, and `pendingIrqs` is the sum of the reloads among them. A commit is
  then a frame of the stream, a rollback gives the copy back, and everything
  else within a frame is a stutter.
- `SweepsAlwaysCoverTheWindow`: `OneWordAhead` follows the channel word by word:
  it is in its block, or at most as far into its loop as it has read words since
  (`InBlock`, `InLoop`). So all that it reads within the window is in one of the
  two ranges that `Sweep` requests. It needs `RunningInv`: a channel that is on
  has been primed (`WriteDma` and nothing else turns channels on).

`PaulaStream` and the lookahead are defined by recursive functions. What such a
function is follows by induction over its numbers, from the well-foundedness of
`<` (`AllNumbers`): it exists, obeys its equation (`PlayedSteps`, `SumsSteps`,
`AheadExists`), has its type, and one more reload of a channel is one more of all
(`SumOfOneMore`).

`MixerControlProofs` (`MixerAssumption`; any number of windows and levels):

- `TypeCorrect`: with `GoodWindow`, what each window knows at each step.
- `AcksAlwaysHonest`: `AdoptionOK` says that between two adoptions the word last
  read by CPU1 is the acknowledged one and in force, and that during one it is
  another word, in force up to the setting that was adopted last (`AdoptedAt`).
- `SoleWindowAlwaysKeepsOthers`, for a window that is the only one, and no other
  writer whose words the bank accepts: what it asks for differs from the request
  in one setting, or is the defaults (`SoleInv`).

`SequentialProofs`, the parts of `MCSequential` without `Translations`:

- Clock (`ClockAssumption`: a capture is shorter than the latency, and the
  counter stays below half its range by a latency, a lag and a frame).
  `ClockTypeCorrect`: the remainder stays below the rate because a carry is at
  most one (`AdvanceIsExact`, with the facts of division it rests on).
  `CaptureIsCovered`: an unpublished event is stamped at most `MaxCapture` ago
  and the clock is never ahead of the counter less the latency when events are
  looked at; within half the range the signed difference is the true one.
  `ImplementsIdealClock`: `tick` and `remainder` are quotient and rest of
  `frames * Freq` by `Rate`, so each step maps to one of `FrameClock` or a
  stutter. The last two together are `ClockAlwaysExact`.
- Lower memory (`SlowAssumption`): `MovedMemoryIsWhole` and `ReadsAgreeWithWrites`, together
  `MemoryAlwaysWhole`, for every machine, assuming that no access crosses a half
  (`~Crossing`, observation 7), from an invariant that ties every cell of the
  bus to the address that stands for it (`Aligned`, `CellReached`). They say
  nothing of what the program stores to moved memory on a machine with Gayle, except that
  no cell changes (observation 8), nor of the bytes of 16-byte loads that are
  never set (9).
- Drives (`SwapAssumption`): `DriveIsExchanged` and `IdIsRight`, together `DrivesAlwaysExchanged`,
  by cases on the lines of the port.
- ROM (`RomAssumption`: a byte has more than three values): `RomTypeCorrect`,
  and `RomAlwaysInstalled` from `InstallInv`, which says for every stage what each
  window holds, where it is mapped and which are still to be turned round. It
  covers every window that gets a part of the ROM, and the reset vector, but for
  those that observation 5 names, of swapped files. The sum of
  `amiga_checksum` is taken with the end-around carry it has, in any radix.
- MAI ratio (`RatioAssumption`: no rate and no bound is 0): `RatioTypeCorrect`,
  and `RatioAlwaysNearest`: for every pair of clocks the result of the search is
  the ratio nearest to theirs within the bounds. `AllBeaten` says that the
  choice is at least as good as all that was tried. The search tries one N for
  each M, and none where that N is 0 or out of bounds; that it misses nothing is
  `NearestIsNearest` for the others of one M, and `ZeroIsFar` and
  `SmallerIsAsNear` for the M it passes over.
- Fault handlers (`HandlerAssumption`: opcodes are `WellFormed`; any memory, any
  registers, any set of instructions): `HandlerTypeCorrect`, and
  `HandlersActLikeTheCpu`, the refinement of `LoadStore`, for instructions that
  are not `Mishandled` (observation 6; for those it is false). There is one
  lemma for each group of branches (`*Steps`): the handlers compute in 64 bits
  what `LoadStore` computes modulo an address space, take a value apart and put
  it together by halves, and write back before or after the access, on registers
  that are not operands.

`MachineProofs`, parts of `MCConcurrent`:

- Interrupts (`InterruptsAssumption`): `IrqTypeCorrect`, and
  `StackAlwaysFollows`: whatever is nested, A7 is the stack of the mode, with a
  frame for each exception not yet returned from. The frames below the top have
  to be known for RTE: the first exception came from user mode, all others from
  supervisor mode with the same M bit (`Nested`), so the number of frames
  determines all four stack pointers (`Stacked`). `InterruptsAlwaysExact`, for a
  program that accesses the registers by words (`Widths \subseteq {2}`; with
  longs it is false, observation 3): the shadow is the register (`Shadowed`),
  and the flag is raised exactly while a pending request is enabled.
- Start (`CoreAssumption`: at least three cores): `StartTypeCorrect`, and
  `BootAlwaysOrdered`: `BootInv` adds to the types who holds the lock
  (`LockOfCpu0`), that the stack pointer handed over belongs to the core being
  woken (`Handover`), and how far CPU0 must be for what each core does
  (`Order`).
- HDMI output (`OutputAssumption`: a line and a round at least):
  `OutputTypeCorrect`, and `PanelAlwaysWhole`: what CPU0 shows is the mailbox as
  it was after some message, with no torn text and no lines of two moments.
  `OutputInv` says that the lock excludes the two (`OneHolds`), what the mailbox
  is in every step of a message (`LinesMove` while the lines move up,
  `LineComes` and `TextComes` while the new one is written), and that the part
  already copied is that of the moment CPU0 took the lock (`ViewComes`).
- Reset (`ResetAssumption`: any sequence of boards): `ResetTypeCorrect`, and
  `ResetsAlwaysHandled`: the Pi is not restarted by its own pulse, since a turn
  of the housekeeper that has seen the line low ends before the pulse does
  (`PulseSeen`); and the boards configured are the enabled ones before the
  current one, in order (`BoardsPassed`). That the next board is the first
  enabled one rests on the least-number principle (`SmallestOf`).

`TranslationsProofs` (`TranslationsAssumption`: every address is in one set of
the LRU, which has two ways or more; any number of units, contents and flushes):

- `TypeCorrect`, and `TranslationsAlwaysCurrent`: a set of the LRU never holds
  an address twice, nothing that can be run points at a unit that is free or
  another address's, and what begins to run is the code of its address as memory
  has held it since the last flush of it or, with the cache off, holds it now.
  `LruOK` ties every way to the unit it names, and one that is not marked to
  the current epoch; `ArmOK` does the same for `lastPC` and `arm`, which are
  kept from turn to turn; `SinceFlush` bounds what an unmarked unit can have
  been translated from.

`BusAccessProofs` (`BusAssumption`: an even space of at least 16 bytes, Chip RAM
apart from the audio registers, which are whole words, no blitter register at 0
or 1):

- `BusTypeCorrect`, and `CopiesAlwaysFollowTheBus`: between two cycles the
  shadow registers, what the replay makes of the events, and every page of the
  cache are those of the Amiga, except where the next step of the access says
  so. `Chain` says which steps may follow each other; the rest is about one
  step.
- `AccessesAlwaysWhole`, the refinement of `ByteMemory`: an access to any
  address, of any of the five sizes, has one point at which all of it happens.
  The invariant speaks of the list of steps left to do (`AccessFollows`): each
  byte of the value is in the memory already or among those they write, and they
  write nothing else (`Storing`), what they read continues what was read
  (`Loading`), and no word cycle reaches a blitter register without a check
  before it (`BlitFollows`). They hold when an access begins by lemmas about the
  functions that split it, from the shortest to the longest (`Cuts`, `Stores`,
  `Reads`).

Where a proof needs induction, over the numbers or the elements of a finite set,
it uses that `<` and strict inclusion are well-founded: the induction theorems
of the library take an operator as a parameter, which the provers cannot
instantiate.

Only model-checked: every liveness property (liveness under fairness and ENABLED
are out of the provers' reach), namely those of the runs `cache_liveness`,
`mirror_liveness` and `render_liveness`, `MixerSettles`, `InterruptsAreServed`
and `NoCoreIsHeldUp`. `TypesOK` of `MCConcurrent` and of `MCSequential` join the
types of the parts, each of which a theorem covers. Every other property of a
passing run is stated by a theorem.

## Not modelled

- Copper register writes and blitter writes to memory: the code does not see them
  either (`src/readme.md:56`). In `PageCache` they would be bus writes without an
  invalidation.
- Wrap of the 32-bit ring positions and of the 62-bit generation: the ring sizes
  divide 2^32, so positions modulo the size and differences are unaffected; a
  generation would have to wrap during one page load.
- Addresses beyond Chip RAM (they read 0 and change nothing), the `enabled` flag
  before the mirror is armed, probe counters and messages.
- Floating-point mixing and filtering, HDMI and clock registers, IEC958 words, MMU
  tables, device tree and command line: arithmetic out of TLC's reach, or
  straight-line code without decisions.
- Period and phase, volume and mute of the channels, `AUDxDAT` (which the core
  ignores), `Paula::setLoop` and `readRegister16`, which nothing calls.
- The GPIO handshake inside a bus cycle and the CPLD's set-up, the write buffer
  (not compiled), `CIA_DELAY` and `CHIPSET_DELAY` (0).
- The translator, RTE, the PPC core and the driver of an ARM device: not in
  `src/`, external. `LRU_InvalidateByARMAddress` has no caller.
- Loads into XZR (`vectors.c:1199`) and LDAXR, which the emulation does not
  handle, as long as the translator emits none of them.
- Interrupt level 7 held on the lines, which the dispatcher enters again
  at every turn (`ExecutionLoop.c:404`); writes of the Copper to INTENA, which
  the shadow cannot see; the shadow after a reset pulse.
- Two mixer windows that overwrite each other's latest change: the protocol has
  one word and no merge.
- ROM files of other sizes than the four, of which nothing is copied.
- The SD card and RTC ports, debug output, counters of the probe and their
  printing in `PaulaProbe.c`.
