# termnes in TLA+

termnes is a NES emulator for the terminal. This directory holds TLA+ models
of the parts of it whose correctness depends on *when* things happen, the TLC
configurations that check them on small instances, and TLAPS proofs of the
properties that matter most for every value of the constants. Source paths
below are relative to `src/src/`.

## 1. Inventory

The emulator is one thread that calls down a tree of structs: `main.rs` or
`lib.rs` (frame loop) → `cpu` → `bus` → `ppu`, `apu`, `cartridge`, joypads.
Time is the number of `Bus::tick` calls: the CPU calls it before each of its
bus accesses, and one tick runs the mapper, three picture cycles and one APU
cycle. The hard behaviour is therefore interleaving at the grain of a bus
cycle: everything raises flags in the middle of instructions, and somebody
else looks at the flags later. The only real threads are in the audio output.

| Part | State | Operations | Hard because | Correct means |
|---|---|---|---|---|
| Sample channel, `apu/dmc.rs` | reader (address, length), one-byte buffer, shifter, timer, request and interrupt flags | `$4010`-`$4015` writes, `clock_timer`, `load_sample` | the channel raises a request, the bus serves it inside `tick`, recursively; register writes fall in between | every byte of a sample is played once, in order; requests are exact; the interrupt comes exactly at the end |
| Frame counter, `apu/mod.rs` | cycle, mode, inhibit, flag, a pending `$4017` write | `tick`, `$4017` write, `$4015` read | a write takes effect 3-4 cycles later; others can overtake it | last write wins, inhibited means clear, clocks and interrupts recur |
| Tone channels, `apu/pulse.rs`, `triangle.rs`, `noise.rs` | length, envelope, sweep, linear counters, timers | register writes, quarter- and half-frame clocks | counters at their limits | channels fall silent when they should and only then |
| Bus, `bus/mod.rs` | RAM, DMA registers, cycle count | `tick`, `cpu_read`, `cpu_write`, `do_dma`, `poll_nmi`, `poll_irq`, battery file | tick-before-access order, nested ticks | a transfer copies a page; nothing is accessed before its cycle |
| CPU, `cpu/` | registers, flags | `step`, `nmi`, `irq`, `reset` | interrupts are polled only between instructions | handlers run once per event and in order |
| Picture unit, `ppu/` | beam, vertical-blank flag, NMI flag, scroll registers, video memory | `tick`, `$2000`-`$2007` | flags change at single cycles; reads have effects | one NMI per frame, one frame per frame |
| Frame loop, `lib.rs`, `main.rs` | `frame_complete`, key timers, pacing | `step_frame`, `run_emulation`, `handle_input` | frame ends fall inside instructions and transfers; the audio buffer is the clock | returns once per frame, never hangs |
| Save states, `savestate.rs` | the `.state` file | `capture_state` / `restore_state` of each part, F5, F9, autoresume | what is left out is inherited from the machine that loads | a loaded machine behaves like the saved one |
| Mappers with a counter, `mmc3.rs`, `vrc6.rs`, `sunsoft_fme7.rs`, `mmc5.rs` | IRQ counter, latch, enable, pending | per-scanline or per-cycle clock, register writes | reload, overflow and acknowledge races | an enabled counter interrupts at the programmed point |
| Bank-switching mappers, `mmc1.rs`, `mmc2.rs`, ... | bank registers, MMC1's shift register, MMC2's latches | register writes, address mapping | five-write protocol, bank arithmetic | every address maps into the ROM |
| Joypad and keys, `input/mod.rs`, `main.rs` | strobe, index, buttons; release timers | `$4016`, key events, `tick_frame` | timers against key events and F9 | eight bits in order; no stuck button |
| Audio, `audio.rs`, `remote_audio.rs` | sample queues | `queue_samples`, sender thread, listener, device callback | threads, full queues, disconnects | no reordering, bounded latency |
| Renderer, `renderer/mod.rs` | previous frame | `render_frame` | skipping what has not changed | the screen shows the frame |
| Loader, palette, filters | - | pure functions | - | - |

## 2. Plan

Modules are written so that they can be proved about: parameters are
CONSTANTS with named assumptions, methods are operators on records, one action
per step, no RECURSIVE operators. The bit operations of `Cpu` are set operations on
the bits of a byte, which the provers can reason about, as `Bitwise` recurs.

Done, in this order:

1. `Dmc`, `SampleReader` (abstract), `DmcReader` (refinement), `DmcSaveState`,
   `Dmc_proofs`.
2. `FrameCounter`; `Apu`, which puts the units of the tone channels on its
   clocks; `Apu_proofs`.
3. `PpuTiming`, `NesLoop` (CPU, picture unit, sprite DMA, interrupts, frame
   loop), `NesLoop_proofs`; `Scroll`, which adds the scroll registers to
   `PpuTiming`; `Scroll_proofs`.
4. `IntervalTimer` (abstract), `Mmc3Irq`, `Vrc6Irq`, `Fme7Irq`, `Mmc5Irq`, `Banks`
   and `Cartridge`, which puts one of them into the slot; `Cartridge_proofs`.
5. `Cpu`: every instruction on real bytes; `Cpu_proofs`.
6. `SampleStream` (abstract), `LocalAudio`, `RemoteAudio`, `KeyInput`, and `Host`,
   which runs one of the three; `Host_proofs`.
7. `Joypad`, `WorkRam`, and `SaveStates`, which runs one of these or
   `DmcSaveState`; `SaveStates_proofs`.

Left:

8. Sprites: OAM, its DMA, and which eight a line shows; the `$2007` read
   buffer.

## 3. The modules

### Sample channel: `Dmc`

The variable `dmc` is the struct, field by field; `CheckDma`, `LoadSample`,
`ClockOutput` and the others are its methods. `Bus::cpu_read` and `cpu_write`
call `tick(1)` and then access the register, so an access is two steps:
`BeginAccess` and, when no cycle is owed any more, one of the access actions.
In between, `PlainTick` and `DmaTick` are iterations of `Bus::tick`; a
served read adds its stolen cycles to `owed`, which is the recursion of
`Bus::tick` flattened (the nested call runs at the end of the iteration, when
only `total_cycles += 1` is left). A register write can come at any access,
with any value: the CPU's program is arbitrary.

`SampleReader` is what the channel promises, without timers, registers or
requests: bytes pass one at a time from ROM through a buffer into the shifter.
`DmcReader` maps the struct's fields to it.

`DmcSaveState` adds the `.state` file. A save or load happens between two
instructions (`BetweenInstructions`), the process may be restarted at any
point, and a file survives it. `tainted` is a history variable: it is set when
a state was saved, or loaded, while a request was outstanding.

### Frame counter: `FrameCounter`

The fields of `Apu` that belong to the sequencer. `Sequence` is the body of
`Apu::tick` after the pending-reset block; `PlainTick` and `ResetTick` are the
two ways through that block. `quarters` and `halves` are history: the clocks
the channels have had in the present sequence. Accesses are separated by at
least one cycle (`ticked`), and `odd` is the parity of `Bus::total_cycles`
on which the delay of a `$4017` write depends.

### Tone channels: `Apu`

A channel is made of units that share no register but the halt bit: a length
counter, the triangle's linear counter, an envelope, a sweep, the noise's shift
register, VRC6's saw. `unit` says which one a behaviour is about. The length
counter is composed with the whole frame counter (`Sequenced` tells it of a half
frame in the cycle that makes one), because when a note ends depends on the
`$4017` writes; MMC5's length counters run on a divider of their own. The other
units are clocked whenever they like. `level_clocks` and `steady_rate` are history,
for the closed forms that the envelope and the saw are compared with.

### Instructions: `Cpu`

`Table` is `decode` of `opcodes.rs`, `ResolveAddr` and `Execute` are the functions
of the same names, one disjunct per addressing mode and kind of instruction;
`Fetch`, `Target`, `Idle` and the interrupt polls are the rest of `Cpu::step`.
Bytes and addresses have their real width. What a read finds is any value of the
program's set, unless it is in the RAM and the CPU has written there: `ram` holds
those of its 2,048 bytes, `Cell` is the mirroring, so memory need not be laid out.
`consumed` counts bus accesses, each of which is one `Bus::tick`. The flags are a
set; `Bits` and `FromBits` are their conversion from and to a byte, and `And`, `Or`
and `Xor` work on the bits by the same names.

`depth` and `frames` are history: how much has been pushed, and the calls and
handlers that have not returned, with where and with which flags they should. The
stack has one page: what is pushed beyond 256 bytes takes the place of the oldest,
and a frame that lost a byte leaves `frames`, as does every frame when the program
stores into the stack page or moves the stack pointer (`TXS`).

### Machine loop: `PpuTiming`, `NesLoop`

`PpuTiming` is `Ppu::tick` without pixels. `NesLoop` is the frame loop with
`Cpu::step`, `Cpu::nmi`, `Cpu::irq` and `Bus::do_dma`: `at` is the program
counter of the emulator itself, `left` what remains to be done there. An
instruction is a number of bus accesses, at most one register it is about
(several accesses to it are possible, as read-modify-write instructions do), a
target number of cycles, and a new interrupt flag. Each cycle may be followed
by stolen ones, in which more may be stolen; while the instruction executes these
shorten its idle cycles, as `consumed` in `Cpu::step` does. The IRQ line is free to change in every
cycle: it is the disjunction of three sources that other modules describe.

### Scrolling: `Scroll`

`vram_addr` and `temp_vram_addr` are the registers as records of their fields;
`Number` and `AddressOf` go between a record and the number, for `$2006`, which
writes bytes, and `$2007`, which adds. `Tick` is `Ppu::tick` with the part of
`render_pixel` that steps the line's address. The registers' actions carry the
names of the methods. `anchor`, `settled` and `told` are history: the row of the
picture the frame went on from last, whether the registers have been left alone
since the last horizontal copy, and how much of an address the program has
written. `restore_state` gives the three fields that a state leaves out any
value: the machine it is loaded into has drawn something else.

### Cartridge: `Cartridge`, `Mmc3Irq`, `Vrc6Irq`, `Fme7Irq`, `Mmc5Irq`, `Banks`

`Cartridge` is the `Box<dyn Mapper>`: one of the boards is in the slot,
`Cartridge::tick_*` clocks it and `cpu_write` reaches it.

Each counter's module holds the fields `irq_*` of its mapper, its clock
(`tick_scanline` or `tick_cpu`) and one action per register. `IntervalTimer` says
what three of them promise: after how many clocks an interrupt comes, and what the
program may change about that. The boards map to it differently: MMC3 counts
down and reloads when it is at 0 (`Left`), VRC6 counts up, FME-7 counts down
through 0 and is written directly. In `Vrc6Irq`, `cycles` and `clocks` are
history: what the prescaler has counted and given since they were last in step,
which is once in 341 cycles. FME-7's command register is folded into the writes
it selects. MMC5 has no such clock: it guesses where a frame begins from 120
cycles without a pattern read, and `Mmc5Irq` runs it against the beam.

`Banks` has all ten boards: `reg` are a board's registers, `PrgPage` and `ChrPage`
the page that a window of the address space shows. A window is one of four of
8 KB, or one of eight of 1 KB; bytes are left out. The ROM has any size that the two
bytes of a header can give, 0 included, and a window whose offset leaves it shows a page
outside of it, where the code panics; `Nothing` is the `None` or 0 of a board that looks
first whether there is a ROM. `slot` is the board's part of a
state's file, with exactly the fields that each board saves.

### Audio: `LocalAudio`, `RemoteAudio`

Samples are numbered as the APU makes them; the numbers stand for the values.
Every step of `LocalAudio` is what a thread does while it holds the queue's
mutex, so the interleavings are those of the two threads. `at` follows
`run_emulation` through a frame; `Sleep` is the pacing loop that looks again.
In `RemoteAudio` the variables are the places a sample passes through: the
bounded channel, the batch the sender thread has in hand, the socket, the chunk
the listener is filling and its queue. The connection may break at any time,
with any part of what was under way lost, and either process may end.
`SampleStream` is what both promise.

`Host` runs the audio or the keys: no field is shared.

### Keys and joypad: `KeyInput`, `Joypad`

`held` and `repeating` are the keyboard, `events` the terminal's queue,
`timers` and `pressed` the emulator's state. Between two frames `handle_input`
takes the events one by one (`Take`), `Poll` ends it and `TickFrame` runs the
timers. The terminal (external) repeats only the key pressed last, and no more
than `RepeatFrames` frames pass without a report of it: that is the assumption
behind `HOLD_FRAMES`, stated as `HoldAssumption`. `heard` and `unsettled` are
history: what the emulator can know about a key. `Joypad` is the other end: the
program strobes and reads, at any place, while frames end and states are loaded
(`since`).

### Battery-backed RAM: `WorkRam`

`bus_ram` is `Bus::prg_ram`, `own_ram` that of the board, `gate` the registers with
which FME-7 and MMC5 hide or protect theirs. `state` and `sav` are the two files;
while one is being written it is torn, and `Crash` may come then. `ideal` is the
RAM as the program knows it. The order of a start (`.sav`, then `.state`) and of
the end (`.state`, then `.sav`) are those of `run_emulation`. `SaveStates` runs this
module, `Joypad` or `DmcSaveState`: what a program finds after a load.

## 4. What is checked

Each property is stated in words above its definition. The type invariants
(`TypeOK`) are proved with the properties that rest on them (section 5); TLC
would report a value outside of the others as an undefined operation or as a
violation of the properties that depend on it.

| Run | Shows | Bounds |
|---|---|---|
| `dmc` | request handshake, interrupt, recursion depth, refinement of `SampleReader`, progress, settling | 2-bit bytes, 8 addresses of which 4 are ROM, samples of 1 and 3 bytes starting so that they wrap, periods 1 and 2, `DmaTicks` = 3 as in the code |
| `dmc_request_lost` | violation, see section 6 | one-bit bytes, 2 ROM bytes, one stolen cycle |
| `apu` | overtaking `$4017` writes, clocks, interrupts; silence, notes that end, envelope, sweep, noise and saw | steps at 6, 11, 16, 21-25, 28; lengths 2 and 4; the periods, shifts and rates on both sides of every limit |
| `four_step_clocks` | violation, see section 6 | as `apu` |
| `nes_loop` | NMI, IRQ, DMA and frame accounting, frames recur, interrupts are served | 6 scanlines of 8 cycles, of which 4 are vertical blank, instructions of up to 2 accesses and 2 cycles, 2-cycle interrupt sequences, 1-byte DMA, 1 stolen cycle per turn of the loop |
| `ppu` | what a line is fetched from, whole addresses through the shared latch | tiles of 2 by 2 pixels, nametables of 2 by 3 tiles with a field for 4 rows, 4 of 6 lines visible, vertical bits copied in 2 cycles behind an idle one, 2 accesses (and any number of `$2002`) at two cycles of a line, one while pixels are drawn and one between those copies |
| `cartridge` | three boards implement `IntervalTimer`, MMC5's interrupt once a frame, where banks leave the ROM, MMC1's registers, loaded boards show what they showed | MMC3 latch up to 4, VRC6 counter of 2 bits, 8 dots in a line and 3 in a cycle, FME-7 bytes of 6 values, 6 lines of 3 cycles and a silence of 4; ROMs of 0 to 300 pages (`MCRomSizes`), 3 writes (10 for MMC1), 2 of them before a save |
| `cpu` | accesses fit the table's cycles, arithmetic, combined instructions, returns | single instructions on 0, 1, 127, 128 and 255 in every operand; programs of 4 calls, returns, pushes and interrupts with the stack pointer at 1 and 253; 90 `BRK`s, of 3 bytes each |
| `host` | keys: timers against repetition, exactness with release events, no stuck button; sound: order, latency, progress; the stream: refinement of `SampleStream`, no deadlock between chunks and batches | 2 keys, 2 waiting events, a timer of 3 frames, a repetition of 1; target 5 samples, frames of 2 or 3, callbacks of 1 or 4; a channel of 2 batches, chunks longer than a batch, a socket smaller than a chunk |
| `audio_underrun` | violation, see section 6 | as `host` |
| `save_states` | which channel states may be saved and loaded safely; one RAM through quits, crashes and loads; eight reads in order | as `dmc_request_lost`; one address, 3 values; 3 buttons |
| `battery` | violation, see section 6 | as `save_states` |

Why the bounds are enough. In `dmc`, a sample of three bytes covers a first,
a middle and a last byte and the wrap of the address; the periods are chosen
just large enough for `RateAssumption` (a byte boundary at most once per
stolen stretch), so that reads nest inside the cycles stolen by others, the
worst case. The frame counter's steps are further apart than the longest
write delay (4), so a pending write can fall between any two of them and across
the end. In `nes_loop` the vertical blank has to outlast the longest stretch
without a poll (an interrupt sequence of each kind, a transfer and what is stolen
from them): that is `PaceAssumption`, and the instance meets it exactly, with 32 dots
of each. On the real machine the stretch is some 1,700 of 6,820 dots. One sample
read per turn is all that fits this instance: reads inside the cycles stolen by others are checked in `dmc`, and here the theorems
(section 5) cover them, which hold for every number of reads.

In `cartridge` 8 and 3 have no common factor, as 341 and 3 have none, so the
prescaler goes through every remainder. MMC5's silence is longer than a line and
shorter than vertical blank, as 120 cycles are. The ROM sizes are
one of each kind that the code's arithmetic tells apart: no PRG ROM at all; one 16 KB bank,
as the NROM of the repository's tests has; the 32 KB of most boards' windows, without CHR
ROM; five pages, as the ROM of `mapper_regressions.rs`; an odd number of 16 KB banks; and
more pages than a byte can name. 24 pages of CHR ROM are no power of two. An MMC1 register takes five writes, so ten are two
registers. In
`ppu` the screen is as wide as a nametable, as it is in the code, the field for
rows names one that a nametable does not have, and a byte of `$2006` splits the
fields in the middle. In `apu` each unit is a small machine and the values are the
limits of its comparisons (a period of 8, an 11-bit sum, shift 0), at real width.
In `cpu` a sum depends on the signs and carries of its operands, which the five
bytes give in every combination; with stack pointers 1 and 253 pushes wrap in both
directions, and 90 handlers push more than the page has: without the condition in
`Pushed` that drops overwritten frames TLC finds `BreakFlagTells` violated. In the audio part of `host` frames and callbacks are longer and shorter
than each other and the target is no multiple of them; in its keys the timer is the
shortest that `HoldAssumption` allows: with one frame less TLC finds
`ButtonsFollowKeys` violated. In `save_states` addresses do not interact, so
one is enough, and three values tell the initial one from two that were written.

Fairness. `Dmc` and `NesLoop` assume `WF_vars(Next)`, `FrameCounter` and `Apu` weak
fairness of their clocks: the frame loop runs bus cycles for ever and waits for
nothing (the pacing and rendering between frames are outside these models). No fairness is assumed of the program that runs on the CPU; where a
property needs it to leave a register alone, the property says so as a premise
(`<>[][Undisturbed]_vars => ...`).

`Cartridge` assumes that clocks keep coming. `LocalAudio` assumes that the
emulation thread is scheduled and a working device keeps calling; `RemoteAudio`
that the threads run and the network carries what it has; neither assumes when
a frame is ready. `KeyInput` assumes strong fairness of `Poll`, `TickFrame` and
the terminal's repetition, because keys keep arriving in between; that the
queue is drained faster than a hand fills it is a premise of `ButtonsComeUp`.

Deadlock is checked in every run but `host` and `audio_underrun`, where the player
quits and a connection that is gone leaves nothing to do, `cpu`, whose programs end,
and `cartridge`, where the bounded register writes do.

## 5. What is proved

| Module | Theorems |
|---|---|
| `Dmc_proofs` | `TypeCorrect`, `RequestsAreExact`, `AccessesFindNoRequest`, `InterruptMeansDrained`, `InterruptExactlyAtEnd`, `StallIsBounded`, `DmcImplementsReader` (initial condition and steps; progress is left to TLC) |
| `Apu_proofs` | of the frame counter `TypeCorrect`, `InhibitClears`, `LastWriteIsApplied`, `FiveStepSequence`, `InterruptComesAtEnd`; of the APU with its units `LastWriteIsHeard`, `FiveStepsAreHeard`, `OffIsSilent`, `LawsKept`, `MutedForGood` |
| `NesLoop_proofs` | `TypeCorrect`, `HandlersComeFirst`, `FramesReturned`, `HandlersInVblank`, `HandlersPerFrame` |
| `Scroll_proofs` | `PictureFollows`, `AddressIsWhole` |
| `Cartridge_proofs` | `TypeCorrect`, `SwitchingOffClears`, `CountersImplementTimer`, `OneInterruptInEachFrame`, `WindowsInsideRom`, `RegistersTakeFiveBits`, `LoadsShowSaved` |
| `Cpu_proofs` | `TypeCorrect`, `AccessesFit`, `ArithmeticExact`, `CombinedExact`, `EveryHandlerReturns` |
| `Host_proofs` | of the keys `ButtonsFollow`; of the sound `BoundedSound`, `StreamImplemented`, `LocalRefinement`, `RemoteRefinement` |
| `SaveStates_proofs` | `ButtonsInOrder`, `RamIsOne`, `CleanLoads`, `LoadsKeepTypes` |

Assumptions are those of the modules, and TLC evaluates them on every run:
sizes are natural numbers, samples start and end inside the address space, the
steps of the frame counter are in order, the beam has at least four cycles per
line, a key is held longer than the terminal takes to repeat it. Three of
them are used by some theorems only: `RateAssumption` (eight timer periods are
longer than the stolen cycles) by `StallIsBounded`; `PaceAssumption` (section 4)
by the three theorems of `NesLoop` about frames and blanks; `SpanAssumption` (`$2006`
has as many addresses as the scroll fields have values) by `AddressIsWhole`.

*Sample channel.* The inductive invariant is the conjunction of the type
invariant, `RequestExact`, `ServedBeforeAccess` and `IrqMeansDrained`.
`ServedBeforeAccess` is needed because `$4015` zeroes `current_length`
without looking at the request; the request is exact afterwards only because
none can be outstanding at an access. `StallIsBounded` needs more: `Distance`,
the number of cycles until the next byte boundary, bounds what can still be
owed after a nested read (`StallInv`).

*Refinement of the sample channel.* Every tick maps to one `Cycle` of
`SampleReader` (output step followed by reader step), every register write to
`Start`, `Stop`, `Acknowledge` or a stutter. The start of a sample in `SampleReader`
is restricted to the addresses and lengths that `$4012` and `$4013` can hold,
which is an invariant of the registers (`RegistersInv`).

*Frame counter.* `FiveStepClocks` speaks of the end of a sequence only; the
strengthening `FiveStepProgress` says for every cycle how many clocks there
have been. A step of the APU with its units is a step of the frame counter,
which carries the theorems over.

*Tone channels.* Each unit keeps an invariant of its own, and the steps of
the others leave it alone. `EnvelopeInv` writes the number of clocks since the
start as a linear function of level and divider, so that no induction over the
clocks is needed. `NoiseInv` is the range of the shift register: that it never empties
follows from the feedback of its two low bits. `SawInv` carries the ramp
from one step to the next. `SweepInv` is the range of a period; the powers
of two by which a sweep shifts are the sizes of sets of subsets, whose values the
library's theorems give.

*Machine loop.* `EntryInv`: between the entry of a handler and its first
instruction the interrupt flag is set, and the emulator is not executing an
instruction; `DueInv` ties the pending access to the instruction. The
theorems about time rest on a sum that no step increases: the position
of the beam plus three dots for each cycle of work left. `WorkInv` bounds that work at every
place of the loop. With it `FrameInv` says that a completed frame is returned before
the beam has gone far into the next one, and `BlankInv` that an NMI that is owed
is polled before the vertical blank it was raised in has ended.

*Scrolling.* Across (`LineInv`), the column a pixel is fetched from moves on a ring
of two nametables, in step with the beam since the columns were copied; two numbers
on the ring that agree modulo its size are the same (`Unique`). Down (`AnchorInv`),
the row of `v` is the anchor's row plus the lines since; behind the last pixel of a
line `v` is already the next one's (`LineOfV`). Neither survives an access in
the middle of a line, and `settled` and `anchor` say until when they hold. For the
address (`ToldInv`), the lemmas `RoundTrip` and `TwoBytes` show that the conversion
between a number and the fields loses nothing, by quotients and remainders.

*Interrupt counters.* Each board keeps an invariant of its own (`CountersInv`). `NoDrift`
relates products, so the arithmetic of a cycle of VRC6's prescaler is in a lemma
(`PrescalerStep`): at the end of 341 cycles the prescaler is back at 341 because a
multiple of 341 between 1 and 341 is 341 (`OneMultiple`). The type invariant rests on it:
that no more than three clocks fit is what bounds `clocks`. The refinement needs
that a switched-off counter has no request, on VRC6 and on MMC3, where `$E000`
clears it, and on FME-7, where a write of the control register does. The
counter of FME-7 is written a byte at a time, and stays a counter (`TwoBytes`).

*MMC5's frame detector.* `FrameEnds` and `RaisedOnLine` relate the guess to the
beam, so the invariant says for each cycle of a line what the detector knows
(`SteadyInv`): in the picture the number of the line it counts, in the blank how long it
has heard nothing, and that it is out of the frame before the blank ends. The reads
must stay away for longer than a line and for less than the blank; a line
takes more than two cycles, as with two TLC finds the interrupt on the wrong line.

*Banks.* `Fields` is the set of values each register of the board can hold, and `RegInv`
and `SlotInv` say that the registers and a saved state keep to it. For `InsideRom` each
board has a lemma from the fields to the page. `SizesAssumption` is no more than what two
bytes of a header can count, and the theorem is an equivalence: a window leaves the ROM in the
cases that `PrgFails` and `ChrFails` name (NROM, CNROM and UNROM without PRG ROM, CNROM
without CHR ROM, MMC1's 32 KB unit beginning with the last of an odd number of banks) and in
no other. A remainder stays below its divisor whatever the size, so most boards need
no more than that there is a ROM; where the code multiplies a remainder (16 KB and 32 KB
banks) what is left over when the ROM is divided into banks must be smaller than
a bank, and MMC1's unit is inside unless it begins with the last bank.
MMC1's shift register (`BitsInv`) holds, in its low places, the bits
sent since the last reset or register, in the order in which they were sent, and so does a
saved one. `SeenInv` evaluates the windows on the saved registers (`Saved`, an
instance of `Banks`) and on the present ones (`ViewNow`): a load cannot show anything
else because on no board do the windows of `View` depend on a field that is not saved.

*Instructions.* `Typed` is the type invariant: for each operation a lemma says that it
makes bytes of bytes, and that a status stays without BREAK and with UNUSED. `Staged` says for
each place of `Cpu::step` how many accesses there have been; with `TableFits`, which goes
through the table row by row (`Fits`: the reads of the mode and the accesses of the opcode are no
more than the cycles), it gives `AccessesFit`. For `ArithmeticExact` the bit test of the
overflow flag is turned into a comparison: bit 7 of a byte is its sign (`NegativeByte`), that of
an exclusive or says that the signs differ (`SignOfXor`), and a sum overflows when its sign
differs from that of both operands (`OverflowSigns`); SBC adds the complement
(`SubtractExact`). `CombinedExact` rests on one lemma: the zero and sign flags that the first
half leaves are not seen by the second (`ZeroAndSignForgotten`).

`EveryHandlerReturns` needs to know what is on the stack. `Framed` says of every frame that
its bytes lie where the stack pointer and `depth` place them, modulo the page (`CellOf`,
`Kept`). A push writes one cell, which is another one while there are fewer than 256
bytes above (`PushKeeps`); a pull moves the pointer only; a store beside the page
misses it (`StoredFramed`). A return then reads the bytes its entry pushed
(`TopIs`), and bytes and flags come back from them as they were (`BytesOfWord`,
`StatusComesBack`, from `FlagsOfBits`).

*Keys.* `QueueInv` says what the queue still has to tell: on a terminal with
release events the last word about a key agrees with the key, on one
without there are no releases. `HeardInv` and `TimerInv` say that the timer of the key
that repeats outlives the next report, which is where the hold assumption
is used.

*Audio.* `LocalInv`: a frame's samples are in one buffer or the other, and a frame is
begun only when the queue has drained to its target. `RemoteInv`: what a batch
and a chunk have in length. With them comes one lemma for each action, which says
which `Push`, `Take` or `Drop` of `SampleStream` it is. What `FlattenSeq`
makes of the channel is defined by recursion over its length, and
the library's induction cannot be instantiated; the lemmas about it take the
smallest length at which they would fail instead (`SmallestOf`, from the library's
well-founded orders).

*Save states.* `PadInv`: from a strobe on, reads and shift register move together.
`RamInv`: the copy that the program reads is the RAM as it knows it, and a
whole file says the same of the time it was written (`Agrees`).
`ChanInv`: unless a request was lost the channel keeps the invariant of `Dmc_proofs`,
and so does the one in the file (`Clean`).

Not proved, only model-checked: liveness (`ReaderProgress`, `PlaybackSettles`,
`InterruptsRecur`, `NotesEnd`, `FramesRecur`, `IrqServed`, `InputRecurs`,
`ButtonsComeUp`, `StreamDrains`), which is out of the prover's reach. Every safety
property and every action property of the passing runs is a theorem.

## 6. What was found

* A save state carries every field of the sample channel but `dma_request`.
  Saved between a `$4015` write and the next bus cycle, a sample never
  starts after loading (`NoRequestLost`); loaded into a machine whose own
  request is outstanding and which has no byte left, `current_length` is
  decremented at 0. `CleanLoadKeepsInvariants` shows that nothing else
  of the channel is lost.
* The 4-step sequence clocks a half frame in two consecutive cycles
  (`FourStepClocks`).
* The audio callback starts each time with a last sample of 0.0, so a callback
  that finds the queue empty plays silence, which the comment above it means
  to avoid (`HoldsLastSample`).
* On a board with RAM of its own (MMC1, MMC3, VRC6, FME-7, MMC5) the `.sav` file is
  loaded into the Bus's copy, which the board's hides: the game starts without its
  save (`GameFindsItsSave`). Only MMC1 and MMC3 put their RAM into a state.
  `OneRam` shows that nothing else is wrong with the two copies.
* A crash while a file is written leaves it torn, and the previous one is gone;
  `Whole` keeps a torn file from being loaded. With `--autoresume`, a state
  saved earlier hides a newer `.sav` file.
* The comment at `ppu/mod.rs:264` says that mid-frame writes of `$2005` show only
  after the next copy; the fine part of the first write shows at once.
* `tests/joypad_tests.rs` strobes "again to latch the new state", but reads look at
  the buttons as they are; `ReadsInOrder` has the premise that no frame ends in
  between.
* MMC5's state leaves out `need_in_frame`, `ppu_idle`, the CHR registers and the
  nametable mapping; `LoadShowsSaved` excepts them. Its silence is 120 cycles where
  the comment in `mmc5.rs` speaks of 3. `Bus::peek` of `$5204` acknowledges its
  interrupt although `bus/mod.rs:163` says that peek has no side effects.
* MMC1's 32 KB modes mask the low bit of the bank number and then reduce it by the number
  of 16 KB banks; when that is odd the unit can begin with the last bank, and
  reading the bank behind it indexes outside of the ROM and panics, where the other two modes
  of `mmc1.rs` wrap. With three banks, register value 8 is enough (8 % 3 = 2);
  `PrgFails` is the exact condition.
* The loader takes headers that count no banks. Without PRG ROM, NROM and CNROM divide by
  zero and UNROM indexes an empty ROM at the first read; without CHR ROM, CNROM does
  (`cnrom.rs:49`). The other seven boards have a branch for a PRG ROM without pages; MMC2
  reads a 0 where there is no CHR ROM, and the rest have CHR RAM then. `InsideRom` names
  exactly the cases that fail.
* VRC6's saw adds its rate seven times in a ramp (`vrc6.rs:118`: at the steps 1, 3, .. 13
  of fourteen), once more than the real chip does before the reset, so ramps wrap
  from a rate of 37 on, and not of 43. Nothing in the repository says otherwise;
  `SawClimbs` states what the code does.
* With `--trace`, or when no output could be opened, nobody drains the samples
  that the APU keeps making.
* When the audio device stops, the pacing loop waits for it for ever: no frame
  is shown and no key handled. `InputRecurs` has the premise that excludes it.
* A button that was down when a state was saved is down, without a timer, when
  it is loaded, and stays down on a terminal without release events until its
  key is pressed again. `ButtonsComeUp` excepts it. Of two keys held together on
  such a terminal the first is released by its timer, because terminals repeat
  only the key pressed last.
* `$4010` reloads the channel's timer, so a program that writes it often
  enough stops playback; `PlaybackSettles` needs the premise that excludes it.
* A sprite DMA may run across the end of a frame: the frame is then shown
  when the first lines of the next one are already drawn. `NoFrameLost` bounds
  the effect to less than a frame.

## 7. What is not modelled

Floating point (mixer, filters, resampling); pixels, sprites, OAM and palettes; the
wave forms and timers of the tone channels, except the parts that can stick or
wrap; MMC5's split screen, fill mode and multiplier; the iNES header; the trace
mode, the debugger and argument parsing; serialisation (`bincode`, external). These
are pure functions, or state that only they themselves read. The renderer compares
rows with the previous frame in one assignment each; what can break it (messages and
resizing on the same terminal) is outside of the program.

Panics that only a debug build has are left out: `ptr + 1` at `$FFFF` (`cpu/mod.rs:225`)
wraps, as it does in a release build.
