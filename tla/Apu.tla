-------------------------------- MODULE Apu --------------------------------
(***************************************************************************)
(* The tone channels (apu/pulse.rs, triangle.rs, noise.rs) and the frame   *)
(* counter that clocks them, with the channels of the cartridges that have *)
(* their own (cartridge/mapper/mmc5.rs, vrc6.rs).                          *)
(*                                                                         *)
(* A channel is put together from units that share no register but the     *)
(* halt bit, so units are followed apart.  The length counter runs on the  *)
(* clocks of the frame counter; the other units on clocks that come when   *)
(* they like.  Wave forms, mixing and filters are left out.                *)
(***************************************************************************)
EXTENDS FrameCounter

CONSTANTS
    Lengths,              \* LENGTH_TABLE
    Volumes,              \* envelope periods
    LowBytes, HighBits,   \* of a pulse's period
    Shifts, SweepPeriods,
    LinearLoads,
    Rates                 \* of Vrc6's saw

ASSUME UnitsAssumption ==
    /\ Lengths \subseteq 1 .. 254 /\ Volumes \subseteq 0 .. 15
    /\ LowBytes \subseteq 0 .. 255 /\ HighBits \subseteq 0 .. 7
    /\ Shifts \subseteq 0 .. 7 /\ SweepPeriods \subseteq 0 .. 7
    /\ LinearLoads \subseteq 0 .. 127 /\ Rates \subseteq 0 .. 63

VARIABLES
    unit,
    enabled, length_counter, length_halt,
    linear,          \* linear_counter, its reload value and flag
    audio_frame_step,\* Mmc5's own sequencer
    envelope,
    level_clocks,    \* history: clocks since the envelope started, or -1 once
                     \* the program has changed what it counts by
    sweep,           \* with timer_period, which it changes
    noise,           \* mode and shift_register
    saw,
    steady_rate      \* history: the rate has not changed in this ramp

counter == <<cycle, mode, irq_inhibit, frame_interrupt, pending, odd, ticked, history>>
length == <<enabled, length_counter, length_halt>>
tones == <<length, linear, audio_frame_step, envelope, level_clocks, sweep, noise, saw, steady_rate>>
apu_vars == <<unit, counter, tones>>

ApuInit ==
    /\ Init
    /\ unit \in {"Length", "Triangle", "Mmc5", "Envelope", "Sweep", "Noise", "Saw"}
    /\ enabled = FALSE /\ length_counter = 0 /\ length_halt = FALSE
    /\ linear = [counter |-> 0, reload |-> 0, flag |-> FALSE]
    /\ audio_frame_step = 0
    /\ envelope = [start |-> FALSE, divider |-> 0, decay |-> 0, volume |-> 0]
    /\ level_clocks = -1
    /\ sweep \in [is_channel_1 : BOOLEAN, timer_period : {0}, enabled : {FALSE}, period : {0},
                  negate : {FALSE}, shift : {0}, divider : {0}, reload : {FALSE}]
    /\ unit # "Sweep" => sweep.is_channel_1
    /\ noise = [mode |-> FALSE, shift_register |-> 1]
    /\ saw = [step |-> 0, accumulator |-> 0, rate |-> 0]
    /\ steady_rate = TRUE

-----------------------------------------------------------------------------
(* Length counters, of every channel.                                       *)

\* Mutant: a length counter stops at one.
LengthClockedToOne == IF ~length_halt /\ length_counter > 1 THEN length_counter - 1 ELSE length_counter

LengthClocked == IF ~length_halt /\ length_counter > 0 THEN length_counter - 1 ELSE length_counter

ClockLength ==
    /\ length_counter' = LengthClocked
    /\ UNCHANGED <<enabled, length_halt>>

\* Mutant: a channel that is switched off takes a length, too.
LoadedAlways(n) == n

\* Register 3 loads the length counter of a channel that is on.
Loaded(n) == IF enabled THEN n ELSE length_counter

\* Mutant: switching a channel off leaves its counter.
SetEnabledOnly(on) ==
    /\ enabled' = on
    /\ UNCHANGED <<length_counter, length_halt, linear>>

\* $4015, and $5015 for Mmc5.
SetEnabled(on) ==
    /\ enabled' = on
    /\ length_counter' = IF on THEN length_counter ELSE 0
    /\ UNCHANGED <<length_halt, linear>>

WriteLength(n) ==
    /\ length_counter' = Loaded(n)
    /\ linear' = [linear EXCEPT !.flag = @ \/ unit = "Triangle"]
    /\ UNCHANGED <<enabled, length_halt>>

WriteHalt(halt, load) ==
    /\ length_halt' = halt
    /\ linear' = [linear EXCEPT !.reload = load]
    /\ UNCHANGED <<enabled, length_counter>>

ClockLinear ==
    linear' = [linear EXCEPT !.counter = IF linear.flag THEN linear.reload
                                         ELSE IF @ > 0 THEN @ - 1 ELSE 0,
                             !.flag = @ /\ length_halt]

WriteLengthUnit ==
    /\ \/ \E on \in BOOLEAN : SetEnabled(on)
       \/ \E n \in Lengths : WriteLength(n)
       \/ \E halt \in BOOLEAN, load \in IF unit = "Triangle" THEN LinearLoads ELSE {0} :
             WriteHalt(halt, load)
    /\ UNCHANGED <<audio_frame_step, envelope, level_clocks, sweep, noise, saw, steady_rate>>

-----------------------------------------------------------------------------
(* Apu::tick on the length counter.                                         *)

Sequenced == IF pending_reset_cycles = 1 THEN 0 ELSE cycle

HalfFrameNow ==
    \/ pending_reset_cycles = 1 /\ pending_mode
    \/ HalfFrameAt(Sequenced + 1, mode')

TickLength ==
    /\ unit = "Length"
    /\ Tick
    /\ IF HalfFrameNow THEN ClockLength ELSE UNCHANGED length
    /\ UNCHANGED <<unit, linear, audio_frame_step, envelope, level_clocks, sweep, noise, saw,
                   steady_rate>>

\* The frame counter's registers.
WriteCounter ==
    /\ unit = "Length"
    /\ Write \/ ReadStatus
    /\ UNCHANGED <<unit, tones>>

\* A register access of the channel comes between two cycles.
WriteTone ==
    /\ unit = "Length" /\ ticked
    /\ ticked' = FALSE
    /\ WriteLengthUnit
    /\ UNCHANGED <<unit, cycle, mode, irq_inhibit, frame_interrupt, pending, odd, history>>

-----------------------------------------------------------------------------
(* The other units.                                                         *)

\* A half frame clocks both counters of the triangle, a quarter frame one.
ClockTriangle ==
    /\ unit = "Triangle"
    /\ ClockLinear
    /\ ClockLength \/ UNCHANGED length
    /\ UNCHANGED <<audio_frame_step, envelope, level_clocks, sweep, noise, saw, steady_rate>>

\* Mmc5 counts quarter frames of its own.
ClockMmc5 ==
    /\ unit = "Mmc5"
    /\ audio_frame_step' = (audio_frame_step + 1) % 4
    /\ IF audio_frame_step \in {1, 3} THEN ClockLength ELSE UNCHANGED length
    /\ UNCHANGED <<linear, envelope, level_clocks, sweep, noise, saw, steady_rate>>

\* Mutant: an envelope starts with its divider where it was.
StartedAnywhere(e) == [e EXCEPT !.start = FALSE, !.decay = 15]

Started(e) == [e EXCEPT !.start = FALSE, !.decay = 15, !.divider = e.volume]

EnvelopeClocked(e) ==
    IF e.start THEN Started(e)
    ELSE IF e.divider > 0 THEN [e EXCEPT !.divider = @ - 1]
    ELSE [e EXCEPT !.divider = e.volume,
                   !.decay = IF @ > 0 THEN @ - 1 ELSE IF length_halt THEN 15 ELSE 0]

ClockEnvelope ==
    /\ unit = "Envelope"
    /\ envelope' = EnvelopeClocked(envelope)
    /\ level_clocks' = IF envelope.start THEN 0
                       ELSE IF level_clocks = -1 \/ envelope'.decay > envelope.decay THEN -1
                       ELSE IF level_clocks < 15 * (envelope.volume + 1) THEN level_clocks + 1
                       ELSE level_clocks
    /\ UNCHANGED <<length, linear, audio_frame_step, sweep, noise, saw, steady_rate>>

\* Registers 0 and 3.
WriteEnvelope ==
    /\ unit = "Envelope"
    /\ \/ /\ \E halt \in BOOLEAN, volume \in Volumes :
                /\ length_halt' = halt
                /\ envelope' = [envelope EXCEPT !.volume = volume]
          /\ level_clocks' = IF envelope'.volume = envelope.volume THEN level_clocks ELSE -1
       \/ /\ envelope' = [envelope EXCEPT !.start = TRUE]
          /\ UNCHANGED <<length_halt, level_clocks>>
    /\ UNCHANGED <<enabled, length_counter, linear, audio_frame_step, sweep, noise, saw, steady_rate>>

-----------------------------------------------------------------------------

\* sweep_target_period, in 16 bits.  The first channel subtracts one more.
SweepTarget(s) ==
    LET amount == s.timer_period \div (2 ^ s.shift)
        change == IF ~s.negate THEN amount
                  ELSE IF s.is_channel_1 THEN -amount - 1 ELSE -amount
    IN  (s.timer_period + change) % 65536

Muted(s) == s.timer_period < 8 \/ SweepTarget(s) > 2047

\* Mutant: a target beyond eleven bits is taken.
SweepMovesAnyway(s) ==
    s.divider = 0 /\ s.enabled /\ s.shift > 0 /\ s.timer_period >= 8

SweepMoves(s) ==
    s.divider = 0 /\ s.enabled /\ s.shift > 0 /\ s.timer_period >= 8 /\ SweepTarget(s) <= 2047

ClockSweep ==
    /\ unit = "Sweep"
    /\ sweep' = [sweep EXCEPT
                   !.timer_period = IF SweepMoves(sweep) THEN SweepTarget(sweep) ELSE @,
                   !.divider = IF @ = 0 \/ sweep.reload THEN sweep.period ELSE @ - 1,
                   !.reload = @ /\ ~(sweep.divider = 0 \/ @)]
    /\ UNCHANGED <<length, linear, audio_frame_step, envelope, level_clocks, noise, saw, steady_rate>>

\* Registers 1, 2 and 3.
WriteSweep ==
    /\ unit = "Sweep"
    /\ \/ \E on, negate \in BOOLEAN, period \in SweepPeriods, shift \in Shifts :
             sweep' = [sweep EXCEPT !.enabled = on, !.negate = negate, !.period = period,
                                    !.shift = shift, !.reload = TRUE]
       \/ \E low \in LowBytes : sweep' = [sweep EXCEPT !.timer_period = @ - (@ % 256) + low]
       \/ \E high \in HighBits : sweep' = [sweep EXCEPT !.timer_period = (@ % 256) + 256 * high]
    /\ UNCHANGED <<length, linear, audio_frame_step, envelope, level_clocks, noise, saw, steady_rate>>

-----------------------------------------------------------------------------

TopBit == 16384  \* The highest of fifteen bits.

ShiftBit(reg, n) == (reg \div (2 ^ n)) % 2

\* Mutant: both taps must be set.
FeedbackAnd(n) == ShiftBit(n.shift_register, 0) * ShiftBit(n.shift_register, IF n.mode THEN 6 ELSE 1)

Feedback(n) ==
    (ShiftBit(n.shift_register, 0) + ShiftBit(n.shift_register, IF n.mode THEN 6 ELSE 1)) % 2

\* The timer of the noise channel has run down.
ClockNoise ==
    /\ unit = "Noise"
    /\ noise' = [noise EXCEPT !.shift_register = (@ \div 2) + TopBit * Feedback(noise)]
    /\ UNCHANGED <<length, linear, audio_frame_step, envelope, level_clocks, sweep, saw, steady_rate>>

WriteNoise ==
    /\ unit = "Noise"
    /\ noise' = [noise EXCEPT !.mode = ~@]
    /\ UNCHANGED <<length, linear, audio_frame_step, envelope, level_clocks, sweep, saw, steady_rate>>

\* Mutant: the rate is added at every step.
SteppedTwice(s) ==
    LET step == (s.step + 1) % 14
    IN  [s EXCEPT !.step = step,
                  !.accumulator = IF step = 0 THEN 0 ELSE (@ + s.rate) % 256]

\* Vrc6Saw::clock: of fourteen steps 1, 3, .. 13 add the rate, step 0 starts again
\* from 0.
Stepped(s) ==
    LET step == (s.step + 1) % 14
    IN  [s EXCEPT !.step = step,
                  !.accumulator = IF step = 0 THEN 0
                                  ELSE IF step % 2 = 1 THEN (@ + s.rate) % 256 ELSE @]

ClockSaw ==
    /\ unit = "Saw"
    /\ saw' = Stepped(saw)
    /\ steady_rate' = (steady_rate \/ saw'.step = 0)
    /\ UNCHANGED <<length, linear, audio_frame_step, envelope, level_clocks, sweep, noise>>

WriteSaw ==
    /\ unit = "Saw"
    /\ \E rate \in Rates : saw' = [saw EXCEPT !.rate = rate]
    /\ steady_rate' = (saw.step = 0 \/ (steady_rate /\ saw'.rate = saw.rate))
    /\ UNCHANGED <<length, linear, audio_frame_step, envelope, level_clocks, sweep, noise>>

-----------------------------------------------------------------------------

ApuTick ==
    \/ TickLength
    \/ /\ ClockTriangle \/ ClockMmc5 \/ ClockEnvelope \/ ClockSweep \/ ClockNoise \/ ClockSaw
       /\ UNCHANGED <<unit, counter>>

ApuWrite ==
    \/ WriteCounter \/ WriteTone
    \/ /\ \/ unit \in {"Triangle", "Mmc5"} /\ WriteLengthUnit
          \/ WriteEnvelope \/ WriteSweep \/ WriteNoise \/ WriteSaw
       /\ UNCHANGED <<unit, counter>>

ApuNext == ApuTick \/ ApuWrite

\* Every bus access begins with a cycle, so cycles, and the clocks that they
\* count, never cease.
ApuSpec == ApuInit /\ [][ApuNext]_apu_vars /\ WF_apu_vars(ApuTick)

-----------------------------------------------------------------------------

\* A channel that is off has no length left, in whatever order $4015 and its
\* own registers are written: $4015 would report it as playing.
DisabledMeansSilent == enabled \/ length_counter = 0

Silent == length_counter = 0 \/ (unit = "Triangle" /\ linear.counter = 0)

\* A note that the program leaves alone ends, unless its length is halted.
\* (The triangle's linear counter alone ends it, too.)
NotesEnd == <>[][ApuTick]_apu_vars => <>[](length_halt \/ Silent)

\* An envelope falls by one level every volume + 1 clocks, from the clock that
\* starts it on: at each clock its level is what that says.
EnvelopeExact ==
    level_clocks >= 0 /\ ~envelope.start =>
      envelope.decay = 15 - level_clocks \div (envelope.volume + 1)

\* The noise never stops for want of a bit to shift.
NoiseGoesOn == noise.shift_register \in 1 .. 2 * TopBit - 1

\* A ramp of the saw starts from 0 every fourteen steps and climbs by seven
\* additions of its rate, the last of them in the step before the reset.  The
\* accumulator has eight bits, so from a rate of 37 on the ramp wraps.  (The
\* code adds once more than the six times of the real chip, where a rate of 42
\* still fits.)
SawClimbs ==
    steady_rate => saw.accumulator = (saw.rate * ((saw.step + 1) \div 2)) % 256

\* The units that shape a tone stay with these laws, however the program's
\* writes fall between their clocks (pulse.rs, noise.rs, vrc6.rs).
UnitsKeepTheirLaws == EnvelopeExact /\ NoiseGoesOn /\ SawClimbs

\* A pulse that its sweep has muted stays mute until the program writes one of
\* its registers: the period never comes round again.
SweepMutesForGood == [][ ClockSweep /\ Muted(sweep) => Muted(sweep') ]_apu_vars

=============================================================================
