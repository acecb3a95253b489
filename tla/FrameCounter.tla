---------------------------- MODULE FrameCounter ----------------------------
(***************************************************************************)
(* The frame counter of the APU (src/src/apu/mod.rs): the sequencer that   *)
(* clocks the envelopes, length counters and sweeps, and raises the frame  *)
(* interrupt.                                                              *)
(*                                                                         *)
(* A $4017 write does not take effect at once: it is kept pending for 3 or *)
(* 4 cycles, during which the sequencer runs on in the old mode and may    *)
(* still raise the interrupt, another $4017 write may replace it, and a    *)
(* $4015 read may acknowledge the flag.                                    *)
(***************************************************************************)
EXTENDS Integers

CONSTANTS
    Step1,     \* 7457:  quarter frame
    Step2,     \* 14913: half frame
    Step3,     \* 22371: quarter frame
    IrqStart,  \* 29828: first cycle that raises the interrupt, 4-step mode
    Step5      \* 37281: half frame, 5-step mode

ASSUME StepAssumption ==
    /\ Step1 \in Nat \ {0} /\ Step2 \in Nat /\ Step3 \in Nat
    /\ IrqStart \in Nat /\ Step5 \in Nat
    /\ Step1 < Step2 /\ Step2 < Step3 /\ Step3 < IrqStart /\ Step3 < Step5

VARIABLES
    cycle,                 \* cycles since the sequence began
    mode,                  \* FALSE = 4-step, TRUE = 5-step
    irq_inhibit,
    frame_interrupt,
    pending_reset_cycles,  \* cycles until a $4017 write takes effect, or 0
    pending_mode,
    pending_irq_inhibit,
    odd,                   \* Bus::total_cycles is odd
    ticked,                \* a cycle has run since the last register access
    quarters,              \* history: quarter-frame clocks in this sequence
    halves                 \* history: half-frame clocks in this sequence

pending == <<pending_reset_cycles, pending_mode, pending_irq_inhibit>>
history == <<quarters, halves>>
vars == <<cycle, mode, irq_inhibit, frame_interrupt, pending, odd, ticked, history>>

Init ==
    /\ cycle = 0
    /\ mode = FALSE
    /\ irq_inhibit = TRUE
    /\ frame_interrupt = FALSE
    /\ pending_reset_cycles = 0
    /\ pending_mode = FALSE
    /\ pending_irq_inhibit = TRUE
    /\ odd = FALSE
    /\ ticked = FALSE
    /\ quarters = 0
    /\ halves = 0

-----------------------------------------------------------------------------
(* The sequence.  c is the cycle counter after its increment, m the mode.   *)

\* Cycles that raise the interrupt in 4-step mode.
IrqCycles == IrqStart .. IrqStart + 4

\* Mutant: the mode is not asked at the end of the 4-step sequence.
HalfFrameAtAnyMode(c, m) ==
    c \in {Step2, IrqStart + 1, IrqStart + 2} \/ (m /\ c = Step5)

HalfFrameAt(c, m) ==
    \/ c = Step2
    \/ ~m /\ c \in {IrqStart + 1, IrqStart + 2}
    \/ m /\ c = Step5

\* A half frame clocks what a quarter frame clocks, too.
QuarterFrameAt(c, m) == c \in {Step1, Step3} \/ HalfFrameAt(c, m)

\* Mutant: the 4-step sequence ends before its interrupt.
SequenceEndsEarly(c, m) == c = IF m THEN Step5 + 1 ELSE IrqStart - 1

SequenceEndsAt(c, m) ==
    IF m THEN c = Step5 + 1 ELSE c \in IrqCycles /\ c >= IrqStart + 2

Count(b) == IF b THEN 1 ELSE 0

\* One cycle in which the sequencer has mode m and inhibit flag inhibit, has
\* run c cycles before, and shows the interrupt flag as flag.  The history
\* counters start over with the sequence, from the half frame that entering
\* 5-step mode clocks at once (h = 1) or from 0.
Sequence(c, m, inhibit, flag, h) ==
    /\ mode' = m
    /\ irq_inhibit' = inhibit
    /\ cycle' = IF SequenceEndsAt(c + 1, m) THEN 0 ELSE c + 1
    /\ frame_interrupt' = (flag \/ (~m /\ ~inhibit /\ c + 1 \in IrqCycles))
    /\ quarters' = (IF c = 0 THEN h ELSE quarters) + Count(QuarterFrameAt(c + 1, m))
    /\ halves' = (IF c = 0 THEN h ELSE halves) + Count(HalfFrameAt(c + 1, m))
    /\ odd' = ~odd
    /\ ticked' = TRUE

\* A cycle in which no $4017 write takes effect.
PlainTick ==
    /\ pending_reset_cycles # 1
    /\ Sequence(cycle, mode, irq_inhibit, frame_interrupt, 0)
    /\ pending_reset_cycles' = IF pending_reset_cycles = 0 THEN 0
                               ELSE pending_reset_cycles - 1
    /\ UNCHANGED <<pending_mode, pending_irq_inhibit>>

\* Mutants of the next action: the inhibit bit does not come with the mode;
\* the cycle counter runs on into the new mode; a pending interrupt survives
\* being inhibited; the write takes effect again and again.
ResetTickModeOnly ==
    /\ pending_reset_cycles = 1
    /\ Sequence(0, pending_mode, irq_inhibit,
                frame_interrupt /\ ~irq_inhibit, Count(pending_mode))
    /\ pending_reset_cycles' = 0
    /\ UNCHANGED <<pending_mode, pending_irq_inhibit>>

ResetTickRunsOn ==
    /\ pending_reset_cycles = 1
    /\ Sequence(cycle, pending_mode, pending_irq_inhibit,
                frame_interrupt /\ ~pending_irq_inhibit, Count(pending_mode))
    /\ pending_reset_cycles' = 0
    /\ UNCHANGED <<pending_mode, pending_irq_inhibit>>

ResetTickKeepsFlag ==
    /\ pending_reset_cycles = 1
    /\ Sequence(0, pending_mode, pending_irq_inhibit, frame_interrupt,
                Count(pending_mode))
    /\ pending_reset_cycles' = 0
    /\ UNCHANGED <<pending_mode, pending_irq_inhibit>>

ResetTickRepeats ==
    /\ pending_reset_cycles = 1
    /\ Sequence(0, pending_mode, pending_irq_inhibit,
                frame_interrupt /\ ~pending_irq_inhibit, Count(pending_mode))
    /\ UNCHANGED pending

\* The cycle in which one does: the sequence starts over in the new mode.
ResetTick ==
    /\ pending_reset_cycles = 1
    /\ Sequence(0, pending_mode, pending_irq_inhibit,
                frame_interrupt /\ ~pending_irq_inhibit, Count(pending_mode))
    /\ pending_reset_cycles' = 0
    /\ UNCHANGED <<pending_mode, pending_irq_inhibit>>

Tick == PlainTick \/ ResetTick

\* $4017 write: bit 7 is m, bit 6 is inhibit.
WriteFrameCounter(m, inhibit) ==
    /\ ticked
    /\ ticked' = FALSE
    /\ pending_mode' = m
    /\ pending_irq_inhibit' = inhibit
    /\ pending_reset_cycles' = IF odd THEN 3 ELSE 4
    /\ UNCHANGED <<cycle, mode, irq_inhibit, frame_interrupt, odd, history>>

\* $4015 read: acknowledges the interrupt.
ReadStatus ==
    /\ ticked
    /\ ticked' = FALSE
    /\ frame_interrupt' = FALSE
    /\ UNCHANGED <<cycle, mode, irq_inhibit, pending, odd, history>>

Write == \E m, inhibit \in BOOLEAN : WriteFrameCounter(m, inhibit)

Next == Tick \/ Write \/ ReadStatus

\* Every bus access begins with a cycle, so cycles never cease.
Spec == Init /\ [][Next]_vars /\ WF_vars(Tick)

-----------------------------------------------------------------------------

SequenceLength(m) == IF m THEN Step5 + 1 ELSE IrqStart + 2

\* The type invariant.  The cycle counter stays inside the sequence of the
\* mode it runs in: the code only compares it with the listed cycles, so a
\* counter that got past them (by a mode change without a reset, say) would
\* never clock a channel or raise an interrupt again.
TypeOK ==
    /\ cycle \in Nat /\ cycle < SequenceLength(mode)
    /\ mode \in BOOLEAN /\ irq_inhibit \in BOOLEAN
    /\ frame_interrupt \in BOOLEAN
    /\ pending_reset_cycles \in 0 .. 4
    /\ pending_mode \in BOOLEAN /\ pending_irq_inhibit \in BOOLEAN
    /\ odd \in BOOLEAN /\ ticked \in BOOLEAN
    /\ quarters \in Nat /\ halves \in Nat

\* An inhibited interrupt is not pending either, however the inhibit bit's
\* arrival falls against the three cycles that raise the flag.
InhibitedMeansClear == irq_inhibit => ~frame_interrupt

\* When no $4017 write is pending the sequencer runs as the last one said,
\* even if that one overtook another.
LastWriteWins ==
    pending_reset_cycles = 0 => /\ mode = pending_mode
                                /\ irq_inhibit = pending_irq_inhibit

\* In 5-step mode the channels are clocked as apu/mod.rs says ("half-frame at
\* 14913 and 37281"): two half frames in a sequence, a third at its start if
\* it was started by a $4017 write, and four or five quarter frames.
FiveStepClocks ==
    (mode /\ cycle = 0) => halves \in {2, 3} /\ quarters = halves + 2

\* The interrupt is raised only in 4-step mode, at the end of its sequence,
\* and never while inhibited ("5-step mode should never generate IRQs").
InterruptOnlyAtEnd ==
    [][ (~frame_interrupt /\ frame_interrupt')
          => /\ ~mode' /\ ~irq_inhibit'
             /\ cycle' = 0 \/ cycle' >= IrqStart ]_vars

\* A program that leaves $4017 alone in 4-step mode is interrupted for ever:
\* acknowledging one interrupt never costs it the next.
Quiet == pending_reset_cycles' <= pending_reset_cycles

InterruptsRecur ==
    <>[][Quiet]_vars => []<>(mode \/ irq_inhibit \/ frame_interrupt)

\* And in either mode its channels keep being clocked.
HalfFramesRecur ==
    <>[][Quiet]_vars => []<>(cycle = Step2)

-----------------------------------------------------------------------------

\* A 4-step sequence has four steps ("false = 4-step, true = 5-step").  It
\* does not hold: cycles 29829 and 29830 both clock a half frame.
FourStepClocks ==
    (~mode /\ cycle = 0 /\ quarters > 0) => quarters = 4 /\ halves = 2

=============================================================================
