----------------------------- MODULE Apu_proofs -----------------------------
(***************************************************************************)
(* Proofs about FrameCounter, for every position of the steps, and about   *)
(* the units of the tone channels, for every register value.               *)
(***************************************************************************)
EXTENDS Apu, FiniteSetTheorems, TLAPS

\* The half- and quarter-frame clocks of a 5-step sequence up to cycle c.
HalvesBy(c) ==
    IF c < Step2 THEN 0 ELSE IF c < Step5 THEN 1 ELSE 2
QuartersBy(c) ==
    IF c < Step1 THEN 0 ELSE IF c < Step2 THEN 1 ELSE IF c < Step3 THEN 2
    ELSE IF c < Step5 THEN 3 ELSE 4

\* Where a 5-step sequence stands follows from its cycle; the immediate half
\* frame of a $4017 write may come on top.
FiveStepProgress ==
    (mode /\ cycle > 0) =>
        \E h \in {0, 1} : /\ halves = h + HalvesBy(cycle)
                          /\ quarters = h + QuartersBy(cycle)

IInv ==
    /\ TypeOK
    /\ InhibitedMeansClear
    /\ LastWriteWins
    /\ FiveStepProgress
    /\ FiveStepClocks

LEMMA CountType == \A b \in BOOLEAN : Count(b) \in {0, 1}
  BY DEF Count

LEMMA HistoryType ==
    ASSUME NEW c \in Nat, NEW m \in BOOLEAN
    PROVE  /\ Count(HalfFrameAt(c, m)) \in {0, 1}
           /\ Count(QuarterFrameAt(c, m)) \in {0, 1}
           /\ Count(m) \in {0, 1}
  BY DEF Count

\* The counter's next value is inside the sequence whenever its last one was.
LEMMA CycleStaysInside ==
    ASSUME NEW c \in Nat, NEW m \in BOOLEAN, c < SequenceLength(m)
    PROVE  LET n == IF SequenceEndsAt(c + 1, m) THEN 0 ELSE c + 1
           IN  n \in Nat /\ n < SequenceLength(m)
  BY StepAssumption DEF SequenceLength, SequenceEndsAt, IrqCycles

\* One cycle of a 5-step sequence moves the history as HalvesBy and
\* QuartersBy say.
LEMMA FiveStepHistory ==
    ASSUME NEW c \in Nat, c < SequenceLength(TRUE)
    PROVE  /\ HalvesBy(c + 1)   = (IF c = 0 THEN 0 ELSE HalvesBy(c))
                                    + Count(HalfFrameAt(c + 1, TRUE))
           /\ QuartersBy(c + 1) = (IF c = 0 THEN 0 ELSE QuartersBy(c))
                                    + Count(QuarterFrameAt(c + 1, TRUE))
           /\ SequenceEndsAt(c + 1, TRUE) =>
                 HalvesBy(c + 1) = 2 /\ QuartersBy(c + 1) = 4
<1> DEFINE hf   == Count(HalfFrameAt(c + 1, TRUE))
           qf   == Count(QuarterFrameAt(c + 1, TRUE))
           ends == SequenceEndsAt(c + 1, TRUE)
<1>1. /\ Step1 \in Nat /\ Step1 > 0 /\ Step2 \in Nat /\ Step3 \in Nat /\ Step5 \in Nat
      /\ Step1 < Step2 /\ Step2 < Step3 /\ Step3 < Step5
  BY StepAssumption
<1>2. c < Step5 + 1
  BY DEF SequenceLength
<1>3. HalfFrameAt(c + 1, TRUE) <=> (c + 1 = Step2 \/ c + 1 = Step5)
  BY DEF HalfFrameAt
<1>4. QuarterFrameAt(c + 1, TRUE)
        <=> (c + 1 = Step1 \/ c + 1 = Step3 \/ c + 1 = Step2 \/ c + 1 = Step5)
  BY <1>3 DEF QuarterFrameAt
<1>5. ends <=> c = Step5
  BY <1>1 DEF SequenceEndsAt
<1> DEFINE Goal == /\ HalvesBy(c + 1)   = (IF c = 0 THEN 0 ELSE HalvesBy(c)) + hf
                   /\ QuartersBy(c + 1) = (IF c = 0 THEN 0 ELSE QuartersBy(c)) + qf
                   /\ ends => HalvesBy(c + 1) = 2 /\ QuartersBy(c + 1) = 4
<1> SUFFICES Goal
  OBVIOUS
<1>6. CASE c + 1 \in {Step2, Step5}
  <2>1. hf = 1 /\ qf = 1
    BY <1>3, <1>4, <1>6, Zenon DEF Count
  <2> HIDE DEF hf, qf, ends
  <2>2. QED
    BY <1>1, <1>2, <1>5, <1>6, <2>1 DEF HalvesBy, QuartersBy
<1>7. CASE c + 1 \in {Step1, Step3}
  <2>1. ~(c + 1 \in {Step2, Step5})
    BY <1>1, <1>7
  <2>2. hf = 0 /\ qf = 1
    BY <1>3, <1>4, <1>7, <2>1, Zenon DEF Count
  <2> HIDE DEF hf, qf, ends
  <2>3. QED
    BY <1>1, <1>2, <1>5, <1>7, <2>2 DEF HalvesBy, QuartersBy
<1>8. CASE ~(c + 1 \in {Step1, Step2, Step3, Step5})
  <2>1. hf = 0 /\ qf = 0
    BY <1>3, <1>4, <1>8, Zenon DEF Count
  <2> HIDE DEF hf, qf, ends
  <2>2. QED
    BY <1>1, <1>2, <1>5, <1>8, <2>1 DEF HalvesBy, QuartersBy
<1>9. QED
  BY <1>6, <1>7, <1>8

(***************************************************************************)
(* One cycle of the sequencer.                                             *)
(***************************************************************************)

\* The history fits a 5-step sequence that has run c cycles.
Fits(c) == \E h \in {0, 1} : halves = h + HalvesBy(c) /\ quarters = h + QuartersBy(c)

\* What a cycle needs to be told of the state it starts from to keep IInv:
\* it may be the state before it, or that state with a $4017 write applied.
LEMMA SequenceInv ==
    ASSUME TypeOK,
           NEW c \in Nat, NEW m \in BOOLEAN, NEW inhibit \in BOOLEAN,
           NEW flag \in BOOLEAN, NEW h \in {0, 1},
           c < SequenceLength(m), inhibit => ~flag, (m /\ c > 0) => Fits(c),
           Sequence(c, m, inhibit, flag, h)
    PROVE  /\ cycle' \in Nat /\ cycle' < SequenceLength(mode')
           /\ mode' \in BOOLEAN /\ irq_inhibit' \in BOOLEAN
           /\ frame_interrupt' \in BOOLEAN
           /\ odd' \in BOOLEAN /\ ticked' \in BOOLEAN
           /\ quarters' \in Nat /\ halves' \in Nat
           /\ InhibitedMeansClear'
           /\ FiveStepProgress'
           /\ FiveStepClocks'
<1> DEFINE hf   == Count(HalfFrameAt(c + 1, m))
           qf   == Count(QuarterFrameAt(c + 1, m))
           ends == SequenceEndsAt(c + 1, m)
<1>1. /\ mode' = m /\ irq_inhibit' = inhibit
      /\ odd' \in BOOLEAN /\ ticked' \in BOOLEAN /\ frame_interrupt' \in BOOLEAN
      /\ inhibit => frame_interrupt' = flag
  BY DEF Sequence
<1>2. cycle' \in Nat /\ cycle' < SequenceLength(mode')
  BY CycleStaysInside DEF Sequence
<1>3. /\ cycle' = IF ends THEN 0 ELSE c + 1
      /\ quarters' = (IF c = 0 THEN h ELSE quarters) + qf
      /\ halves' = (IF c = 0 THEN h ELSE halves) + hf
  BY DEF Sequence
<1>4. hf \in {0, 1} /\ qf \in {0, 1}
  BY Zenon DEF Count
<1>5. quarters' \in Nat /\ halves' \in Nat
  <2> HIDE DEF hf, qf
  <2>1. QED
    BY <1>3, <1>4 DEF TypeOK
<1>6. ASSUME m = TRUE
      PROVE  /\ \E g \in {0, 1} : /\ halves' = g + HalvesBy(c + 1)
                                 /\ quarters' = g + QuartersBy(c + 1)
             /\ ends => HalvesBy(c + 1) = 2 /\ QuartersBy(c + 1) = 4
  <2>1. /\ HalvesBy(c + 1) = (IF c = 0 THEN 0 ELSE HalvesBy(c)) + hf
        /\ QuartersBy(c + 1) = (IF c = 0 THEN 0 ELSE QuartersBy(c)) + qf
        /\ ends => HalvesBy(c + 1) = 2 /\ QuartersBy(c + 1) = 4
    BY <1>6, FiveStepHistory
  <2>2. HalvesBy(c) \in 0 .. 2 /\ QuartersBy(c) \in 0 .. 4
    BY DEF HalvesBy, QuartersBy
  <2> HIDE DEF hf, qf, ends
  <2>3. CASE c = 0
    BY <1>3, <1>4, <2>1, <2>3
  <2>4. CASE c # 0
    <3>1. Fits(c)
      BY <1>6, <2>4
    <3>2. PICK g \in {0, 1} : halves = g + HalvesBy(c) /\ quarters = g + QuartersBy(c)
      BY <3>1 DEF Fits
    <3>3. halves' = g + HalvesBy(c + 1) /\ quarters' = g + QuartersBy(c + 1)
      BY <1>3, <1>4, <2>1, <2>2, <2>4, <3>2
    <3>4. QED
      BY <2>1, <3>3
  <2>5. QED
    BY <2>3, <2>4
<1> HIDE DEF hf, qf, ends
<1>7. InhibitedMeansClear'
  BY <1>1 DEF InhibitedMeansClear
<1>8. FiveStepProgress'
  BY <1>1, <1>3, <1>6 DEF FiveStepProgress
<1>9. FiveStepClocks'
  <2> SUFFICES ASSUME mode', cycle' = 0
               PROVE  halves' \in {2, 3} /\ quarters' = halves' + 2
    BY DEF FiveStepClocks
  <2>1. m = TRUE /\ ends
    BY <1>1, <1>3
  <2>2. PICK g \in {0, 1} : /\ halves' = g + HalvesBy(c + 1)
                            /\ quarters' = g + QuartersBy(c + 1)
    BY <1>6, <2>1
  <2>3. QED
    BY <1>6, <2>1, <2>2
<1>10. QED
  BY <1>1, <1>2, <1>5, <1>7, <1>8, <1>9

LEMMA TickInv == IInv /\ Tick => IInv'
<1> SUFFICES ASSUME IInv, Tick PROVE IInv'
  OBVIOUS
<1>1. TypeOK /\ InhibitedMeansClear
  BY DEF IInv
<1>2. CASE PlainTick
  <2>1. Sequence(cycle, mode, irq_inhibit, frame_interrupt, 0)
    BY <1>2 DEF PlainTick
  <2>2. (mode /\ cycle > 0) => Fits(cycle)
    BY DEF IInv, FiveStepProgress, Fits
  <2>3. /\ cycle' \in Nat /\ cycle' < SequenceLength(mode')
        /\ mode' \in BOOLEAN /\ irq_inhibit' \in BOOLEAN
        /\ frame_interrupt' \in BOOLEAN
        /\ odd' \in BOOLEAN /\ ticked' \in BOOLEAN
        /\ quarters' \in Nat /\ halves' \in Nat
        /\ InhibitedMeansClear' /\ FiveStepProgress' /\ FiveStepClocks'
    BY <1>1, <2>1, <2>2, SequenceInv DEF TypeOK, InhibitedMeansClear
  <2>4. /\ pending_reset_cycles' \in 0 .. 4
        /\ pending_reset_cycles' = 0 => pending_reset_cycles = 0
    BY <1>1, <1>2 DEF PlainTick, TypeOK
  <2>5. pending_mode' = pending_mode /\ pending_irq_inhibit' = pending_irq_inhibit
    BY <1>2 DEF PlainTick
  <2>6. mode' = mode /\ irq_inhibit' = irq_inhibit
    BY <2>1 DEF Sequence
  <2>7. LastWriteWins'
    BY <2>4, <2>5, <2>6 DEF IInv, LastWriteWins
  <2>8. TypeOK'
    BY <1>1, <2>3, <2>4, <2>5 DEF TypeOK
  <2>9. QED
    BY <2>3, <2>7, <2>8 DEF IInv
<1>3. CASE ResetTick
  <2> DEFINE flag == frame_interrupt /\ ~pending_irq_inhibit
  <2>1. Sequence(0, pending_mode, pending_irq_inhibit, flag, Count(pending_mode))
    BY <1>3 DEF ResetTick
  <2>2. Count(pending_mode) \in {0, 1}
    BY Zenon DEF Count
  <2>3. flag \in BOOLEAN /\ (pending_irq_inhibit => ~flag)
    BY <1>1 DEF TypeOK
  <2>4. 0 < SequenceLength(pending_mode) /\ 0 \in Nat /\ ~(0 > 0)
    BY StepAssumption DEF SequenceLength
  <2>5. pending_mode \in BOOLEAN /\ pending_irq_inhibit \in BOOLEAN
    BY <1>1 DEF TypeOK
  <2> HIDE DEF flag
  <2>6. /\ cycle' \in Nat /\ cycle' < SequenceLength(mode')
        /\ mode' \in BOOLEAN /\ irq_inhibit' \in BOOLEAN
        /\ frame_interrupt' \in BOOLEAN
        /\ odd' \in BOOLEAN /\ ticked' \in BOOLEAN
        /\ quarters' \in Nat /\ halves' \in Nat
        /\ InhibitedMeansClear' /\ FiveStepProgress' /\ FiveStepClocks'
    BY <1>1, <2>1, <2>2, <2>3, <2>4, <2>5, SequenceInv
  <2>7. /\ pending_reset_cycles' = 0
        /\ pending_mode' = pending_mode /\ pending_irq_inhibit' = pending_irq_inhibit
    BY <1>3 DEF ResetTick
  <2>8. LastWriteWins'
    BY <2>1, <2>7 DEF LastWriteWins, Sequence
  <2>9. TypeOK'
    BY <2>5, <2>6, <2>7 DEF TypeOK
  <2>10. QED
    BY <2>6, <2>8, <2>9 DEF IInv
<1>4. QED
  BY <1>2, <1>3 DEF Tick

LEMMA AccessInv == IInv /\ (Write \/ ReadStatus) => IInv'
<1> SUFFICES ASSUME IInv, Write \/ ReadStatus PROVE IInv'
  OBVIOUS
<1>1. ASSUME NEW m \in BOOLEAN, NEW inhibit \in BOOLEAN, WriteFrameCounter(m, inhibit)
      PROVE  IInv'
  <2>1. /\ pending_reset_cycles' \in {3, 4}
        /\ UNCHANGED <<cycle, mode, irq_inhibit, frame_interrupt, odd, quarters, halves>>
        /\ pending_mode' = m /\ pending_irq_inhibit' = inhibit /\ ticked' = FALSE
    BY <1>1 DEF WriteFrameCounter, history
  <2>2. SequenceLength(mode)' = SequenceLength(mode)
    BY <2>1 DEF SequenceLength
  <2>3. /\ pending_reset_cycles' \in 0 .. 4
        /\ pending_reset_cycles' # 0
    BY <2>1
  <2>4. TypeOK'
    <3>1. ticked' \in BOOLEAN
      BY <2>1, Zenon
    <3>2. cycle' < SequenceLength(mode')
      BY <2>1, <2>2 DEF IInv, TypeOK
    <3>3. QED
      BY <2>1, <2>3, <3>1, <3>2, Zenon DEF IInv, TypeOK
  <2>5. InhibitedMeansClear'
    BY <2>1, Zenon DEF IInv, InhibitedMeansClear
  <2>6. LastWriteWins'
    BY <2>3, Zenon DEF LastWriteWins
  <2>7. FiveStepProgress' /\ FiveStepClocks'
    BY <2>1, Zenon DEF IInv, FiveStepProgress, FiveStepClocks
  <2>8. QED
    BY <2>4, <2>5, <2>6, <2>7 DEF IInv
<1>2. CASE ReadStatus
  BY <1>2 DEF ReadStatus, pending, history, IInv, TypeOK, InhibitedMeansClear,
              LastWriteWins, FiveStepProgress, FiveStepClocks
<1>3. QED
  BY <1>1, <1>2 DEF Write

LEMMA StepInv == IInv /\ [Next]_vars => IInv'
<1>1. IInv /\ UNCHANGED vars => IInv'
  BY DEF vars, pending, history, IInv, TypeOK, InhibitedMeansClear, LastWriteWins,
         FiveStepProgress, FiveStepClocks
<1>2. QED
  BY <1>1, TickInv, AccessInv DEF Next

LEMMA InitInv == Init => IInv
<1> SUFFICES ASSUME Init PROVE IInv
  OBVIOUS
<1>1. TypeOK
  <2>1. 0 \in Nat /\ 0 \in 0 .. 4 /\ 0 < SequenceLength(FALSE)
    BY StepAssumption DEF SequenceLength
  <2>2. QED
    BY <2>1, Zenon DEF Init, TypeOK
<1>2. QED
  BY <1>1 DEF Init, IInv, InhibitedMeansClear, LastWriteWins, FiveStepProgress,
              FiveStepClocks

THEOREM Invariance == Spec => []IInv
  BY InitInv, StepInv, PTL DEF Spec

\* The cycle counter never runs past the sequence it counts.
THEOREM TypeCorrect == Spec => []TypeOK
<1>1. IInv => TypeOK
  BY DEF IInv
<1>2. QED
  BY Invariance, <1>1, PTL

\* An inhibited interrupt is never pending.
THEOREM InhibitClears == Spec => []InhibitedMeansClear
<1>1. IInv => InhibitedMeansClear
  BY DEF IInv
<1>2. QED
  BY Invariance, <1>1, PTL

\* The sequencer settles on the last $4017 write.
THEOREM LastWriteIsApplied == Spec => []LastWriteWins
<1>1. IInv => LastWriteWins
  BY DEF IInv
<1>2. QED
  BY Invariance, <1>1, PTL

\* A 5-step sequence clocks two half frames, or three after a $4017 write.
THEOREM FiveStepSequence == Spec => []FiveStepClocks
<1>1. IInv => FiveStepClocks
  BY DEF IInv
<1>2. QED
  BY Invariance, <1>1, PTL

\* The interrupt comes only from the end of an uninhibited 4-step sequence.
RiseStep ==
    (~frame_interrupt /\ frame_interrupt')
      => /\ ~mode' /\ ~irq_inhibit'
         /\ cycle' = 0 \/ cycle' >= IrqStart

LEMMA SequenceRaises ==
    ASSUME NEW c \in Nat, NEW m, NEW inhibit, NEW flag, NEW h,
           ~frame_interrupt => ~flag, Sequence(c, m, inhibit, flag, h)
    PROVE  RiseStep
<1> SUFFICES ASSUME ~frame_interrupt, frame_interrupt'
             PROVE  /\ ~mode' /\ ~irq_inhibit'
                    /\ cycle' = 0 \/ cycle' >= IrqStart
  BY DEF RiseStep
<1>1. ~m /\ ~inhibit /\ c + 1 \in IrqCycles
  BY DEF Sequence
<1>2. c + 1 >= IrqStart
  BY <1>1, StepAssumption DEF IrqCycles
<1>3. cycle' = 0 \/ cycle' = c + 1
  BY DEF Sequence
<1>4. mode' = m /\ irq_inhibit' = inhibit
  BY DEF Sequence
<1>5. QED
  BY <1>1, <1>2, <1>3, <1>4

THEOREM InterruptComesAtEnd == Spec => InterruptOnlyAtEnd
<1>1. IInv /\ [Next]_vars => [RiseStep]_vars
  <2> SUFFICES ASSUME IInv, Next PROVE RiseStep
    OBVIOUS
  <2>1. CASE PlainTick
    <3>1. cycle \in Nat
      BY DEF IInv, TypeOK
    <3>2. QED
      BY <2>1, <3>1, SequenceRaises DEF PlainTick
  <2>2. CASE ResetTick
    BY <2>2, SequenceRaises DEF ResetTick
  <2>3. CASE Write \/ ReadStatus
    BY <2>3 DEF Write, WriteFrameCounter, ReadStatus, RiseStep
  <2>4. QED
    BY <2>1, <2>2, <2>3 DEF Next, Tick
<1>2. QED
  BY Invariance, <1>1, PTL DEF Spec, InterruptOnlyAtEnd, RiseStep

-----------------------------------------------------------------------------
(* The frame counter with the units that it clocks.                        *)

\* A register access of a channel leaves the frame counter alone.
LEMMA ToneAccessInv ==
    ASSUME IInv, ticked' = FALSE,
           UNCHANGED <<cycle, mode, irq_inhibit, frame_interrupt, pending, odd, history>>
    PROVE  IInv'
<1>1. /\ cycle' = cycle /\ mode' = mode /\ irq_inhibit' = irq_inhibit
      /\ frame_interrupt' = frame_interrupt /\ odd' = odd
      /\ pending_reset_cycles' = pending_reset_cycles /\ pending_mode' = pending_mode
      /\ pending_irq_inhibit' = pending_irq_inhibit /\ quarters' = quarters /\ halves' = halves
  BY DEF pending, history
<1>2. SequenceLength(mode)' = SequenceLength(mode)
  BY <1>1 DEF SequenceLength
<1>3. TypeOK'
  <2>1. ticked' \in BOOLEAN
    BY Zenon
  <2>2. cycle' < SequenceLength(mode')
    BY <1>1, <1>2 DEF IInv, TypeOK
  <2>3. QED
    BY <1>1, <2>1, <2>2, Zenon DEF IInv, TypeOK
<1>4. InhibitedMeansClear' /\ LastWriteWins'
  <2>1. InhibitedMeansClear /\ LastWriteWins
    BY DEF IInv
  <2>2. InhibitedMeansClear'
    BY <1>1, <2>1 DEF InhibitedMeansClear
  <2>3. LastWriteWins'
    BY <1>1, <2>1 DEF LastWriteWins
  <2>4. QED
    BY <2>2, <2>3
<1>5. FiveStepProgress' /\ FiveStepClocks'
  <2>1. FiveStepProgress /\ FiveStepClocks
    BY DEF IInv
  <2>2. FiveStepProgress'
    BY <1>1, <2>1 DEF FiveStepProgress, HalvesBy, QuartersBy
  <2>3. FiveStepClocks'
    BY <1>1, <2>1 DEF FiveStepClocks
  <2>4. QED
    BY <2>2, <2>3
<1>6. QED
  BY <1>3, <1>4, <1>5 DEF IInv

LEMMA CounterStep == IInv /\ [ApuNext]_apu_vars => IInv'
<1> SUFFICES ASSUME IInv, [ApuNext]_apu_vars PROVE IInv'
  OBVIOUS
<1>1. \/ Tick \/ Write \/ ReadStatus
      \/ UNCHANGED vars
      \/ /\ ticked' = FALSE
         /\ UNCHANGED <<cycle, mode, irq_inhibit, frame_interrupt, pending, odd, history>>
  BY DEF ApuNext, ApuTick, ApuWrite, TickLength, WriteCounter, WriteTone, apu_vars, counter, vars
<1>2. QED
  BY <1>1, ToneAccessInv, StepInv, Zenon DEF Next

THEOREM CounterInvariance == ApuSpec => []IInv
<1>1. ApuInit => IInv
  BY InitInv DEF ApuInit
<1>2. QED
  BY <1>1, CounterStep, PTL DEF ApuSpec

\* The sequencer that clocks the channels settles on the last $4017 write.
THEOREM LastWriteIsHeard == ApuSpec => []LastWriteWins
<1>1. IInv => LastWriteWins
  BY DEF IInv
<1>2. QED
  BY CounterInvariance, <1>1, PTL

\* In 5-step mode it clocks them two or three half frames in a sequence.
THEOREM FiveStepsAreHeard == ApuSpec => []FiveStepClocks
<1>1. IInv => FiveStepClocks
  BY DEF IInv
<1>2. QED
  BY CounterInvariance, <1>1, PTL

-----------------------------------------------------------------------------
(* Length counters.                                                        *)

LEMMA LengthActions ==
    ASSUME [ApuNext]_apu_vars
    PROVE  \/ ClockLength
           \/ \E on \in BOOLEAN : SetEnabled(on)
           \/ \E n \in Lengths : WriteLength(n)
           \/ UNCHANGED <<enabled, length_counter>>
<1>1. CASE UNCHANGED apu_vars
  BY <1>1 DEF apu_vars, tones, length
<1>2. CASE WriteLengthUnit
  BY <1>2 DEF WriteLengthUnit, WriteHalt
<1>3. CASE TickLength \/ ClockTriangle \/ ClockMmc5
  BY <1>3 DEF TickLength, ClockTriangle, ClockMmc5, length
<1>4. CASE \/ ClockEnvelope \/ ClockSweep \/ ClockNoise \/ ClockSaw \/ WriteCounter
           \/ WriteEnvelope \/ WriteSweep \/ WriteNoise \/ WriteSaw
  <2>1. ClockEnvelope \/ ClockSweep => UNCHANGED length
    BY DEF ClockEnvelope, ClockSweep
  <2>2. ClockNoise \/ ClockSaw => UNCHANGED length
    BY DEF ClockNoise, ClockSaw
  <2>3. WriteSweep \/ WriteNoise => UNCHANGED length
    BY DEF WriteSweep, WriteNoise
  <2>4. WriteSaw \/ WriteCounter => UNCHANGED length
    BY DEF WriteSaw, WriteCounter, tones
  <2>5. WriteEnvelope => UNCHANGED <<enabled, length_counter>>
    BY DEF WriteEnvelope
  <2>6. QED
    BY <1>4, <2>1, <2>2, <2>3, <2>4, <2>5 DEF length
<1>5. QED
  BY <1>1, <1>2, <1>3, <1>4 DEF ApuNext, ApuTick, ApuWrite, WriteTone

LEMMA LengthStep == DisabledMeansSilent /\ [ApuNext]_apu_vars => DisabledMeansSilent'
<1> SUFFICES ASSUME DisabledMeansSilent, [ApuNext]_apu_vars PROVE DisabledMeansSilent'
  OBVIOUS
<1>1. CASE ClockLength
  <2>1. /\ enabled' = enabled
        /\ length_counter' = IF ~length_halt /\ length_counter > 0 THEN length_counter - 1
                             ELSE length_counter
    BY <1>1 DEF ClockLength, LengthClocked
  <2>2. length_counter = 0 => length_counter' = 0
    BY <2>1
  <2>3. QED
    BY <2>1, <2>2 DEF DisabledMeansSilent
<1>2. CASE \E on \in BOOLEAN : SetEnabled(on)
  <2>1. PICK on \in BOOLEAN : enabled' = on /\ length_counter' = IF on THEN length_counter ELSE 0
    BY <1>2, Zenon DEF SetEnabled
  <2>2. on \/ length_counter' = 0
    BY <2>1
  <2>3. QED
    BY <2>1, <2>2 DEF DisabledMeansSilent
<1>3. CASE \E n \in Lengths : WriteLength(n)
  <2>1. enabled' = enabled /\ (~enabled => length_counter' = length_counter)
    BY <1>3, Zenon DEF WriteLength, Loaded
  <2>2. QED
    BY <2>1, Zenon DEF DisabledMeansSilent
<1>4. CASE UNCHANGED <<enabled, length_counter>>
  BY <1>4 DEF DisabledMeansSilent
<1>5. QED
  BY <1>1, <1>2, <1>3, <1>4, LengthActions

\* A channel that is off has no length left.
THEOREM OffIsSilent == ApuSpec => []DisabledMeansSilent
<1>1. ApuInit => DisabledMeansSilent
  BY DEF ApuInit, DisabledMeansSilent
<1>2. QED
  BY <1>1, LengthStep, PTL DEF ApuSpec

-----------------------------------------------------------------------------
(* The envelope.                                                           *)

Envelopes == [start : BOOLEAN, divider : 0 .. 15, decay : 0 .. 15, volume : 0 .. 15]

\* The level and what is left of its divider say how many clocks have passed
\* since the start, until the level is zero.
EnvelopeInv ==
    /\ envelope \in Envelopes
    /\ level_clocks \in Int
    /\ level_clocks >= 0 /\ ~envelope.start =>
          \/ envelope.decay = 0 /\ level_clocks = 15 * (envelope.volume + 1)
          \/ /\ envelope.decay > 0 /\ envelope.divider <= envelope.volume
             /\ level_clocks = (15 - envelope.decay) * (envelope.volume + 1)
                                 + (envelope.volume - envelope.divider)

LEMMA Levels ==
    ASSUME NEW p \in 1 .. 16, NEW d \in 1 .. 15
    PROVE  /\ \A r \in 0 .. p - 1 : (15 - d) * p + r < 15 * p
           /\ (15 - d) * p + p = (15 - (d - 1)) * p
           /\ (15 - d) * p \in Nat /\ 15 * p \in Nat
  OBVIOUS

LEMMA LevelOf ==
    ASSUME NEW p \in 1 .. 16, NEW q \in 0 .. 15, NEW r \in 0 .. p - 1
    PROVE  (q * p + r) \div p = q
  OBVIOUS

LEMMA EnvelopeLevel == EnvelopeInv => EnvelopeExact
<1> SUFFICES ASSUME EnvelopeInv, level_clocks >= 0, ~envelope.start
             PROVE  envelope.decay = 15 - level_clocks \div (envelope.volume + 1)
  BY DEF EnvelopeExact
<1>1. PICK v, d, g : v = envelope.volume /\ d = envelope.decay /\ g = envelope.divider
  BY Zenon
<1>2. v \in 0 .. 15 /\ d \in 0 .. 15 /\ g \in 0 .. 15 /\ v + 1 \in 1 .. 16
  <2>1. envelope.volume \in 0 .. 15 /\ envelope.decay \in 0 .. 15 /\ envelope.divider \in 0 .. 15
    BY DEF EnvelopeInv, Envelopes
  <2>2. v \in 0 .. 15 /\ d \in 0 .. 15 /\ g \in 0 .. 15
    BY <1>1, <2>1, Zenon
  <2>3. QED
    BY <2>2
<1>3. \/ d = 0 /\ level_clocks = 15 * (v + 1)
      \/ d > 0 /\ g <= v /\ level_clocks = (15 - d) * (v + 1) + (v - g)
  BY <1>1, Zenon DEF EnvelopeInv
<1>4. \E r \in 0 .. (v + 1) - 1 : level_clocks = (15 - d) * (v + 1) + r
  <2>1. CASE d = 0 /\ level_clocks = 15 * (v + 1)
    <3>1. 0 \in 0 .. (v + 1) - 1 /\ level_clocks = (15 - d) * (v + 1) + 0
      BY <1>2, <2>1
    <3>2. QED
      BY <3>1
  <2>2. CASE d > 0 /\ g <= v /\ level_clocks = (15 - d) * (v + 1) + (v - g)
    <3>1. v - g \in 0 .. (v + 1) - 1
      BY <1>2, <2>2
    <3>2. QED
      BY <2>2, <3>1
  <2>3. QED
    BY <1>3, <2>1, <2>2
<1>5. PICK r \in 0 .. (v + 1) - 1 : level_clocks = (15 - d) * (v + 1) + r
  BY <1>4
<1>6. 15 - d \in 0 .. 15
  BY <1>2
<1>7. level_clocks \div (v + 1) = 15 - d
  BY <1>2, <1>5, <1>6, LevelOf
<1>8. d = 15 - (15 - d)
  BY <1>2
<1>9. QED
  BY <1>1, <1>7, <1>8, Zenon

LEMMA EnvelopeActions ==
    ASSUME [ApuNext]_apu_vars
    PROVE  ClockEnvelope \/ WriteEnvelope \/ UNCHANGED <<envelope, level_clocks>>
<1>1. CASE UNCHANGED apu_vars
  BY <1>1 DEF apu_vars, tones
<1>2. CASE WriteLengthUnit
  BY <1>2, Zenon DEF WriteLengthUnit
<1>3. CASE \/ TickLength \/ ClockTriangle \/ ClockMmc5 \/ ClockSweep \/ ClockNoise \/ ClockSaw
           \/ WriteCounter \/ WriteSweep \/ WriteNoise \/ WriteSaw
  <2>1. TickLength \/ ClockTriangle \/ ClockMmc5 => UNCHANGED <<envelope, level_clocks>>
    BY DEF TickLength, ClockTriangle, ClockMmc5
  <2>2. ClockSweep \/ WriteSweep => UNCHANGED <<envelope, level_clocks>>
    BY DEF ClockSweep, WriteSweep
  <2>3. ClockNoise \/ WriteNoise => UNCHANGED <<envelope, level_clocks>>
    BY DEF ClockNoise, WriteNoise
  <2>4. ClockSaw \/ WriteSaw => UNCHANGED <<envelope, level_clocks>>
    BY DEF ClockSaw, WriteSaw
  <2>5. WriteCounter => UNCHANGED <<envelope, level_clocks>>
    BY DEF WriteCounter, tones
  <2>6. QED
    BY <1>3, <2>1, <2>2, <2>3, <2>4, <2>5, Zenon
<1>4. QED
  BY <1>1, <1>2, <1>3, Zenon DEF ApuNext, ApuTick, ApuWrite, WriteTone

LEMMA EnvelopeStep == EnvelopeInv /\ [ApuNext]_apu_vars => EnvelopeInv'
<1> SUFFICES ASSUME EnvelopeInv, [ApuNext]_apu_vars PROVE EnvelopeInv'
  OBVIOUS
<1> PICK v, d, g : v = envelope.volume /\ d = envelope.decay /\ g = envelope.divider
  BY Zenon
<1>1. v \in 0 .. 15 /\ d \in 0 .. 15 /\ g \in 0 .. 15 /\ v + 1 \in 1 .. 16
  <2>1. envelope.volume \in 0 .. 15 /\ envelope.decay \in 0 .. 15 /\ envelope.divider \in 0 .. 15
    BY DEF EnvelopeInv, Envelopes
  <2>2. v \in 0 .. 15 /\ d \in 0 .. 15 /\ g \in 0 .. 15
    BY <2>1, Zenon
  <2>3. QED
    BY <2>2
<1>2. /\ envelope \in Envelopes /\ level_clocks \in Int
      /\ level_clocks >= 0 /\ ~envelope.start =>
            \/ d = 0 /\ level_clocks = 15 * (v + 1)
            \/ d > 0 /\ g <= v /\ level_clocks = (15 - d) * (v + 1) + (v - g)
  BY Zenon DEF EnvelopeInv
<1>3. ASSUME NEW e \in Envelopes, NEW n \in Int, envelope' = e, level_clocks' = n,
             n >= 0 /\ ~e.start =>
                \/ e.decay = 0 /\ n = 15 * (e.volume + 1)
                \/ /\ e.decay > 0 /\ e.divider <= e.volume
                   /\ n = (15 - e.decay) * (e.volume + 1) + (e.volume - e.divider)
      PROVE  EnvelopeInv'
  BY <1>3, Zenon DEF EnvelopeInv
<1>4. CASE ClockEnvelope
  <2>1. /\ envelope' = EnvelopeClocked(envelope)
        /\ level_clocks' = IF envelope.start THEN 0
                           ELSE IF level_clocks = -1 \/ envelope'.decay > envelope.decay THEN -1
                           ELSE IF level_clocks < 15 * (envelope.volume + 1) THEN level_clocks + 1
                           ELSE level_clocks
    BY <1>4, Zenon DEF ClockEnvelope
  <2>2. CASE envelope.start
    <3>1. /\ envelope' \in Envelopes /\ envelope'.decay = 15 /\ envelope'.divider = v
          /\ envelope'.volume = v /\ level_clocks' = 0
      <4>1. envelope' = [envelope EXCEPT !.start = FALSE, !.decay = 15, !.divider = envelope.volume]
        BY <2>1, <2>2, Zenon DEF EnvelopeClocked, Started
      <4>2. 15 \in 0 .. 15 /\ envelope.volume \in 0 .. 15
        BY <1>1
      <4>3. envelope' \in Envelopes
        BY <1>2, <4>1, <4>2 DEF Envelopes
      <4>4. envelope'.decay = 15 /\ envelope'.divider = v /\ envelope'.volume = v
        BY <1>2, <4>1 DEF Envelopes
      <4>5. QED
        BY <2>1, <2>2, <4>3, <4>4, Zenon
    <3>2. 0 = (15 - 15) * (v + 1) + (v - v) /\ v <= v /\ 15 > 0 /\ 0 \in Int
      BY <1>1
    <3>3. QED
      BY <3>1, <3>2, Zenon DEF EnvelopeInv
  <2>3. CASE ~envelope.start /\ g > 0
    <3>1. /\ envelope' \in Envelopes /\ envelope'.decay = d /\ envelope'.divider = g - 1
          /\ envelope'.volume = v /\ ~envelope'.start
      BY <1>1, <1>2, <2>1, <2>3 DEF EnvelopeClocked, Envelopes
    <3>2. level_clocks' = IF level_clocks = -1 THEN -1
                          ELSE IF level_clocks < 15 * (v + 1) THEN level_clocks + 1
                          ELSE level_clocks
      <4>1. ~(d > d)
        BY <1>1
      <4>2. QED
        BY <2>1, <2>3, <3>1, <4>1, Zenon
    <3>3. level_clocks' \in Int
      BY <1>2, <3>2
    <3>4. level_clocks' >= 0 =>
             \/ d = 0 /\ level_clocks' = 15 * (v + 1)
             \/ d > 0 /\ g - 1 <= v /\ level_clocks' = (15 - d) * (v + 1) + (v - (g - 1))
      <4>1. SUFFICES ASSUME level_clocks' >= 0
                     PROVE  \/ d = 0 /\ level_clocks' = 15 * (v + 1)
                            \/ /\ d > 0 /\ g - 1 <= v
                               /\ level_clocks' = (15 - d) * (v + 1) + (v - (g - 1))
        OBVIOUS
      <4>2. level_clocks # -1 /\ level_clocks >= 0
        <5>1. CASE level_clocks = -1
          BY <3>2, <4>1, <5>1
        <5>2. CASE level_clocks # -1
          <6>1. 15 * (v + 1) \in Nat
            BY <1>1
          <6>2. level_clocks' = level_clocks + 1 \/ level_clocks' = level_clocks
            BY <3>2, <5>2
          <6>3. QED
            BY <1>2, <4>1, <5>2, <6>2
        <5>3. QED
          BY <5>1, <5>2
      <4>3. CASE d = 0 /\ level_clocks = 15 * (v + 1)
        <5>1. ~(level_clocks < 15 * (v + 1))
          BY <1>1, <4>3
        <5>2. level_clocks' = level_clocks
          BY <3>2, <4>2, <5>1
        <5>3. QED
          BY <4>3, <5>2
      <4>4. CASE d > 0 /\ g <= v /\ level_clocks = (15 - d) * (v + 1) + (v - g)
        <5>1. d > 0 /\ g <= v
          BY <4>4
        <5>2. d \in 1 .. 15 /\ v - g \in 0 .. (v + 1) - 1 /\ v - (g - 1) = (v - g) + 1 /\ g - 1 <= v
          <6>1. d \in 1 .. 15
            BY <1>1, <5>1
          <6>2. v - g \in 0 .. (v + 1) - 1
            BY <1>1, <5>1
          <6>3. v - (g - 1) = (v - g) + 1 /\ g - 1 <= v
            BY <1>1, <5>1
          <6>4. QED
            BY <6>1, <6>2, <6>3
        <5>3. level_clocks < 15 * (v + 1) /\ (15 - d) * (v + 1) \in Nat
          BY <1>1, <4>4, <5>2, Levels
        <5>4. level_clocks' = level_clocks + 1
          BY <3>2, <4>2, <5>3
        <5>5. \A x \in Nat, y \in Int : (x + y) + 1 = x + (y + 1)
          OBVIOUS
        <5>6. v - g \in Int
          BY <1>1
        <5>7. level_clocks' = (15 - d) * (v + 1) + (v - (g - 1))
          BY <4>4, <5>2, <5>3, <5>4, <5>5, <5>6, Zenon
        <5>8. QED
          BY <4>4, <5>2, <5>7
      <4>5. QED
        BY <1>2, <2>3, <4>2, <4>3, <4>4
    <3>5. QED
      BY <3>1, <3>3, <3>4, Zenon DEF EnvelopeInv
  <2>4. CASE ~envelope.start /\ ~(g > 0)
    <3>1. /\ envelope' \in Envelopes /\ envelope'.divider = v /\ envelope'.volume = v
          /\ ~envelope'.start
          /\ envelope'.decay = IF d > 0 THEN d - 1 ELSE IF length_halt THEN 15 ELSE 0
      <4>1. PICK n : n = IF d > 0 THEN d - 1 ELSE IF length_halt THEN 15 ELSE 0
        OBVIOUS
      <4>2. n \in 0 .. 15 /\ envelope.volume \in 0 .. 15
        BY <1>1, <4>1
      <4>3. envelope' = [envelope EXCEPT !.divider = envelope.volume, !.decay = n]
        BY <2>1, <2>4, <4>1, Zenon DEF EnvelopeClocked
      <4>4. envelope' \in Envelopes
        BY <1>2, <4>2, <4>3 DEF Envelopes
      <4>5. envelope'.decay = n /\ envelope'.divider = v /\ envelope'.volume = v
        BY <1>2, <4>3 DEF Envelopes
      <4>6. envelope'.start = envelope.start
        BY <1>2, <4>3 DEF Envelopes
      <4>7. QED
        BY <2>4, <4>1, <4>4, <4>5, <4>6, Zenon
    <3>2. CASE d > 0
      <4>1. envelope'.decay = d - 1 /\ ~(d - 1 > d) /\ d \in 1 .. 15 /\ g = 0
        BY <1>1, <2>4, <3>1, <3>2
      <4>2. level_clocks' = IF level_clocks = -1 THEN -1
                            ELSE IF level_clocks < 15 * (v + 1) THEN level_clocks + 1
                            ELSE level_clocks
        BY <2>1, <2>4, <4>1, Zenon
      <4>3. level_clocks' \in Int
        BY <1>2, <4>2
      <4>4. level_clocks' >= 0 =>
               \/ d - 1 = 0 /\ level_clocks' = 15 * (v + 1)
               \/ d - 1 > 0 /\ v <= v /\ level_clocks' = (15 - (d - 1)) * (v + 1) + (v - v)
        <5>1. SUFFICES ASSUME level_clocks' >= 0
                       PROVE  /\ level_clocks' = (15 - (d - 1)) * (v + 1)
          <6>1. \A x \in Int : x + (v - v) = x
            BY <1>1
          <6>2. (15 - (d - 1)) * (v + 1) \in Int
            BY <1>1, <4>1
          <6>3. v <= v /\ (d - 1 = 0 \/ d - 1 > 0)
            BY <1>1, <4>1
          <6>4. d - 1 = 0 => (15 - (d - 1)) * (v + 1) = 15 * (v + 1)
            BY <1>1
          <6>5. QED
            BY <6>1, <6>2, <6>3, <6>4, Zenon
        <5>2. level_clocks # -1 /\ level_clocks >= 0
          <6>1. CASE level_clocks = -1
            BY <4>2, <5>1, <6>1
          <6>2. CASE level_clocks # -1
            <7>1. level_clocks' = level_clocks + 1 \/ level_clocks' = level_clocks
              BY <4>2, <6>2
            <7>2. QED
              BY <1>2, <5>1, <6>2, <7>1
          <6>3. QED
            BY <6>1, <6>2
        <5>3. level_clocks = (15 - d) * (v + 1) + (v - g)
          BY <1>2, <2>4, <4>1, <5>2
        <5>4. v - g = v /\ v \in 0 .. (v + 1) - 1
          BY <1>1, <4>1
        <5>5. /\ level_clocks = (15 - d) * (v + 1) + v
              /\ (15 - d) * (v + 1) + v < 15 * (v + 1)
              /\ (15 - d) * (v + 1) + (v + 1) = (15 - (d - 1)) * (v + 1)
              /\ (15 - d) * (v + 1) \in Nat
          BY <1>1, <4>1, <5>3, <5>4, Levels
        <5>6. level_clocks' = level_clocks + 1
          BY <4>2, <5>2, <5>5
        <5>7. \A x \in Nat, y \in Int : (x + y) + 1 = x + (y + 1)
          OBVIOUS
        <5>8. v \in Int
          BY <1>1
        <5>9. QED
          BY <5>5, <5>6, <5>7, <5>8, Zenon
      <4>5. QED
        BY <3>1, <4>1, <4>3, <4>4, Zenon DEF EnvelopeInv
    <3>3. CASE ~(d > 0)
      <4>1. d = 0
        BY <1>1, <3>3
      <4>2. CASE length_halt
        <5>1. envelope'.decay = 15 /\ 15 > envelope.decay
          BY <3>1, <3>3, <4>1, <4>2
        <5>2. level_clocks' = -1
          BY <2>1, <2>4, <5>1, Zenon
        <5>3. -1 \in Int /\ ~(-1 >= 0)
          OBVIOUS
        <5>4. QED
          BY <3>1, <5>2, <5>3, Zenon DEF EnvelopeInv
      <4>3. CASE ~length_halt
        <5>1. envelope'.decay = 0 /\ ~(0 > envelope.decay)
          BY <3>1, <3>3, <4>1, <4>3
        <5>2. level_clocks' = IF level_clocks = -1 THEN -1
                              ELSE IF level_clocks < 15 * (v + 1) THEN level_clocks + 1
                              ELSE level_clocks
          BY <2>1, <2>4, <5>1, Zenon
        <5>3. level_clocks' \in Int
          BY <1>2, <5>2
        <5>4. level_clocks >= 0 => level_clocks = 15 * (v + 1)
          BY <1>2, <2>4, <4>1
        <5>5. level_clocks' >= 0 => level_clocks' = 15 * (v + 1)
          <6>1. 15 * (v + 1) \in Nat
            BY <1>1
          <6>2. CASE level_clocks >= 0
            <7>1. level_clocks # -1 /\ ~(level_clocks < 15 * (v + 1))
              BY <5>4, <6>1, <6>2
            <7>2. QED
              BY <5>2, <5>4, <6>2, <7>1
          <6>3. CASE ~(level_clocks >= 0)
            <7>1. CASE level_clocks = -1
              BY <5>2, <7>1
            <7>2. CASE level_clocks # -1
              <8>1. level_clocks < 15 * (v + 1) /\ level_clocks + 1 < 0
                BY <1>2, <6>1, <6>3, <7>2
              <8>2. level_clocks' = level_clocks + 1
                BY <5>2, <7>2, <8>1
              <8>3. QED
                BY <1>2, <8>1, <8>2
            <7>3. QED
              BY <7>1, <7>2
          <6>4. QED
            BY <6>2, <6>3
        <5>6. QED
          BY <3>1, <5>1, <5>3, <5>5, Zenon DEF EnvelopeInv
      <4>4. QED
        BY <4>2, <4>3
    <3>4. QED
      BY <3>2, <3>3
  <2>5. QED
    BY <2>2, <2>3, <2>4
<1>5. CASE WriteEnvelope
  <2>1. CASE /\ \E halt \in BOOLEAN, volume \in Volumes :
                   /\ length_halt' = halt
                   /\ envelope' = [envelope EXCEPT !.volume = volume]
             /\ level_clocks' = IF envelope'.volume = envelope.volume THEN level_clocks ELSE -1
    <3>1. PICK volume \in Volumes : envelope' = [envelope EXCEPT !.volume = volume]
      BY <2>1
    <3>2. /\ envelope' \in Envelopes /\ envelope'.volume = volume
          /\ envelope'.start = envelope.start /\ envelope'.decay = d /\ envelope'.divider = g
      <4>1. volume \in 0 .. 15
        BY UnitsAssumption
      <4>2. QED
        BY <1>2, <3>1, <4>1 DEF Envelopes
    <3>3. CASE volume = v
      <4>1. level_clocks' = level_clocks
        BY <2>1, <3>2, <3>3
      <4>2. QED
        BY <1>2, <3>2, <3>3, <4>1, Zenon DEF EnvelopeInv
    <3>4. CASE volume # v
      <4>1. level_clocks' = -1
        BY <2>1, <3>2, <3>4
      <4>2. -1 \in Int /\ ~(-1 >= 0)
        OBVIOUS
      <4>3. QED
        BY <3>2, <4>1, <4>2, Zenon DEF EnvelopeInv
    <3>5. QED
      BY <3>3, <3>4
  <2>2. CASE envelope' = [envelope EXCEPT !.start = TRUE] /\ UNCHANGED <<length_halt, level_clocks>>
    <3>1. envelope' \in Envelopes /\ envelope'.start = TRUE /\ level_clocks' = level_clocks
      BY <1>2, <2>2 DEF Envelopes
    <3>2. QED
      BY <1>2, <3>1, Zenon DEF EnvelopeInv
  <2>3. QED
    BY <1>5, <2>1, <2>2, Zenon DEF WriteEnvelope
<1>6. CASE UNCHANGED <<envelope, level_clocks>>
  BY <1>6 DEF EnvelopeInv
<1>7. QED
  BY <1>4, <1>5, <1>6, EnvelopeActions

-----------------------------------------------------------------------------
(* The noise.                                                              *)

\* Shifting by one place or more halves, at least.
LEMMA Powers == 2 ^ 0 = 1 /\ \A n \in Nat \ {0} : 2 ^ n \in Nat /\ 2 ^ n >= 2
<1>1. \A n \in Nat : /\ IsFiniteSet(1 .. n) /\ Cardinality(1 .. n) = n
                     /\ IsFiniteSet(SUBSET (1 .. n)) /\ Cardinality(SUBSET (1 .. n)) = 2 ^ n
  <2> TAKE n \in Nat
  <2>1. IsFiniteSet(1 .. n) /\ Cardinality(1 .. n) = n
    <3>1. IsFiniteSet(1 .. n) /\ Cardinality(1 .. n) = IF 1 > n THEN 0 ELSE n - 1 + 1
      BY FS_Interval
    <3>2. QED
      BY <3>1
  <2>2. QED
    BY <2>1, FS_SUBSET
<1>2. 2 ^ 0 = 1
  <2>1. SUBSET (1 .. 0) = {{}}
    OBVIOUS
  <2>2. Cardinality({{}}) = 1
    BY FS_Singleton
  <2>3. Cardinality(SUBSET (1 .. 0)) = 2 ^ 0
    BY <1>1
  <2>4. QED
    BY <2>1, <2>2, <2>3, Zenon
<1>3. ASSUME NEW n \in Nat \ {0}
      PROVE  2 ^ n \in Nat /\ 2 ^ n >= 2
  <2>1. PICK S : S = SUBSET (1 .. n)
    OBVIOUS
  <2>2. IsFiniteSet(S) /\ Cardinality(S) = 2 ^ n
    BY <1>1, <2>1
  <2>3. Cardinality(S) \in Nat /\ Cardinality(S) # 0 /\ Cardinality(S) # 1
    <3>1. {} \in S /\ {1} \in S /\ {} # {1}
      BY <2>1
    <3>2. Cardinality(S) \in Nat
      BY <2>2, FS_CardinalityType
    <3>3. Cardinality(S) # 0
      BY <2>2, <3>1, FS_EmptySet
    <3>4. Cardinality(S) # 1
      BY <2>2, <3>1, FS_Singleton
    <3>5. QED
      BY <3>2, <3>3, <3>4
  <2>4. QED
    BY <2>2, <2>3
<1>4. QED
  BY <1>2, <1>3

LEMMA NoiseActions ==
    ASSUME [ApuNext]_apu_vars
    PROVE  ClockNoise \/ WriteNoise \/ UNCHANGED noise
<1>1. CASE UNCHANGED apu_vars
  BY <1>1 DEF apu_vars, tones
<1>2. TickLength \/ ClockTriangle \/ ClockMmc5 \/ WriteLengthUnit => UNCHANGED noise
  BY DEF TickLength, ClockTriangle, ClockMmc5, WriteLengthUnit
<1>3. ClockSweep \/ WriteSweep => UNCHANGED noise
  BY DEF ClockSweep, WriteSweep
<1>4. ClockEnvelope \/ WriteEnvelope => UNCHANGED noise
  BY DEF ClockEnvelope, WriteEnvelope
<1>5. ClockSaw \/ WriteSaw => UNCHANGED noise
  BY DEF ClockSaw, WriteSaw
<1>6. WriteCounter => UNCHANGED noise
  BY DEF WriteCounter, tones
<1>7. QED
  BY <1>1, <1>2, <1>3, <1>4, <1>5, <1>6, Zenon DEF ApuNext, ApuTick, ApuWrite, WriteTone

Registers == 1 .. 2 * TopBit - 1

NoiseInv == noise \in [mode : BOOLEAN, shift_register : Registers]

LEMMA TopBitValue == TopBit \in Nat /\ TopBit > 1
BY DEF TopBit

LEMMA ShiftedBit ==
    ASSUME NEW r \in Nat, NEW n \in Nat
    PROVE  ShiftBit(r, n) \in {0, 1}
<1>1. PICK p : p = 2 ^ n
  OBVIOUS
<1>2. p \in Nat \ {0}
  <2>1. CASE n = 0
    <3>1. p = 1
      BY <1>1, <2>1, Powers, Zenon
    <3>2. QED
      BY <3>1
  <2>2. CASE n # 0
    <3>1. n \in Nat \ {0}
      BY <2>2
    <3>2. p \in Nat /\ p >= 2
      BY <1>1, <3>1, Powers, Zenon
    <3>3. QED
      BY <3>2
  <2>3. QED
    BY <2>1, <2>2
<1>3. (r \div p) \in Int
  BY <1>2
<1>4. \A x \in Int : x % 2 \in {0, 1}
  OBVIOUS
<1>5. QED
  BY <1>1, <1>3, <1>4, Zenon DEF ShiftBit

\* The last bit feeds itself back.
LEMMA FeedbackBit ==
    ASSUME NoiseInv
    PROVE  /\ Feedback(noise) \in {0, 1}
           /\ noise.shift_register = 1 => Feedback(noise) = 1
<1>1. PICK r, k : r = noise.shift_register /\ k = IF noise.mode THEN 6 ELSE 1
  BY Zenon
<1>2. r \in Nat
  <2>1. noise.shift_register \in Registers
    BY Zenon DEF NoiseInv
  <2>2. Registers \subseteq Nat
    BY TopBitValue, SMT DEF Registers
  <2>3. QED
    BY <1>1, <2>1, <2>2, Zenon
<1>3. k \in Nat \ {0} /\ 0 \in Nat
  <2>1. k = 6 \/ k = 1
    BY <1>1, Zenon
  <2>2. QED
    BY <2>1
<1>4. ShiftBit(r, 0) \in {0, 1} /\ ShiftBit(r, k) \in {0, 1}
  BY <1>2, <1>3, ShiftedBit
<1>5. Feedback(noise) = (ShiftBit(r, 0) + ShiftBit(r, k)) % 2
  BY <1>1, Zenon DEF Feedback
<1>6. \A a \in {0, 1}, b \in {0, 1} : (a + b) % 2 \in {0, 1}
  OBVIOUS
<1>7. ASSUME r = 1
      PROVE  ShiftBit(r, 0) = 1 /\ ShiftBit(r, k) = 0
  <2>1. PICK p : p = 2 ^ k
    OBVIOUS
  <2>2. p \in Nat /\ p >= 2
    BY <1>3, <2>1, Powers
  <2>3. (1 \div p) % 2 = 0
    BY <2>2
  <2>4. (1 \div 1) % 2 = 1
    OBVIOUS
  <2>5. 2 ^ 0 = 1
    BY Powers
  <2>6. QED
    BY <1>7, <2>1, <2>3, <2>4, <2>5, Zenon DEF ShiftBit
<1>8. (1 + 0) % 2 = 1
  OBVIOUS
<1>9. QED
  BY <1>1, <1>4, <1>5, <1>6, <1>7, <1>8, Zenon

\* A register of any width keeps a bit when it is shifted.
LEMMA ShiftRight ==
    ASSUME NEW m \in Nat, m > 1,
           NEW r \in 1 .. 2 * m - 1, NEW b \in {0, 1}, r = 1 => b = 1
    PROVE  (r \div 2) + m * b \in 1 .. 2 * m - 1
<1>1. PICK h \in Int : h = r \div 2 /\ 2 * h <= r /\ r <= 2 * h + 1
  <2>1. \A x \in Int : x \div 2 \in Int /\ 2 * (x \div 2) <= x /\ x <= 2 * (x \div 2) + 1
    BY SMT
  <2>2. QED
    BY <2>1
<1>2. CASE b = 1
  <2>1. m * b = m
    BY <1>2
  <2>2. QED
    BY <1>1, <2>1
<1>3. CASE b = 0
  <2>1. m * b = 0 /\ r # 1
    BY <1>3
  <2>2. QED
    BY <1>1, <2>1
<1>4. QED
  BY <1>2, <1>3

LEMMA NoiseStep == NoiseInv /\ [ApuNext]_apu_vars => NoiseInv'
<1> SUFFICES ASSUME NoiseInv, [ApuNext]_apu_vars PROVE NoiseInv'
  OBVIOUS
<1>1. CASE ClockNoise
  <2>1. PICK r, b : r = noise.shift_register /\ b = Feedback(noise)
    BY Zenon
  <2>2. r \in Registers /\ b \in {0, 1} /\ (r = 1 => b = 1)
    BY <2>1, FeedbackBit, Zenon DEF NoiseInv
  <2>3. (r \div 2) + TopBit * b \in Registers
    BY <2>2, TopBitValue, ShiftRight DEF Registers
  <2>4. noise' = [noise EXCEPT !.shift_register = (r \div 2) + TopBit * b]
    BY <1>1, <2>1, SMT DEF ClockNoise
  <2>5. PICK x \in Registers : noise' = [noise EXCEPT !.shift_register = x]
    BY <2>3, <2>4, SMT
  <2>6. QED
    BY <2>5, SMT DEF NoiseInv
<1>2. CASE WriteNoise
  <2>1. noise' = [noise EXCEPT !.mode = ~noise.mode]
    BY <1>2, Zenon DEF WriteNoise
  <2>2. (~noise.mode) \in BOOLEAN
    BY Zenon
  <2>3. QED
    BY <2>1, <2>2, Zenon DEF NoiseInv
<1>3. CASE UNCHANGED noise
  BY <1>3 DEF NoiseInv
<1>4. QED
  BY <1>1, <1>2, <1>3, NoiseActions

-----------------------------------------------------------------------------
(* The saw.                                                                *)

LEMMA SawActions ==
    ASSUME [ApuNext]_apu_vars
    PROVE  ClockSaw \/ WriteSaw \/ UNCHANGED <<saw, steady_rate>>
<1>1. CASE UNCHANGED apu_vars
  BY <1>1 DEF apu_vars, tones
<1>2. TickLength \/ ClockTriangle \/ ClockMmc5 \/ WriteLengthUnit => UNCHANGED <<saw, steady_rate>>
  BY DEF TickLength, ClockTriangle, ClockMmc5, WriteLengthUnit
<1>3. ClockSweep \/ WriteSweep => UNCHANGED <<saw, steady_rate>>
  BY DEF ClockSweep, WriteSweep
<1>4. ClockEnvelope \/ WriteEnvelope => UNCHANGED <<saw, steady_rate>>
  BY DEF ClockEnvelope, WriteEnvelope
<1>5. ClockNoise \/ WriteNoise => UNCHANGED <<saw, steady_rate>>
  BY DEF ClockNoise, WriteNoise
<1>6. WriteCounter => UNCHANGED <<saw, steady_rate>>
  BY DEF WriteCounter, tones
<1>7. QED
  BY <1>1, <1>2, <1>3, <1>4, <1>5, <1>6, Zenon DEF ApuNext, ApuTick, ApuWrite, WriteTone

Saws == [step : 0 .. 13, accumulator : 0 .. 255, rate : 0 .. 63]

\* At the bottom of the ramp the rate may change.
SawInv ==
    /\ saw \in Saws
    /\ steady_rate \in BOOLEAN
    /\ saw.step = 0 => saw.accumulator = 0
    /\ SawClimbs

\* One step of the ramp.
LEMMA SawRamp ==
    ASSUME NEW t \in 0 .. 13, NEW r \in 0 .. 63, (t + 1) % 14 # 0
    PROVE  (IF ((t + 1) % 14) % 2 = 1 THEN (((r * ((t + 1) \div 2)) % 256) + r) % 256
                                      ELSE (r * ((t + 1) \div 2)) % 256)
           = (r * ((((t + 1) % 14) + 1) \div 2)) % 256
  OBVIOUS

LEMMA ByteSum ==
    ASSUME NEW a \in 0 .. 255, NEW r \in 0 .. 63
    PROVE  (a + r) % 256 \in 0 .. 255
  OBVIOUS

LEMMA SawStep == SawInv /\ [ApuNext]_apu_vars => SawInv'
<1> SUFFICES ASSUME SawInv, [ApuNext]_apu_vars PROVE SawInv'
  OBVIOUS
<1> PICK t, a, r : t = saw.step /\ a = saw.accumulator /\ r = saw.rate
  BY Zenon
<1>1. saw \in Saws
  BY Zenon DEF SawInv
<1>2. t \in 0 .. 13 /\ a \in 0 .. 255 /\ r \in 0 .. 63 /\ (t = 0 => a = 0)
  <2>1. saw.step \in 0 .. 13 /\ saw.accumulator \in 0 .. 255 /\ saw.rate \in 0 .. 63
    BY <1>1, SMT DEF Saws
  <2>2. saw.step = 0 => saw.accumulator = 0
    BY Zenon DEF SawInv
  <2>3. QED
    BY <2>1, <2>2, Zenon
<1>3. steady_rate => a = (r * ((t + 1) \div 2)) % 256
  BY Zenon DEF SawInv, SawClimbs
<1> DEFINE InStep(t1, a1, r1) ==
             /\ t1 \in 0 .. 13 /\ a1 \in 0 .. 255 /\ r1 \in 0 .. 63
             /\ t1 = 0 => a1 = 0
           Ramps(t1, a1, r1) == a1 = (r1 * ((t1 + 1) \div 2)) % 256
<1>4. ASSUME NEW t1, NEW a1, NEW r1, InStep(t1, a1, r1),
             saw' = [step |-> t1, accumulator |-> a1, rate |-> r1],
             steady_rate' \in BOOLEAN, steady_rate' => Ramps(t1, a1, r1)
      PROVE  SawInv'
  <2>1. saw' \in Saws
    BY <1>4, SMT DEF Saws
  <2>2. saw'.step = t1 /\ saw'.accumulator = a1 /\ saw'.rate = r1
    BY <1>4, Zenon
  <2>3. QED
    BY <1>4, <2>1, <2>2, Zenon DEF SawInv, SawClimbs
<1>5. saw = [step |-> t, accumulator |-> a, rate |-> r]
  BY <1>1, SMT DEF Saws
<1> HIDE DEF InStep, Ramps
<1>6. CASE ClockSaw
  <2>1. PICK u : u = (t + 1) % 14
    OBVIOUS
  <2>2. PICK x : x = IF u = 0 THEN 0 ELSE IF u % 2 = 1 THEN (a + r) % 256 ELSE a
    OBVIOUS
  <2>3. u \in 0 .. 13 /\ x \in 0 .. 255 /\ (u = 0 => x = 0)
    <3>1. u \in 0 .. 13
      BY <1>2, <2>1, SMTT(30)
    <3>2. (a + r) % 256 \in 0 .. 255
      BY <1>2, ByteSum, ZenonT(60)
    <3>3. CASE u = 0
      BY <2>2, <3>1, <3>3, SMT
    <3>4. CASE u # 0
      BY <1>2, <2>2, <3>1, <3>2, <3>4, SMT
    <3>5. QED
      BY <3>3, <3>4, Zenon
  <2>4. saw' = [step |-> u, accumulator |-> x, rate |-> r] /\ steady_rate' = (steady_rate \/ u = 0)
    <3>1. saw' = [saw EXCEPT !.step = u, !.accumulator = x]
      BY <1>6, <2>1, <2>2, Zenon DEF ClockSaw, Stepped
    <3>2. steady_rate' = (steady_rate \/ saw'.step = 0)
      BY <1>6, Zenon DEF ClockSaw
    <3>3. saw' = [step |-> u, accumulator |-> x, rate |-> r]
      BY <1>5, <3>1
    <3>4. QED
      BY <3>2, <3>3, Zenon
  <2>5. steady_rate \/ u = 0 => x = (r * ((u + 1) \div 2)) % 256
    <3>1. CASE u = 0
      <4>1. (r * ((0 + 1) \div 2)) % 256 = 0
        BY <1>2
      <4>2. QED
        BY <2>2, <3>1, <4>1
    <3>2. CASE u # 0 /\ steady_rate
      <4>1. a = (r * ((t + 1) \div 2)) % 256
        BY <1>3, <3>2, Zenon
      <4>2. (IF u % 2 = 1 THEN (a + r) % 256 ELSE a) = (r * ((u + 1) \div 2)) % 256
        <5>1. (t + 1) % 14 # 0 /\ t \in 0 .. 13 /\ r \in 0 .. 63
          BY <1>2, <2>1, <3>2, Zenon
        <5>2. (IF ((t + 1) % 14) % 2 = 1 THEN (((r * ((t + 1) \div 2)) % 256) + r) % 256
                                         ELSE (r * ((t + 1) \div 2)) % 256)
              = (r * ((((t + 1) % 14) + 1) \div 2)) % 256
          BY <5>1, SawRamp
        <5>3. QED
          BY <2>1, <4>1, <5>2, SMT
      <4>3. QED
        BY <2>2, <3>2, <4>2, Zenon
    <3>3. QED
      BY <3>1, <3>2, Zenon
  <2>6. steady_rate' \in BOOLEAN /\ (steady_rate' => steady_rate \/ u = 0)
    BY <2>4, Zenon DEF SawInv
  <2>7. steady_rate' => x = (r * ((u + 1) \div 2)) % 256
    BY <2>5, <2>6, Zenon
  <2>8. InStep(u, x, r) /\ (steady_rate' => Ramps(u, x, r))
    BY <1>2, <2>3, <2>7, SMT DEF InStep, Ramps
  <2>9. QED
    BY <1>4, <2>4, <2>6, <2>8, Zenon
<1>7. CASE WriteSaw
  <2>1. PICK rate \in Rates : saw' = [saw EXCEPT !.rate = rate]
    BY <1>7, Zenon DEF WriteSaw
  <2>2. saw' = [step |-> t, accumulator |-> a, rate |-> rate] /\ rate \in 0 .. 63
    BY <1>5, <2>1, UnitsAssumption
  <2>3. steady_rate' = (t = 0 \/ (steady_rate /\ rate = r))
    <3>1. steady_rate' = (saw.step = 0 \/ (steady_rate /\ saw'.rate = saw.rate))
      BY <1>7, Zenon DEF WriteSaw
    <3>2. saw'.rate = rate
      BY <2>2, Zenon
    <3>3. QED
      BY <3>1, <3>2, Zenon
  <2>4. t = 0 \/ (steady_rate /\ rate = r) => a = (rate * ((t + 1) \div 2)) % 256
    <3>1. CASE t = 0
      <4>1. a = 0 /\ (rate * ((0 + 1) \div 2)) % 256 = 0
        BY <1>2, <2>2, <3>1
      <4>2. QED
        BY <3>1, <4>1
    <3>2. CASE steady_rate /\ rate = r
      BY <1>3, <3>2, Zenon
    <3>3. QED
      BY <3>1, <3>2
  <2>5. steady_rate' \in BOOLEAN /\ (steady_rate' => (t = 0 \/ (steady_rate /\ rate = r)))
    <3>1. CASE t = 0 \/ (steady_rate /\ rate = r)
      <4>1. steady_rate' = TRUE
        BY <2>3, <3>1, Zenon
      <4>2. QED
        BY <3>1, <4>1, Zenon
    <3>2. CASE ~(t = 0 \/ (steady_rate /\ rate = r))
      <4>1. steady_rate' = FALSE
        BY <2>3, <3>2, Zenon
      <4>2. QED
        BY <4>1, Zenon
    <3>3. QED
      BY <3>1, <3>2, Zenon
  <2>6. steady_rate' => a = (rate * ((t + 1) \div 2)) % 256
    BY <2>4, <2>5, Zenon
  <2>7. InStep(t, a, rate) /\ (steady_rate' => Ramps(t, a, rate))
    BY <1>2, <2>2, <2>6, SMT DEF InStep, Ramps
  <2>8. QED
    BY <1>4, <2>2, <2>5, <2>7, Zenon
<1>8. CASE UNCHANGED <<saw, steady_rate>>
  BY <1>8, Zenon DEF SawInv, SawClimbs, Saws
<1>9. QED
  BY <1>6, <1>7, <1>8, SawActions

-----------------------------------------------------------------------------

UnitsInv == EnvelopeInv /\ NoiseInv /\ SawInv

LEMMA UnitsInit == ApuInit => UnitsInv
<1> SUFFICES ASSUME ApuInit PROVE UnitsInv
  OBVIOUS
<1>1. EnvelopeInv
  <2>1. /\ envelope = [start |-> FALSE, divider |-> 0, decay |-> 0, volume |-> 0]
        /\ level_clocks = -1
    BY DEF ApuInit
  <2>2. 0 \in 0 .. 15 /\ -1 \in Int /\ ~(-1 >= 0)
    OBVIOUS
  <2>3. QED
    BY <2>1, <2>2, Zenon DEF EnvelopeInv, Envelopes
<1>2. NoiseInv
  <2>1. noise = [mode |-> FALSE, shift_register |-> 1] /\ 1 \in Registers
    <3>1. noise = [mode |-> FALSE, shift_register |-> 1]
      BY DEF ApuInit
    <3>2. 1 \in Registers
      BY TopBitValue, SMT DEF Registers
    <3>3. QED
      BY <3>1, <3>2
  <2>2. QED
    BY <2>1, Zenon DEF NoiseInv
<1>3. SawInv
  <2>1. saw = [step |-> 0, accumulator |-> 0, rate |-> 0] /\ steady_rate = TRUE
    BY DEF ApuInit
  <2>2. 0 \in 0 .. 13 /\ 0 \in 0 .. 255 /\ 0 \in 0 .. 63 /\ (0 * ((0 + 1) \div 2)) % 256 = 0
    OBVIOUS
  <2>3. saw \in Saws
    BY <2>1, <2>2, SMT DEF Saws
  <2>4. QED
    BY <2>1, <2>2, <2>3, Zenon DEF SawInv, SawClimbs
<1>4. QED
  BY <1>1, <1>2, <1>3 DEF UnitsInv

\* Envelopes fall one level in volume + 1 clocks, the noise register never
\* empties, and a ramp of the saw is seven additions of its rate from 0, modulo
\* 256, for every register value and every order of writes and clocks.
THEOREM LawsKept == ApuSpec => []UnitsKeepTheirLaws
<1>1. UnitsInv /\ [ApuNext]_apu_vars => UnitsInv'
  BY EnvelopeStep, NoiseStep, SawStep DEF UnitsInv
<1>2. UnitsInv => UnitsKeepTheirLaws
  <2> SUFFICES ASSUME UnitsInv PROVE UnitsKeepTheirLaws
    OBVIOUS
  <2>1. NoiseGoesOn
    <3>1. noise.shift_register \in Registers
      BY Zenon DEF UnitsInv, NoiseInv
    <3>2. NoiseGoesOn <=> noise.shift_register \in Registers
      BY DEF NoiseGoesOn, Registers
    <3>3. QED
      BY <3>1, <3>2, Zenon
  <2>2. QED
    BY <2>1, EnvelopeLevel DEF UnitsInv, SawInv, UnitsKeepTheirLaws
<1>3. QED
  BY UnitsInit, <1>1, <1>2, PTL DEF ApuSpec

-----------------------------------------------------------------------------
(* The sweep.                                                              *)

LEMMA SweepActions ==
    ASSUME [ApuNext]_apu_vars
    PROVE  ClockSweep \/ WriteSweep \/ UNCHANGED sweep
<1>1. CASE UNCHANGED apu_vars
  BY <1>1 DEF apu_vars, tones
<1>2. TickLength \/ ClockTriangle \/ ClockMmc5 \/ WriteLengthUnit => UNCHANGED sweep
  BY DEF TickLength, ClockTriangle, ClockMmc5, WriteLengthUnit
<1>3. ClockEnvelope \/ WriteEnvelope => UNCHANGED sweep
  BY DEF ClockEnvelope, WriteEnvelope
<1>4. ClockNoise \/ WriteNoise => UNCHANGED sweep
  BY DEF ClockNoise, WriteNoise
<1>5. ClockSaw \/ WriteSaw => UNCHANGED sweep
  BY DEF ClockSaw, WriteSaw
<1>6. WriteCounter => UNCHANGED sweep
  BY DEF WriteCounter, tones
<1>7. QED
  BY <1>1, <1>2, <1>3, <1>4, <1>5, <1>6, Zenon DEF ApuNext, ApuTick, ApuWrite, WriteTone

ElevenBits == 0 .. 2047

Sweeps ==
    [is_channel_1 : BOOLEAN, timer_period : ElevenBits, enabled : BOOLEAN, period : 0 .. 7,
     negate : BOOLEAN, shift : 0 .. 7, divider : 0 .. 7, reload : BOOLEAN]

SweepInv == sweep \in Sweeps

\* sixteen bits, even where the subtraction passes zero.
LEMMA TargetType == ASSUME NEW s \in Sweeps PROVE SweepTarget(s) \in Nat
<1>1. s.timer_period \in ElevenBits /\ s.shift \in 0 .. 7
  BY Zenon DEF Sweeps
<1>2. PICK p, n : p = s.timer_period /\ n = s.shift
  BY Zenon
<1>3. p \in Nat /\ n \in 0 .. 7
  <2>1. p \in ElevenBits /\ n \in 0 .. 7
    BY <1>1, <1>2, Zenon
  <2>2. QED
    BY <2>1, SMT DEF ElevenBits
<1>4. PICK q : q = 2 ^ n
  OBVIOUS
<1>5. q \in Nat \ {0}
  <2>1. n = 0 \/ n \in Nat \ {0}
    BY <1>3
  <2>2. 2 ^ n = 1 \/ (2 ^ n \in Nat /\ 2 ^ n >= 2)
    BY <2>1, Powers
  <2>3. QED
    BY <1>4, <2>2
<1>6. PICK amount : amount = p \div q
  OBVIOUS
<1>7. amount \in Int
  BY <1>3, <1>5, <1>6
<1>8. PICK change : change = IF ~s.negate THEN amount
                             ELSE IF s.is_channel_1 THEN -amount - 1 ELSE -amount
  OBVIOUS
<1>9. change \in Int
  <2>1. change = amount \/ change = -amount - 1 \/ change = -amount
    BY <1>8, Zenon
  <2>2. QED
    BY <1>7, <2>1
<1>10. SweepTarget(s) = (p + change) % 65536
  BY <1>2, <1>4, <1>6, <1>8, SMT DEF SweepTarget
<1>11. (p + change) % 65536 \in Nat
  BY <1>3, <1>9
<1>12. QED
  BY <1>10, <1>11, SMT

\* A sweep that mutes does not move: for any period, and any target.
LEMMA MutedStands == ASSUME NEW s \in Sweeps, Muted(s) PROVE ~SweepMoves(s)
<1>1. s.timer_period \in Nat
  <2>1. s.timer_period \in ElevenBits
    BY Zenon DEF Sweeps
  <2>2. \A x \in ElevenBits : x \in Nat
    BY SMT DEF ElevenBits
  <2>3. QED
    BY <2>1, <2>2, Zenon
<1>2. SweepTarget(s) \in Nat
  BY TargetType
<1>3. PICK p, target : p = s.timer_period /\ target = SweepTarget(s)
  BY Zenon
<1>4. p \in Nat /\ target \in Nat
  BY <1>1, <1>2, <1>3, Zenon
<1>5. p < 8 \/ target > 2047
  BY <1>3, SMT DEF Muted
<1>6. ~(p >= 8 /\ target <= 2047)
  BY <1>4, <1>5
<1>7. QED
  BY <1>3, <1>6, SMT DEF SweepMoves

\* The period a clock leaves.
LEMMA SweepPeriod ==
    ASSUME NEW s \in Sweeps
    PROVE  (IF SweepMoves(s) THEN SweepTarget(s) ELSE s.timer_period) \in ElevenBits
<1>1. CASE SweepMoves(s)
  <2>1. PICK target : target = SweepTarget(s)
    OBVIOUS
  <2>2. target \in Nat /\ target <= 2047
    BY <1>1, <2>1, TargetType, SMT DEF SweepMoves
  <2>3. target \in ElevenBits
    BY <2>2 DEF ElevenBits
  <2>4. QED
    BY <1>1, <2>1, <2>3, Zenon
<1>2. CASE ~SweepMoves(s)
  BY <1>2, Zenon DEF Sweeps
<1>3. QED
  BY <1>1, <1>2, Zenon

LEMMA NewLowByte ==
    ASSUME NEW p \in ElevenBits, NEW low \in 0 .. 255
    PROVE  p - (p % 256) + low \in ElevenBits
<1>1. p \in 0 .. 2047
  BY DEF ElevenBits
<1>2. PICK k, m : k = p \div 256 /\ m = p % 256
  OBVIOUS
<1>3. k \in 0 .. 7
  BY <1>1, <1>2
<1>4. m \in 0 .. 255
  BY <1>1, <1>2
<1>5. m = p - 256 * k
  BY <1>1, <1>2
<1>6. p - m + low \in ElevenBits
  BY <1>1, <1>3, <1>4, <1>5 DEF ElevenBits
<1>7. QED
  BY <1>2, <1>6

LEMMA SweepStep == SweepInv /\ [ApuNext]_apu_vars => SweepInv'
<1> SUFFICES ASSUME SweepInv, [ApuNext]_apu_vars PROVE SweepInv'
  OBVIOUS
<1>1. /\ sweep.timer_period \in ElevenBits /\ sweep.period \in 0 .. 7 /\ sweep.divider \in 0 .. 7
      /\ sweep.reload \in BOOLEAN
  BY Zenon DEF SweepInv, Sweeps
<1>2. CASE ClockSweep
  <2>1. PICK p, d, b :
          /\ p = IF SweepMoves(sweep) THEN SweepTarget(sweep) ELSE sweep.timer_period
          /\ d = IF sweep.divider = 0 \/ sweep.reload THEN sweep.period ELSE sweep.divider - 1
          /\ b = (sweep.reload /\ ~(sweep.divider = 0 \/ sweep.reload))
    BY Zenon
  <2>2. sweep' = [sweep EXCEPT !.timer_period = p, !.divider = d, !.reload = b]
    BY <1>2, <2>1, Zenon DEF ClockSweep
  <2>3. p \in ElevenBits
    BY <2>1, SweepPeriod, Zenon DEF SweepInv
  <2>4. d \in 0 .. 7
    <3>1. PICK e : e = sweep.divider
      OBVIOUS
    <3>2. e \in 0 .. 7 /\ (e # 0 => e - 1 \in 0 .. 7)
      BY <1>1, <3>1
    <3>3. QED
      BY <1>1, <2>1, <3>1, <3>2, Zenon
  <2>5. b \in BOOLEAN
    BY <2>1, Zenon
  <2>6. QED
    BY <2>2, <2>3, <2>4, <2>5, Zenon DEF SweepInv, Sweeps
<1>3. CASE WriteSweep
  <2>1. CASE \E on, negate \in BOOLEAN, period \in SweepPeriods, shift \in Shifts :
               sweep' = [sweep EXCEPT !.enabled = on, !.negate = negate, !.period = period,
                                      !.shift = shift, !.reload = TRUE]
    <3>1. PICK on \in BOOLEAN, negate \in BOOLEAN, period \in SweepPeriods, shift \in Shifts :
            sweep' = [sweep EXCEPT !.enabled = on, !.negate = negate, !.period = period,
                                   !.shift = shift, !.reload = TRUE]
      BY <2>1, Zenon
    <3>2. period \in 0 .. 7 /\ shift \in 0 .. 7
      BY UnitsAssumption
    <3>3. QED
      BY <3>1, <3>2, Zenon DEF SweepInv, Sweeps
  <2>2. CASE \E low \in LowBytes :
               sweep' = [sweep EXCEPT !.timer_period = @ - (@ % 256) + low]
    <3>1. PICK low \in LowBytes : sweep' = [sweep EXCEPT !.timer_period = @ - (@ % 256) + low]
      BY <2>2, Zenon
    <3>2. PICK p, q : p = sweep.timer_period /\ q = p - (p % 256) + low
      BY Zenon
    <3>3. q \in ElevenBits
      <4>1. low \in 0 .. 255 /\ p \in ElevenBits
        <5>1. low \in 0 .. 255
          BY UnitsAssumption
        <5>2. QED
          BY <1>1, <3>2, <5>1, Zenon
      <4>2. p - (p % 256) + low \in ElevenBits
        BY <4>1, NewLowByte, ZenonT(60)
      <4>3. QED
        BY <3>2, <4>2, SMT
    <3>4. sweep' = [sweep EXCEPT !.timer_period = q]
      BY <3>1, <3>2, Zenon
    <3>5. QED
      BY <3>3, <3>4, Zenon DEF SweepInv, Sweeps
  <2>3. CASE \E high \in HighBits :
               sweep' = [sweep EXCEPT !.timer_period = (@ % 256) + 256 * high]
    <3>1. PICK high \in HighBits : sweep' = [sweep EXCEPT !.timer_period = (@ % 256) + 256 * high]
      BY <2>3, Zenon
    <3>2. PICK p, q : p = sweep.timer_period /\ q = (p % 256) + 256 * high
      BY Zenon
    <3>3. q \in ElevenBits
      <4>1. high \in 0 .. 7 /\ p \in 0 .. 2047
        BY <1>1, <3>2, UnitsAssumption DEF ElevenBits
      <4>2. p % 256 \in 0 .. 255
        BY <4>1
      <4>3. QED
        BY <3>2, <4>1, <4>2, SMTT(30) DEF ElevenBits
    <3>4. sweep' = [sweep EXCEPT !.timer_period = q]
      BY <3>1, <3>2, Zenon
    <3>5. QED
      BY <3>3, <3>4, Zenon DEF SweepInv, Sweeps
  <2>4. QED
    BY <1>3, <2>1, <2>2, <2>3, Zenon DEF WriteSweep
<1>4. CASE UNCHANGED sweep
  BY <1>4, Zenon DEF SweepInv
<1>5. QED
  BY <1>2, <1>3, <1>4, SweepActions

\* A muted pulse stays mute through any number of clocks: the target that mutes
\* it is computed again from a period the sweep has not moved.
THEOREM MutedForGood == ApuSpec => SweepMutesForGood
<1>1. ApuInit => SweepInv
  <2> SUFFICES ASSUME ApuInit PROVE SweepInv
    OBVIOUS
  <2>1. sweep \in [is_channel_1 : BOOLEAN, timer_period : {0}, enabled : {FALSE}, period : {0},
                   negate : {FALSE}, shift : {0}, divider : {0}, reload : {FALSE}]
    BY Zenon DEF ApuInit
  <2>2. 0 \in 0 .. 7 /\ 0 \in ElevenBits
    BY SMT DEF ElevenBits
  <2>3. QED
    BY <2>1, <2>2, Zenon DEF SweepInv, Sweeps
<1>2. SweepInv /\ ClockSweep /\ Muted(sweep) => Muted(sweep')
  <2> SUFFICES ASSUME SweepInv, ClockSweep, Muted(sweep) PROVE Muted(sweep')
    OBVIOUS
  <2>1. ~SweepMoves(sweep)
    BY MutedStands, Zenon DEF SweepInv
  <2>2. PICK d, b : sweep' = [sweep EXCEPT !.timer_period = sweep.timer_period, !.divider = d,
                                           !.reload = b]
    BY <2>1, Zenon DEF ClockSweep
  <2>3. /\ sweep'.timer_period = sweep.timer_period /\ sweep'.shift = sweep.shift
        /\ sweep'.negate = sweep.negate /\ sweep'.is_channel_1 = sweep.is_channel_1
    BY <2>2, Zenon DEF SweepInv, Sweeps
  <2>4. SweepTarget(sweep') = SweepTarget(sweep)
    BY <2>3, SMT DEF SweepTarget
  <2>5. QED
    BY <2>3, <2>4, SMT DEF Muted
<1>3. QED
  <2>1. SweepInv /\ [ApuNext]_apu_vars
        => [ClockSweep /\ Muted(sweep) => Muted(sweep')]_apu_vars
    BY <1>2, Zenon
  <2>2. QED
    BY <1>1, <2>1, SweepStep, PTL DEF ApuSpec, SweepMutesForGood

=============================================================================
