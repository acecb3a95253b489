------------------------------ MODULE Vrc6Irq ------------------------------
(***************************************************************************)
(* The interrupt counter of mappers 24 and 26 (cartridge/mapper/vrc6.rs),  *)
(* clocked by CPU cycles: by each of them in cycle mode, else once in      *)
(* every LinePeriod / DotsPerCycle of them, which a prescaler that counts  *)
(* picture dots makes 113 or 114 cycles.                                   *)
(***************************************************************************)
EXTENDS Integers

CONSTANTS
    MaxCount,      \* 255
    LinePeriod,    \* dots in a line: 341
    DotsPerCycle   \* 3

\* Assumed by Cartridge.
PrescalerAssumption ==
    /\ MaxCount \in Nat
    /\ DotsPerCycle \in Nat \ {0}
    /\ LinePeriod \in Nat /\ LinePeriod > DotsPerCycle

VARIABLES
    irq_latch, irq_counter, irq_mode_cycle,
    irq_enable, irq_enable_after_ack, irq_pending, irq_prescaler,
    cycles,   \* cycles the prescaler has counted since it was last in step
    clocks    \* and the clocks it has given (history)

registers == <<irq_latch, irq_mode_cycle, irq_enable, irq_enable_after_ack>>
history   == <<cycles, clocks>>
vars      == <<registers, irq_counter, irq_pending, irq_prescaler, history>>

Init ==
    /\ irq_latch = 0 /\ irq_counter = 0
    /\ irq_mode_cycle = FALSE
    /\ irq_enable = FALSE /\ irq_enable_after_ack = FALSE
    /\ irq_pending = FALSE
    /\ irq_prescaler = LinePeriod
    /\ cycles = 0 /\ clocks = 0

\* Mutant: the counter goes through 0 before it reloads.
ClockIrqCounterWraps ==
    /\ irq_counter' = IF irq_counter = 0 THEN irq_latch
                      ELSE (irq_counter + 1) % (MaxCount + 1)
    /\ irq_pending' = (irq_pending \/ irq_counter = MaxCount)

ClockIrqCounter ==
    /\ irq_counter' = IF irq_counter = MaxCount THEN irq_latch ELSE irq_counter + 1
    /\ irq_pending' = (irq_pending \/ irq_counter = MaxCount)

Idle ==
    /\ ~irq_enable
    /\ UNCHANGED vars

TickCycleMode ==
    /\ irq_enable /\ irq_mode_cycle
    /\ ClockIrqCounter
    /\ UNCHANGED <<registers, irq_prescaler, history>>

\* The dot count goes around once in LinePeriod cycles.
InStep(n) == IF cycles + 1 = LinePeriod THEN 0 ELSE n

\* Mutants of the next action: the prescaler starts over instead of carrying
\* on; it clocks one dot late.
TickScanlineModeDrifts ==
    /\ irq_enable /\ ~irq_mode_cycle
    /\ LET dots == irq_prescaler - DotsPerCycle
       IN  /\ irq_prescaler' = IF dots <= 0 THEN LinePeriod ELSE dots
           /\ IF dots <= 0 THEN ClockIrqCounter ELSE UNCHANGED <<irq_counter, irq_pending>>
           /\ clocks' = InStep(IF dots <= 0 THEN clocks + 1 ELSE clocks)
    /\ cycles' = InStep(cycles + 1)
    /\ UNCHANGED registers

TickScanlineModeLate ==
    /\ irq_enable /\ ~irq_mode_cycle
    /\ LET dots == irq_prescaler - DotsPerCycle
       IN  /\ irq_prescaler' = IF dots < 0 THEN dots + LinePeriod ELSE dots
           /\ IF dots < 0 THEN ClockIrqCounter ELSE UNCHANGED <<irq_counter, irq_pending>>
           /\ clocks' = InStep(IF dots < 0 THEN clocks + 1 ELSE clocks)
    /\ cycles' = InStep(cycles + 1)
    /\ UNCHANGED registers

TickScanlineMode ==
    /\ irq_enable /\ ~irq_mode_cycle
    /\ LET dots == irq_prescaler - DotsPerCycle
       IN  /\ irq_prescaler' = IF dots <= 0 THEN dots + LinePeriod ELSE dots
           /\ IF dots <= 0 THEN ClockIrqCounter ELSE UNCHANGED <<irq_counter, irq_pending>>
           /\ clocks' = InStep(IF dots <= 0 THEN clocks + 1 ELSE clocks)
    /\ cycles' = InStep(cycles + 1)
    /\ UNCHANGED registers

\* tick_cpu.
TickCpu == Idle \/ TickCycleMode \/ TickScanlineMode

\* $F000
WriteLatch(val) ==
    /\ irq_latch' = val
    /\ UNCHANGED <<irq_counter, irq_mode_cycle, irq_enable, irq_enable_after_ack,
                   irq_pending, irq_prescaler, history>>

\* $F001
WriteControl(after_ack, enable, mode) ==
    /\ irq_enable_after_ack' = after_ack
    /\ irq_enable' = enable
    /\ irq_mode_cycle' = mode
    /\ irq_prescaler' = LinePeriod
    /\ irq_counter' = IF enable THEN irq_latch ELSE irq_counter
    /\ irq_pending' = FALSE
    /\ cycles' = 0 /\ clocks' = 0
    /\ UNCHANGED irq_latch

\* Mutant: the acknowledgement restarts the counter.
AcknowledgeRestarts ==
    /\ irq_enable' = irq_enable_after_ack
    /\ irq_pending' = FALSE
    /\ irq_counter' = 0
    /\ UNCHANGED <<irq_latch, irq_mode_cycle, irq_enable_after_ack,
                   irq_prescaler, history>>

\* Mutant: the request is left standing.
AcknowledgeNothing ==
    /\ irq_enable' = irq_enable_after_ack
    /\ UNCHANGED <<irq_latch, irq_counter, irq_mode_cycle, irq_enable_after_ack,
                   irq_pending, irq_prescaler, history>>

\* $F002
Acknowledge ==
    /\ irq_enable' = irq_enable_after_ack
    /\ irq_pending' = FALSE
    /\ UNCHANGED <<irq_latch, irq_counter, irq_mode_cycle, irq_enable_after_ack,
                   irq_prescaler, history>>

Write ==
    \/ \E val \in 0 .. MaxCount : WriteLatch(val)
    \/ \E after_ack, enable, mode \in BOOLEAN : WriteControl(after_ack, enable, mode)
    \/ Acknowledge

Next == TickCpu \/ Write

Spec == Init /\ [][Next]_vars

-----------------------------------------------------------------------------

\* The type invariant.
TypeOK ==
    /\ irq_latch \in 0 .. MaxCount /\ irq_counter \in 0 .. MaxCount
    /\ irq_mode_cycle \in BOOLEAN
    /\ irq_enable \in BOOLEAN /\ irq_enable_after_ack \in BOOLEAN
    /\ irq_pending \in BOOLEAN
    /\ irq_prescaler \in 1 .. LinePeriod
    /\ cycles \in 0 .. LinePeriod - 1 /\ clocks \in 0 .. DotsPerCycle

\* The prescaler neither loses nor gains a dot, so the counter stays in step
\* with the picture for ever: LinePeriod cycles make DotsPerCycle clocks.
\* Acknowledging, latching, pausing and changing over to cycle mode and back
\* by $F002 leave it where it was.
NoDrift == DotsPerCycle * cycles + irq_prescaler = LinePeriod * (clocks + 1)

\* Switching the counter off, in either way, leaves no request behind.
DisabledMeansClear == ~irq_enable => ~irq_pending

Timer == INSTANCE IntervalTimer
           WITH MaxLeft <- MaxCount + 1, Direct <- FALSE,
                left    <- MaxCount + 1 - irq_counter,
                period  <- MaxCount + 1 - irq_latch,
                running <- irq_enable, armed <- irq_enable,
                pending <- irq_pending

\* The interrupt comes after as many clocks as the latch lacks to 256, and
\* acknowledging one does not move the next.
ImplementsTimer == Timer!Spec

=============================================================================
