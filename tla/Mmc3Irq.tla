------------------------------ MODULE Mmc3Irq ------------------------------
(***************************************************************************)
(* The interrupt counter of mapper 4 (cartridge/mapper/mmc3.rs).  The PPU  *)
(* clocks it once in each line it renders; the program's register writes   *)
(* fall anywhere between.  A write to $C001 takes effect at the next clock. *)
(***************************************************************************)
EXTENDS Integers

CONSTANT MaxLatch  \* the largest byte

\* Assumed by Cartridge.
MaxLatchAssumption == MaxLatch \in Nat

VARIABLES
    irq_latch, irq_counter, irq_enabled, irq_reload, irq_pending

vars == <<irq_latch, irq_counter, irq_enabled, irq_reload, irq_pending>>

Init ==
    /\ irq_latch = 0 /\ irq_counter = 0
    /\ irq_enabled = FALSE /\ irq_reload = FALSE /\ irq_pending = FALSE

\* Mutants of the next action: only the flag reloads the counter; a reload
\* leaves the flag set; the counter reloads one clock early.
TickScanlineUnderflows ==
    /\ irq_counter' = IF irq_reload THEN irq_latch ELSE irq_counter - 1
    /\ irq_reload' = FALSE
    /\ irq_pending' = (irq_pending \/ (irq_counter' = 0 /\ irq_enabled))
    /\ UNCHANGED <<irq_latch, irq_enabled>>

TickScanlineReloads ==
    /\ irq_counter' = IF irq_counter = 0 \/ irq_reload THEN irq_latch
                      ELSE irq_counter - 1
    /\ irq_pending' = (irq_pending \/ (irq_counter' = 0 /\ irq_enabled))
    /\ UNCHANGED <<irq_latch, irq_enabled, irq_reload>>

TickScanlineEarly ==
    /\ irq_counter' = IF irq_counter <= 1 \/ irq_reload THEN irq_latch
                      ELSE irq_counter - 1
    /\ irq_reload' = FALSE
    /\ irq_pending' = (irq_pending \/ (irq_counter' = 0 /\ irq_enabled))
    /\ UNCHANGED <<irq_latch, irq_enabled>>

\* tick_scanline.
TickScanline ==
    /\ irq_counter' = IF irq_counter = 0 \/ irq_reload THEN irq_latch
                      ELSE irq_counter - 1
    /\ irq_reload' = FALSE
    /\ irq_pending' = (irq_pending \/ (irq_counter' = 0 /\ irq_enabled))
    /\ UNCHANGED <<irq_latch, irq_enabled>>

\* $C000
WriteLatch(val) ==
    /\ irq_latch' = val
    /\ UNCHANGED <<irq_counter, irq_enabled, irq_reload, irq_pending>>

\* $C001
WriteReload ==
    /\ irq_reload' = TRUE
    /\ UNCHANGED <<irq_latch, irq_counter, irq_enabled, irq_pending>>

\* Mutant: the request is left standing.
WriteDisableOnly ==
    /\ irq_enabled' = FALSE
    /\ UNCHANGED <<irq_latch, irq_counter, irq_reload, irq_pending>>

\* $E000
WriteDisable ==
    /\ irq_enabled' = FALSE
    /\ irq_pending' = FALSE
    /\ UNCHANGED <<irq_latch, irq_counter, irq_reload>>

\* $E001
WriteEnable ==
    /\ irq_enabled' = TRUE
    /\ UNCHANGED <<irq_latch, irq_counter, irq_reload, irq_pending>>

Write ==
    \/ \E val \in 0 .. MaxLatch : WriteLatch(val)
    \/ WriteReload
    \/ WriteDisable
    \/ WriteEnable

Next == TickScanline \/ Write

Spec == Init /\ [][Next]_vars

-----------------------------------------------------------------------------

\* The type invariant.
TypeOK ==
    /\ irq_latch \in 0 .. MaxLatch /\ irq_counter \in 0 .. MaxLatch
    /\ irq_enabled \in BOOLEAN /\ irq_reload \in BOOLEAN
    /\ irq_pending \in BOOLEAN

\* Clocks until the counter reaches 0.
Left == IF irq_counter = 0 \/ irq_reload THEN irq_latch + 1 ELSE irq_counter

Timer == INSTANCE IntervalTimer
           WITH MaxLeft <- MaxLatch + 1, Direct <- FALSE,
                left <- Left, period <- irq_latch + 1, running <- TRUE,
                armed <- irq_enabled, pending <- irq_pending

\* The interrupt comes latch + 1 lines after the last, or after the reload was
\* asked for, whatever is written to the latch while the counter runs.
ImplementsTimer == Timer!Spec

=============================================================================
