------------------------------ MODULE Fme7Irq ------------------------------
(***************************************************************************)
(* The interrupt counter of mapper 69 (cartridge/mapper/sunsoft_fme7.rs).  *)
(* It counts CPU cycles down through 0 and can be stopped; its two bytes   *)
(* are written one at a time, through a command register, while it runs.   *)
(***************************************************************************)
EXTENDS Integers

CONSTANT Bytes  \* values of a byte: 256

\* Assumed by Cartridge.
BytesAssumption == Bytes \in Nat \ {0}

VARIABLES
    irq_counter, irq_enable, irq_counter_enable, irq_pending

vars == <<irq_counter, irq_enable, irq_counter_enable, irq_pending>>

Byte     == 0 .. Bytes - 1
LongestCount == Bytes * Bytes - 1

Init ==
    /\ irq_counter = 0
    /\ irq_enable = FALSE /\ irq_counter_enable = FALSE
    /\ irq_pending = FALSE

\* Mutants of the next action: the counter runs below 0; the wrap loses a
\* count; the counter stays at 0.
TickCpuUnderflows ==
    /\ irq_counter' = IF irq_counter_enable THEN irq_counter - 1 ELSE irq_counter
    /\ irq_pending' = (irq_pending \/ (irq_counter_enable /\ irq_counter = 0 /\ irq_enable))
    /\ UNCHANGED <<irq_enable, irq_counter_enable>>

TickCpuShort ==
    /\ irq_counter' = IF ~irq_counter_enable THEN irq_counter
                      ELSE IF irq_counter = 0 THEN LongestCount - 1 ELSE irq_counter - 1
    /\ irq_pending' = (irq_pending \/ (irq_counter_enable /\ irq_counter = 0 /\ irq_enable))
    /\ UNCHANGED <<irq_enable, irq_counter_enable>>

TickCpuStops ==
    /\ irq_counter' = IF ~irq_counter_enable \/ irq_counter = 0 THEN irq_counter
                      ELSE irq_counter - 1
    /\ irq_pending' = (irq_pending \/ (irq_counter_enable /\ irq_counter = 1 /\ irq_enable))
    /\ UNCHANGED <<irq_enable, irq_counter_enable>>

\* tick_cpu.
TickCpu ==
    /\ irq_counter' = IF ~irq_counter_enable THEN irq_counter
                      ELSE IF irq_counter = 0 THEN LongestCount ELSE irq_counter - 1
    /\ irq_pending' = (irq_pending \/ (irq_counter_enable /\ irq_counter = 0 /\ irq_enable))
    /\ UNCHANGED <<irq_enable, irq_counter_enable>>

\* Mutant: the request is left standing.
WriteControlOnly(counting, enable) ==
    /\ irq_counter_enable' = counting
    /\ irq_enable' = enable
    /\ UNCHANGED <<irq_counter, irq_pending>>

\* Commands $D, $E and $F.
WriteControl(counting, enable) ==
    /\ irq_counter_enable' = counting
    /\ irq_enable' = enable
    /\ irq_pending' = FALSE
    /\ UNCHANGED irq_counter

WriteLow(val) ==
    /\ irq_counter' = (irq_counter \div Bytes) * Bytes + val
    /\ UNCHANGED <<irq_enable, irq_counter_enable, irq_pending>>

WriteHigh(val) ==
    /\ irq_counter' = (irq_counter % Bytes) + val * Bytes
    /\ UNCHANGED <<irq_enable, irq_counter_enable, irq_pending>>

Write ==
    \/ \E counting, enable \in BOOLEAN : WriteControl(counting, enable)
    \/ \E val \in Byte : WriteLow(val) \/ WriteHigh(val)

Next == TickCpu \/ Write

Spec == Init /\ [][Next]_vars

-----------------------------------------------------------------------------

\* The type invariant.
TypeOK ==
    /\ irq_counter \in 0 .. LongestCount
    /\ irq_enable \in BOOLEAN /\ irq_counter_enable \in BOOLEAN
    /\ irq_pending \in BOOLEAN

Timer == INSTANCE IntervalTimer
           WITH MaxLeft <- LongestCount + 1, Direct <- TRUE,
                left    <- irq_counter + 1,
                period  <- LongestCount + 1,
                running <- irq_counter_enable, armed <- irq_enable,
                pending <- irq_pending

\* The interrupt comes one cycle after the counter has reached 0, and then
\* every 65536 cycles, acknowledged or not.
ImplementsTimer == Timer!Spec

=============================================================================
