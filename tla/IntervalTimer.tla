--------------------------- MODULE IntervalTimer ---------------------------
(***************************************************************************)
(* What a cartridge's interrupt counter promises, whatever it counts: a    *)
(* running timer expires after exactly as many events as were left when it *)
(* was last started, starts over from its period without losing one, and   *)
(* requests an interrupt exactly when it expires while armed.  The program *)
(* can withdraw a request but not make one.  Mmc3Irq, Vrc6Irq and Fme7Irq  *)
(* implement it.                                                           *)
(***************************************************************************)
EXTENDS Integers

CONSTANTS
    MaxLeft,  \* the longest interval
    Direct    \* the program can set what is left, not only start over

VARIABLES
    left,     \* events until the timer expires
    period,   \* events it starts over with
    running,  \* events are counted
    armed,    \* expiry requests an interrupt
    pending   \* an interrupt is requested

vars == <<left, period, running, armed, pending>>

Init ==
    /\ left \in 1 .. MaxLeft /\ period \in 1 .. MaxLeft
    /\ running \in BOOLEAN /\ armed \in BOOLEAN
    /\ pending = FALSE

Count ==
    /\ running /\ left > 1
    /\ left' = left - 1
    /\ UNCHANGED <<period, running, armed, pending>>

Expire ==
    /\ running /\ left = 1
    /\ left' = period
    /\ pending' = (pending \/ armed)
    /\ UNCHANGED <<period, running, armed>>

\* Disarming withdraws the request.
Program ==
    /\ period' \in 1 .. MaxLeft
    /\ left' \in IF Direct THEN 1 .. MaxLeft ELSE {left, period'}
    /\ running' \in BOOLEAN /\ armed' \in BOOLEAN
    /\ pending' \in {pending, FALSE}
    /\ ~armed' => ~pending'

Next == Count \/ Expire \/ Program

Spec == Init /\ [][Next]_vars

=============================================================================
