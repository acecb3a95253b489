--------------------------- MODULE SampleReader ---------------------------
(***************************************************************************)
(* What the delta modulation channel promises, without its timer, its      *)
(* registers, the request flag or the bus: a sample is a run of ROM bytes  *)
(* that pass one at a time, in address order and each exactly once, from   *)
(* ROM into a one-byte buffer and from there into the shift register.      *)
(* Dmc (module DmcReader) implements it.                                   *)
(***************************************************************************)
EXTENDS Integers

CONSTANTS
    AddrSpace, RomBase, Rom,
    SampleAddrs,   \* where a sample may start
    SampleLens,    \* how many bytes it may have
    NoByte

VARIABLES
    at,        \* address of the next byte
    left,      \* bytes of the sample that are still to be read
    buffer,    \* the byte read ahead, or NoByte
    shifter,   \* what remains of the byte being played
    silent,    \* no byte is being played
    irq        \* the end of a sample has been reported

vars == <<at, left, buffer, shifter, silent, irq>>

Init ==
    /\ at \in SampleAddrs
    /\ left = 0
    /\ buffer = NoByte
    /\ shifter = 0
    /\ silent = TRUE
    /\ irq = FALSE

Successor(a) == IF a = AddrSpace - 1 THEN RomBase ELSE a + 1

-----------------------------------------------------------------------------
(* One bus cycle is a step of the output unit, which leaves b in the        *)
(* buffer, followed by a step of the reader, which finds it there.          *)

\* The output unit plays on: a bit may leave the shift register.
PlayOn(b) ==
    /\ b = buffer
    /\ shifter' \in {shifter, shifter \div 2}
    /\ UNCHANGED silent

\* The output unit takes the buffered byte.
TakeByte(b) ==
    /\ buffer # NoByte
    /\ b = NoByte
    /\ shifter' = buffer
    /\ silent' = FALSE

\* The output unit finds the buffer empty.
RunDry(b) ==
    /\ buffer = NoByte
    /\ b = NoByte
    /\ shifter' \in {shifter, shifter \div 2}
    /\ silent' = TRUE

Output(b) == PlayOn(b) \/ TakeByte(b) \/ RunDry(b)

ReadNothing(b) ==
    /\ buffer' = b
    /\ UNCHANGED <<at, left, irq>>

\* The reader fills the empty buffer.
ReadByte(b) ==
    /\ b = NoByte
    /\ left > 0
    /\ buffer' = Rom[at]
    /\ \/ /\ left > 1
          /\ left' = left - 1
          /\ at' = Successor(at)
          /\ UNCHANGED irq
       \/ /\ left = 1                         \* the sample is over
          /\ left' = 0
          /\ at' = Successor(at)
          /\ irq' \in {irq, TRUE}
       \/ /\ left = 1                         \* or begins again
          /\ left' \in SampleLens
          /\ at' \in SampleAddrs
          /\ UNCHANGED irq

Cycle == \E b \in {buffer, NoByte} : Output(b) /\ (ReadNothing(b) \/ ReadByte(b))

-----------------------------------------------------------------------------
(* What the program asks for.                                               *)

\* A sample is started only when no other one is being read.
Start ==
    /\ left = 0
    /\ left' \in SampleLens
    /\ at' \in SampleAddrs
    /\ irq' = FALSE
    /\ UNCHANGED <<buffer, shifter, silent>>

\* The rest of the sample is given up; what was read ahead is still played.
Stop ==
    /\ left' = 0
    /\ irq' = FALSE
    /\ UNCHANGED <<at, buffer, shifter, silent>>

Acknowledge ==
    /\ irq' = FALSE
    /\ UNCHANGED <<at, left, buffer, shifter, silent>>

Next == Cycle \/ Start \/ Stop \/ Acknowledge

\* A byte that is wanted is read, unless the program gives the sample up.
ReaderProgress == (left > 0 /\ buffer = NoByte) ~> (buffer # NoByte \/ left = 0)

Safety == Init /\ [][Next]_vars
Spec   == Safety /\ ReaderProgress

=============================================================================
