----------------------------- MODULE LocalAudio -----------------------------
(***************************************************************************)
(* Audio output on the machine that emulates (audio.rs, and the loop of    *)
(* run_emulation in main.rs as far as it feeds and waits for it).  Two     *)
(* threads share a queue under a mutex: the emulation thread appends the   *)
(* samples of a frame and then sleeps until the queue has drained to the   *)
(* target; the device's callback thread takes samples whenever the device  *)
(* wants them.  Each holds the lock for a whole step.                      *)
(***************************************************************************)
EXTENDS Integers, Sequences, FiniteSetsExt

CONSTANTS
    Target,        \* TARGET_SAMPLES: samples the emulation runs ahead
    FrameSizes,    \* samples a frame may make
    CallbackSizes, \* samples the device may ask for at once
    Ids            \* numbers for samples, see SampleStream

\* Assumed by Host.  There is a longest frame and a longest callback.
SizesAssumption ==
    /\ Target \in Nat
    /\ FrameSizes \subseteq Nat \ {0} /\ CallbackSizes \subseteq Nat \ {0}
    /\ \E longest \in FrameSizes : \A n \in FrameSizes : n <= longest
    /\ \E longest \in CallbackSizes : \A n \in CallbackSizes : n <= longest

MaxFrame == Max(FrameSizes)

\* Assumed by Host.
IdsAssumption == Ids \in Nat /\ Ids > Target + 2 * MaxFrame

VARIABLES
    at,            \* where run_emulation is
    next,          \* number of the next sample (history)
    sample_buffer, \* Apu::sample_buffer: samples of the frame that is running
    buffer,        \* the shared queue
    played,        \* the last sample taken from it, or 0 (history)
    out,           \* the last sample of the last callback's output
    device         \* the device asks for samples

vars == <<at, next, sample_buffer, buffer, played, out, device>>

Silence == 0

Later(id, n) == ((id + n - 1) % Ids) + 1
Batch(id, n) == [i \in 1 .. n |-> Later(id, i - 1)]
Skip(n, s)   == SubSeq(s, n + 1, Len(s))

Init ==
    /\ at = "frame"
    /\ next = 1
    /\ sample_buffer = <<>> /\ buffer = <<>>
    /\ played = 0
    /\ out = Silence
    /\ device = TRUE

-----------------------------------------------------------------------------
(* The emulation thread.                                                   *)

\* A frame is emulated and leaves n samples in the APU.
RunFrame(n) ==
    /\ at = "frame"
    /\ at' = "queue"
    /\ sample_buffer' = sample_buffer \o Batch(next, n)
    /\ next' = Later(next, n)
    /\ UNCHANGED <<buffer, played, out, device>>

\* Mutant: the queue is replaced rather than extended.
QueueSamplesAnew ==
    /\ at = "queue"
    /\ at' = "input"
    /\ buffer' = sample_buffer
    /\ sample_buffer' = <<>>
    /\ UNCHANGED <<next, played, out, device>>

\* drain_samples takes them, queue_samples appends them.
QueueSamples ==
    /\ at = "queue"
    /\ at' = "input"
    /\ buffer' = buffer \o sample_buffer
    /\ sample_buffer' = <<>>
    /\ UNCHANGED <<next, played, out, device>>

\* render_frame may fail and handle_input may be told to quit.
HandleInput ==
    /\ at = "input"
    /\ at' \in {"pace", "quit"}
    /\ UNCHANGED <<next, sample_buffer, buffer, played, out, device>>

\* Mutants of the next action: it waits for the queue to fill; it does not wait.
PaceInverted ==
    /\ at = "pace"
    /\ Len(buffer) >= Target
    /\ at' = "frame"
    /\ UNCHANGED <<next, sample_buffer, buffer, played, out, device>>

PaceUnlimited ==
    /\ at = "pace"
    /\ at' = "frame"
    /\ UNCHANGED <<next, sample_buffer, buffer, played, out, device>>

\* The wait is over.
Pace ==
    /\ at = "pace"
    /\ Len(buffer) <= Target
    /\ at' = "frame"
    /\ UNCHANGED <<next, sample_buffer, buffer, played, out, device>>

\* It is not: sleep for a millisecond and look again.
Sleep ==
    /\ at = "pace"
    /\ Len(buffer) > Target
    /\ UNCHANGED vars

Emulate ==
    \/ \E n \in FrameSizes : RunFrame(n)
    \/ QueueSamples
    \/ HandleInput
    \/ Pace
    \/ Sleep

-----------------------------------------------------------------------------
(* The device.                                                             *)

\* n samples of output: what the queue has, then the last of these again.
\* `last' starts every callback at 0.0.
Callback(n) ==
    LET m == Min({n, Len(buffer)})
    IN  /\ device /\ at # "quit"
        /\ buffer' = Skip(m, buffer)
        /\ played' = IF m = 0 THEN played ELSE buffer[m]
        /\ out' = IF m = 0 THEN Silence ELSE buffer[m]
        /\ UNCHANGED <<at, next, sample_buffer, device>>

\* The device fails or is unplugged: the error callback only prints.
StreamError ==
    /\ device
    /\ device' = FALSE
    /\ UNCHANGED <<at, next, sample_buffer, buffer, played, out>>

SomeCallback == \E n \in CallbackSizes : Callback(n)

Next == Emulate \/ SomeCallback \/ StreamError

\* The emulation thread runs, and a device that works keeps asking.
Spec == Init /\ [][Next]_vars /\ WF_vars(Emulate) /\ WF_vars(SomeCallback)

-----------------------------------------------------------------------------

\* However callbacks fall against the emulation thread's two visits to the
\* queue, the sound is never further behind the picture than the target and
\* the frame just made.
BoundedLatency == Len(buffer) <= Target + MaxFrame

Stream == INSTANCE SampleStream
            WITH stream   <- buffer \o sample_buffer,
                 intact   <- TRUE,
                 MaxBatch <- Max(FrameSizes \cup CallbackSizes),
                 Backlog  <- 0

\* Every sample made is played once and in order.
NoSampleLost == Stream!Lossless

\* With a device that works the wait for it always ends: the keyboard is
\* looked at for ever, until it says to quit.
InputRecurs == [](device) => []<>(at \in {"input", "quit"})


-----------------------------------------------------------------------------
(* What a comment says that does not hold.                                 *)

\* "Hold last sample on underrun instead of outputting silence" (audio.rs).
HoldsLastSample == [][out # Silence => out' # Silence]_out

=============================================================================
