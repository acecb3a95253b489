---------------------------- MODULE SampleStream ----------------------------
(***************************************************************************)
(* What the audio output promises of the samples the emulator makes: those *)
(* that are heard are heard in the order in which they were made and once. *)
(* Played locally none is lost.  Streamed to another machine, the newest   *)
(* batch may be refused while others wait, and what is under way may be    *)
(* lost with the connection.  LocalAudio and RemoteAudio implement it.     *)
(*                                                                         *)
(* Samples are numbered 1 .. Ids as they are made, and around.             *)
(***************************************************************************)
EXTENDS Integers, Sequences

CONSTANTS
    Ids,       \* numbers for samples: more than are ever under way at once
    MaxBatch,  \* no batch, and no piece played at a time, is longer
    Backlog    \* a batch is not refused while fewer samples are under way

VARIABLES
    next,      \* number of the next sample to be made
    stream,    \* samples under way, oldest first
    played,    \* the last sample heard, or 0
    intact     \* the way to the listener is open

vars == <<next, stream, played, intact>>

Init ==
    /\ next = 1
    /\ stream = <<>>
    /\ played = 0
    /\ intact = TRUE

\* The number n places after id, and n consecutive samples from id on.
Later(id, n) == ((id + n - 1) % Ids) + 1
Batch(id, n) == [i \in 1 .. n |-> Later(id, i - 1)]

Accept(n) ==
    /\ stream' = stream \o Batch(next, n)
    /\ next' = Later(next, n)
    /\ UNCHANGED <<played, intact>>

Refuse(n) ==
    /\ ~intact \/ Len(stream) >= Backlog
    /\ next' = Later(next, n)
    /\ UNCHANGED <<stream, played, intact>>

Play(n) ==
    /\ n <= Len(stream)
    /\ played' = stream[n]
    /\ stream' = SubSeq(stream, n + 1, Len(stream))
    /\ UNCHANGED <<next, intact>>

\* A stretch of the stream is lost: only with the connection.
Lose ==
    /\ intact' = FALSE
    /\ \E i \in 0 .. Len(stream) : \E j \in i .. Len(stream) :
          stream' = SubSeq(stream, 1, i) \o SubSeq(stream, j + 1, Len(stream))
    /\ UNCHANGED <<next, played>>

LosslessNext == \E n \in 1 .. MaxBatch : Accept(n) \/ Play(n)
LossyNext    == LosslessNext \/ Lose \/ \E n \in 1 .. MaxBatch : Refuse(n)

Lossless == Init /\ [][LosslessNext]_vars
Lossy    == Init /\ [][LossyNext]_vars

=============================================================================
