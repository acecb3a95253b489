---------------------------- MODULE RemoteAudio ----------------------------
(***************************************************************************)
(* Audio streamed to another machine (remote_audio.rs).  Samples pass from *)
(* the emulation thread through a bounded channel of per-frame batches to  *)
(* the sender thread, which writes them to a TCP connection; the listener  *)
(* reads them in chunks and appends these to the queue from which its      *)
(* device's callback plays.  The model begins when the header has been     *)
(* exchanged.  A sample is two bytes; read_exact and write_all keep them   *)
(* together, so the wire carries samples.                                  *)
(***************************************************************************)
EXTENDS Integers, Sequences, SequencesExt

CONSTANTS
    QueueFrames,   \* SENDER_QUEUE_FRAMES
    ChunkSamples,  \* CHUNK_SAMPLES
    BatchSizes,    \* samples a frame may make
    CallbackSizes, \* samples the listener's device may ask for at once
    WireCap,       \* samples the sockets of both ends hold (external)
    LastSample     \* bound: the emulator stops making samples here

\* Assumed by Host.  There is a longest frame and a longest callback.
SizesAssumption ==
    /\ QueueFrames \in Nat \ {0} /\ ChunkSamples \in Nat \ {0}
    /\ BatchSizes \subseteq Nat \ {0} /\ CallbackSizes \subseteq Nat \ {0}
    /\ \E longest \in BatchSizes : \A n \in BatchSizes : n <= longest
    /\ \E longest \in CallbackSizes : \A n \in CallbackSizes : n <= longest
    /\ WireCap \in Nat \ {0} /\ LastSample \in Nat

VARIABLES
    emulator, \* the emulating process runs
    next,     \* number of the next sample to be made (history)
    channel,  \* the sync_channel: a sequence of batches
    sender,   \* the sender thread runs
    hand,     \* what it still has to write of the batch it received
    link,     \* the connection: "up", "closed" by the emulator, or "broken"
    wire,     \* samples between write and read
    listener, \* the listening process runs
    chunk,    \* what read_exact has got so far
    buffer,   \* the listener's playback queue
    played    \* the last sample its callback took, or 0 (history)

sending   == <<emulator, next, channel, sender, hand>>
listening == <<listener, chunk, buffer, played>>
vars      == <<sending, link, wire, listening>>

Samples(n) == [i \in 1 .. n |-> next + i - 1]
Skip(n, s) == SubSeq(s, n + 1, Len(s))

Init ==
    /\ emulator = TRUE
    /\ next = 1
    /\ channel = <<>> /\ sender = TRUE /\ hand = <<>>
    /\ link = "up" /\ wire = <<>>
    /\ listener = TRUE /\ chunk = <<>> /\ buffer = <<>>
    /\ played = 0

-----------------------------------------------------------------------------
(* The emulation thread.                                                   *)

\* Mutant: the oldest batch makes room for the newest.
OfferDroppingOldest(batch) ==
    channel' = IF ~sender THEN channel
               ELSE Append(IF Len(channel) < QueueFrames THEN channel ELSE Tail(channel), batch)

\* try_send: a full channel and a sender that is gone both drop the batch.
Offer(batch) ==
    channel' = IF sender /\ Len(channel) < QueueFrames
                 THEN Append(channel, batch) ELSE channel

\* The samples of a frame, n of them.  It waits for nothing.
QueueSamples(n) ==
    /\ emulator
    /\ next + n <= LastSample + 1
    /\ Offer(Samples(n))
    /\ next' = next + n
    /\ UNCHANGED <<emulator, sender, hand, link, wire, listening>>

\* The player quits.  The process ends without waiting for the sender thread.
Quit ==
    /\ emulator
    /\ emulator' = FALSE
    /\ link' = IF link = "up" THEN "closed" ELSE link
    /\ channel' = <<>> /\ hand' = <<>> /\ sender' = FALSE
    /\ UNCHANGED <<next, wire, listening>>

-----------------------------------------------------------------------------
(* The sender thread.                                                      *)

\* Mutant: the batch stays in the channel.
RecvPeek ==
    /\ sender /\ hand = <<>> /\ channel # <<>>
    /\ hand' = Head(channel)
    /\ UNCHANGED <<emulator, next, channel, sender, link, wire, listening>>

Recv ==
    /\ sender /\ hand = <<>> /\ channel # <<>>
    /\ hand' = Head(channel)
    /\ channel' = Tail(channel)
    /\ UNCHANGED <<emulator, next, sender, link, wire, listening>>

\* write_all and flush: n more samples fit into the socket.
Send(n) ==
    /\ link = "up"
    /\ n <= Len(hand)
    /\ Len(wire) + n <= WireCap
    /\ wire' = wire \o SubSeq(hand, 1, n)
    /\ hand' = Skip(n, hand)
    /\ UNCHANGED <<emulator, next, channel, sender, link, listening>>

\* The connection has broken: what is written before the error shows goes
\* nowhere; the error ends the thread, and with it the channel.
SendIntoVoid ==
    /\ link = "broken" /\ sender /\ hand # <<>>
    /\ hand' = <<>>
    /\ UNCHANGED <<emulator, next, channel, sender, link, wire, listening>>

SendFails ==
    /\ link = "broken" /\ sender /\ hand # <<>>
    /\ sender' = FALSE /\ hand' = <<>> /\ channel' = <<>>
    /\ UNCHANGED <<emulator, next, link, wire, listening>>

-----------------------------------------------------------------------------
(* The network and the listener.                                           *)

\* Of what was under way a first part may still be read.
Break ==
    /\ link = "up"
    /\ link' = "broken"
    /\ \E n \in 0 .. Len(wire) : wire' = SubSeq(wire, 1, n)
    /\ UNCHANGED <<sending, listening>>

\* Mutant: the whole chunk has to be there at once.
ReceiveWhole(n) ==
    /\ listener
    /\ n = ChunkSamples - Len(chunk)
    /\ n <= Len(wire)
    /\ chunk' = chunk \o SubSeq(wire, 1, n)
    /\ wire' = Skip(n, wire)
    /\ UNCHANGED <<sending, link, listener, buffer, played>>

\* read_exact gets n more samples.
Receive(n) ==
    /\ listener
    /\ n <= Len(wire)
    /\ Len(chunk) + n <= ChunkSamples
    /\ chunk' = chunk \o SubSeq(wire, 1, n)
    /\ wire' = Skip(n, wire)
    /\ UNCHANGED <<sending, link, listener, buffer, played>>

\* A chunk is complete and goes to the playback queue.
PushChunk ==
    /\ listener
    /\ Len(chunk) = ChunkSamples
    /\ buffer' = buffer \o chunk
    /\ chunk' = <<>>
    /\ UNCHANGED <<sending, link, wire, listener, played>>

\* End of stream or error: run_listen returns and the process ends, however
\* much it has not played yet.
StreamEnds ==
    /\ listener /\ link # "up" /\ wire = <<>> /\ Len(chunk) < ChunkSamples
    /\ listener' = FALSE /\ chunk' = <<>> /\ buffer' = <<>>
    /\ UNCHANGED <<sending, link, wire, played>>

\* The listener is killed.
KillListener ==
    /\ listener
    /\ listener' = FALSE /\ chunk' = <<>> /\ buffer' = <<>>
    /\ link' = IF link = "up" THEN "broken" ELSE link
    /\ wire' = <<>>
    /\ UNCHANGED <<sending, played>>

\* The device plays n samples, or what there is.
Callback(n) ==
    LET m == Min({n, Len(buffer)})
    IN  /\ listener
        /\ buffer # <<>>
        /\ played' = buffer[m]
        /\ buffer' = Skip(m, buffer)
        /\ UNCHANGED <<sending, link, wire, listener, chunk>>

SomeSend     == \E n \in 1 .. WireCap : Send(n)
SomeReceive  == \E n \in 1 .. ChunkSamples : Receive(n)
SomeCallback == \E n \in CallbackSizes : Callback(n)

Next ==
    \/ \E n \in BatchSizes : QueueSamples(n)
    \/ Quit
    \/ Recv \/ SomeSend \/ SendIntoVoid \/ SendFails
    \/ Break
    \/ SomeReceive \/ PushChunk \/ StreamEnds \/ KillListener
    \/ SomeCallback

\* The threads run, and the network carries what it has.  Nothing is assumed
\* of when the emulator makes samples.
Spec ==
    /\ Init /\ [][Next]_vars
    /\ WF_vars(Recv) /\ WF_vars(SomeSend)
    /\ WF_vars(SomeReceive) /\ WF_vars(PushChunk) /\ WF_vars(SomeCallback)

-----------------------------------------------------------------------------

InFlight == buffer \o chunk \o wire \o hand \o FlattenSeq(channel)

Stream == INSTANCE SampleStream
            WITH stream   <- InFlight,
                 intact   <- link = "up",
                 Ids      <- LastSample + 1,
                 MaxBatch <- Max(BatchSizes \cup CallbackSizes),
                 Backlog  <- QueueFrames * Min(BatchSizes)

\* What is heard is heard once and in order, whatever was refused or lost; as
\* long as the connection is up nothing that entered the channel is lost, and
\* nothing is refused unless a channelful waits.
ImplementsStream == Stream!Lossy

\* As long as the connection is up the stream drains, but for a last part of a
\* chunk: nobody waits for a batch to be complete that will not fit.
StreamDrains == [](link = "up") => <>[](Len(InFlight) < ChunkSamples)

=============================================================================
