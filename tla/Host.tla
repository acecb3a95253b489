-------------------------------- MODULE Host --------------------------------
(***************************************************************************)
(* What run_emulation (main.rs) does between two frames, with the player's *)
(* machine around it: samples go to the device here or to a listener far   *)
(* away, never to both, and keys come in.  These three parts share no      *)
(* field; so they are followed apart, and watched names the one that       *)
(* moves.                                                                  *)
(***************************************************************************)
EXTENDS Integers, Sequences

CONSTANTS
    Keys, HoldFrames, RepeatFrames, QueueCap, NoKey, NoState,       \* KeyInput
    Target, FrameSizes, CallbackSizes, Ids,                         \* LocalAudio
    QueueFrames, ChunkSamples, BatchSizes, PlaySizes, WireCap,
    LastSample                                                      \* RemoteAudio

VARIABLES
    watched,
    held, repeating, wait, heard, events, at, has_enhancement, autoresume,
    timers, pressed, slot, unsettled,
    pacing, made, sample_buffer, queue, taken, out, device,
    emulator, next, channel, sender, hand, link, wire, listener, chunk,
    buffer, played

Key    == INSTANCE KeyInput
Local  == INSTANCE LocalAudio
            WITH at <- pacing, next <- made, buffer <- queue, played <- taken
Remote == INSTANCE RemoteAudio WITH CallbackSizes <- PlaySizes

ASSUME PartsAssumption ==
    /\ Key!HoldAssumption
    /\ Local!SizesAssumption /\ Local!IdsAssumption
    /\ Remote!SizesAssumption

key_vars    == <<held, repeating, wait, heard, events, at, has_enhancement, autoresume,
                 timers, pressed, slot, unsettled>>
local_vars  == <<pacing, made, sample_buffer, queue, taken, out, device>>
remote_vars == <<emulator, next, channel, sender, hand, link, wire, listener, chunk,
                 buffer, played>>
vars == <<watched, key_vars, local_vars, remote_vars>>

Init ==
    /\ watched \in {"Keys", "Local", "Remote"}
    /\ Key!Init /\ Local!Init /\ Remote!Init
    /\ watched # "Keys" => ~has_enhancement /\ ~autoresume

OfKeys(step)   == watched = "Keys" /\ step /\ UNCHANGED <<watched, local_vars, remote_vars>>
OfLocal(step)  == watched = "Local" /\ step /\ UNCHANGED <<watched, key_vars, remote_vars>>
OfRemote(step) == watched = "Remote" /\ step /\ UNCHANGED <<watched, key_vars, local_vars>>

Next == OfKeys(Key!Next) \/ OfLocal(Local!Next) \/ OfRemote(Remote!Next)

\* The fairness of the three: the emulator's threads run, a device that works
\* keeps asking, the network carries what it has, and the terminal repeats a key
\* before it is overdue.
Spec ==
    /\ Init /\ [][Next]_vars
    /\ WF_vars(OfKeys(Key!Handle)) /\ SF_vars(OfKeys(Key!Poll))
    /\ SF_vars(OfKeys(Key!TickFrame)) /\ SF_vars(OfKeys(Key!KeyRepeats))
    /\ WF_vars(OfLocal(Local!Emulate)) /\ WF_vars(OfLocal(Local!SomeCallback))
    /\ WF_vars(OfRemote(Remote!Recv)) /\ WF_vars(OfRemote(Remote!SomeSend))
    /\ WF_vars(OfRemote(Remote!SomeReceive)) /\ WF_vars(OfRemote(Remote!PushChunk))
    /\ WF_vars(OfRemote(Remote!SomeCallback))

-----------------------------------------------------------------------------

\* Without releases the timer outlasts the repetition, so that a button stays
\* down until its key is let go; with releases the buttons are the keys
\* (InputState in main.rs).
ButtonsFollowKeys == Key!RepeatedKeyStaysPressed /\ Key!EnhancedIsExact

\* A key that is let go for good leaves no button down (InputState::tick_frame).
ButtonsComeUp == watched = "Keys" => Key!ButtonsComeUp

\* The sound is never further behind the picture than the target and one frame
\* (the wait at the end of run_emulation's loop).
BoundedLatency == Local!BoundedLatency

\* Samples are heard once and in order; locally none is lost, and over the
\* network none that was accepted while the connection is up (audio.rs,
\* remote_audio.rs).
ImplementsStream == Local!NoSampleLost /\ Remote!ImplementsStream

\* The wait for the device always ends, so the keyboard is looked at again.
InputRecurs == watched = "Local" => Local!InputRecurs

\* As long as the connection is up the stream drains, but for a last part of a
\* chunk (the three loops of remote_audio.rs).
StreamDrains == watched = "Remote" => Remote!StreamDrains

=============================================================================
