------------------------------ MODULE KeyInput ------------------------------
(***************************************************************************)
(* From the keyboard to joypad 1 (InputState and handle_input in main.rs). *)
(* A terminal with keyboard enhancement reports presses and releases; any  *)
(* other reports a press and then repeats it while the key is down, and a  *)
(* timer stands in for the release.  The terminal is modelled as it is     *)
(* used here: it queues events, and repeats only the key pressed last.     *)
(* Events arrive at any time; the emulator drains the queue once a frame   *)
(* and then ticks its timers.  F5, F9 and Esc are in the queue like the    *)
(* other keys; the state's file outlives the process.                      *)
(***************************************************************************)
EXTENDS Integers, Sequences, Functions

CONSTANTS
    Keys,          \* keys that stand for a button, and the buttons
    HoldFrames,    \* HOLD_FRAMES
    RepeatFrames,  \* the terminal repeats a key at least this often (external)
    QueueCap,      \* bound: events waiting at once
    NoKey, NoState

\* Assumed by Host.
HoldAssumption ==
    /\ HoldFrames \in Nat /\ RepeatFrames \in Nat
    /\ RepeatFrames + 2 <= HoldFrames
    /\ NoKey \notin Keys /\ QueueCap \in Nat

VARIABLES
    held, repeating, wait,   \* the keyboard: keys down, the one that repeats,
                             \* frames since it was last reported
    heard,                   \* the emulator has acted on that key (history)
    events,                  \* the terminal's queue
    at,                      \* where the emulator is
    has_enhancement, autoresume,
    timers,                  \* remaining frames, for the armed keys
    pressed,                 \* the buttons of joypad1.button_state
    slot,                    \* the buttons in the state's file, or NoState
    unsettled                \* keys not heard of since a state was loaded or
                             \* the process started (history)

keyboard == <<held, repeating, wait>>
process  == <<at, has_enhancement, autoresume, timers, pressed, slot, unsettled>>
vars     == <<keyboard, heard, events, process>>

Key(kind, k) == [kind |-> kind, key |-> k]
FunctionKeys == {Key(kind, NoKey) : kind \in {"F5", "F9", "Esc"}}

NoTimers == [k \in {} |-> 0]

Init ==
    /\ held = {} /\ repeating = NoKey /\ wait = 0 /\ heard = FALSE
    /\ events = <<>>
    /\ at = "input"
    /\ has_enhancement \in BOOLEAN /\ autoresume \in BOOLEAN
    /\ timers = NoTimers
    /\ pressed = {} /\ slot = NoState /\ unsettled = {}

-----------------------------------------------------------------------------
(* The keyboard and the terminal (external).                               *)

\* Without the emulator nobody keeps what is typed.
Report(e) ==
    /\ Len(events) < QueueCap
    /\ events' = IF at = "ended" THEN events ELSE Append(events, e)

KeyDown(k) ==
    /\ k \notin held
    /\ held' = held \cup {k}
    /\ repeating' = k /\ wait' = 0 /\ heard' = FALSE
    /\ Report(Key("Press", k))
    /\ UNCHANGED process

KeyRepeats ==
    /\ repeating # NoKey
    /\ wait' = 0
    /\ Report(Key(IF has_enhancement THEN "Repeat" ELSE "Press", repeating))
    /\ UNCHANGED <<held, repeating, heard, process>>

KeyUp(k) ==
    /\ k \in held
    /\ held' = held \ {k}
    /\ repeating' = IF repeating = k THEN NoKey ELSE repeating
    /\ wait' = IF repeating = k THEN 0 ELSE wait
    /\ heard' = (heard /\ repeating # k)
    /\ IF has_enhancement THEN Report(Key("Release", k)) ELSE UNCHANGED events
    /\ UNCHANGED process

\* Whatever was repeating no longer does.
FunctionKey(e) ==
    /\ repeating' = NoKey /\ wait' = 0 /\ heard' = FALSE
    /\ Report(e)
    /\ UNCHANGED <<held, process>>

Keyboard ==
    \/ \E k \in Keys : KeyDown(k) \/ KeyUp(k)
    \/ KeyRepeats
    \/ \E e \in FunctionKeys : FunctionKey(e)

-----------------------------------------------------------------------------
(* handle_input, one event at a time.                                      *)

Reports(k, queue) == \E i \in 1 .. Len(queue) : queue[i].key = k

Take(kinds) ==
    /\ at = "input"
    /\ events # <<>> /\ Head(events).kind \in kinds
    /\ events' = Tail(events)
    /\ UNCHANGED <<keyboard, has_enhancement, autoresume>>

\* The emulator is up to date about k, unless more about it is waiting.
Heard(k) ==
    /\ unsettled' = unsettled \ {k}
    /\ heard' = (heard \/ (k = repeating /\ ~Reports(k, Tail(events))))

\* Mutant: a button that is down already does not re-arm its timer.
PressOnce ==
    /\ Take({"Press", "Repeat"})
    /\ LET k == Head(events).key
       IN  /\ pressed' = pressed \cup {k}
           /\ timers' = IF has_enhancement \/ k \in pressed THEN timers
                        ELSE [j \in DOMAIN timers \cup {k} |->
                                IF j = k THEN HoldFrames ELSE timers[j]]
           /\ Heard(k)
    /\ UNCHANGED <<at, slot>>

\* InputState::press
Press ==
    /\ Take({"Press", "Repeat"})
    /\ LET k == Head(events).key
       IN  /\ pressed' = pressed \cup {k}
           /\ timers' = IF has_enhancement THEN timers
                        ELSE [j \in DOMAIN timers \cup {k} |->
                                IF j = k THEN HoldFrames ELSE timers[j]]
           /\ Heard(k)
    /\ UNCHANGED <<at, slot>>

\* Mutant: only the timer is removed.
ReleaseTimerOnly ==
    /\ Take({"Release"})
    /\ LET k == Head(events).key
       IN  /\ timers' = Restrict(timers, DOMAIN timers \ {k})
           /\ Heard(k)
    /\ UNCHANGED <<at, pressed, slot>>

\* InputState::release
Release ==
    /\ Take({"Release"})
    /\ LET k == Head(events).key
       IN  /\ pressed' = pressed \ {k}
           /\ timers' = Restrict(timers, DOMAIN timers \ {k})
           /\ Heard(k)
    /\ UNCHANGED <<at, slot>>

\* F5: do_save_state.
Save ==
    /\ Take({"F5"})
    /\ slot' = pressed
    /\ UNCHANGED <<at, timers, pressed, unsettled, heard>>

\* F9: do_load_state.  The timers stay as they are.
Load ==
    /\ Take({"F9"})
    /\ IF slot = NoState THEN UNCHANGED <<pressed, unsettled, heard>>
       ELSE pressed' = slot /\ unsettled' = Keys /\ heard' = FALSE
    /\ UNCHANGED <<at, timers, slot>>

\* Esc: the rest of the queue is dropped; a state is saved with --autoresume.
\* The process ends.
Quit ==
    /\ at = "input"
    /\ events # <<>> /\ Head(events).kind = "Esc"
    /\ at' = "ended"
    /\ slot' = IF autoresume THEN pressed ELSE slot
    /\ events' = <<>> /\ timers' = NoTimers /\ pressed' = {}
    /\ unsettled' = Keys /\ heard' = FALSE
    /\ UNCHANGED <<keyboard, has_enhancement, autoresume>>

\* poll finds nothing.
Poll ==
    /\ at = "input" /\ events = <<>>
    /\ at' = "tick"
    /\ UNCHANGED <<keyboard, events, has_enhancement, autoresume, timers,
                   pressed, slot, unsettled, heard>>

-----------------------------------------------------------------------------

\* A frame passes only if the terminal has repeated the key in time.
TimePasses ==
    /\ repeating # NoKey => wait < RepeatFrames
    /\ wait' = IF repeating = NoKey THEN 0 ELSE wait + 1

\* Mutant: a timer at 0 is removed without the release.
TickFrameForgets ==
    LET left == [k \in DOMAIN timers |-> timers[k] - 1]
        over == {k \in DOMAIN timers : left[k] = 0}
    IN  /\ at = "tick"
        /\ at' = "input"
        /\ TimePasses
        /\ timers' = Restrict(left, DOMAIN timers \ over)
        /\ UNCHANGED <<held, repeating, events, has_enhancement, autoresume,
                       pressed, slot, unsettled, heard>>

\* InputState::tick_frame, then the pacing and the next frame.
TickFrame ==
    LET left == [k \in DOMAIN timers |-> timers[k] - 1]
        over == {k \in DOMAIN timers : left[k] = 0}
    IN  /\ at = "tick"
        /\ at' = "input"
        /\ TimePasses
        /\ timers' = Restrict(left, DOMAIN timers \ over)
        /\ pressed' = pressed \ over
        /\ UNCHANGED <<held, repeating, events, has_enhancement, autoresume,
                       slot, unsettled, heard>>

\* The emulator is started again, perhaps in another terminal.
Restart ==
    /\ at = "ended"
    /\ at' = "input"
    /\ has_enhancement' \in BOOLEAN /\ autoresume' \in BOOLEAN
    /\ pressed' = IF autoresume' /\ slot # NoState THEN slot ELSE {}
    /\ UNCHANGED <<keyboard, heard, events, timers, slot, unsettled>>

Handle == Press \/ Release \/ Save \/ Load \/ Quit

Next == Keyboard \/ Handle \/ Poll \/ TickFrame \/ Restart

\* The emulator runs, and the terminal repeats a key before it is overdue.
Spec ==
    /\ Init /\ [][Next]_vars
    /\ WF_vars(Handle) /\ SF_vars(Poll) /\ SF_vars(TickFrame)
    /\ SF_vars(KeyRepeats)

-----------------------------------------------------------------------------

\* The emulator has heard of everything k has done since the last load.
Settled(k) == k \notin unsettled /\ ~Reports(k, events)

\* Once the emulator has seen the key that repeats, its button does not come up
\* until the key does: the timer outlasts the repetition, however late in a
\* frame a report arrives.
RepeatedKeyStaysPressed == heard => repeating \in pressed

\* With releases the buttons are the keys.
EnhancedIsExact ==
    has_enhancement => \A k \in Keys : Settled(k) => (k \in pressed <=> k \in held)

\* A key that is let go for good leaves no button down, except one that a
\* loaded state put there, provided that the emulator drains the queue faster
\* than a hand fills it.
ButtonsComeUp ==
    \A k \in Keys :
        []<>(events = <<>>) /\ <>[](k \notin held) =>
            <>[](k \notin pressed \/ k \in unsettled)

=============================================================================
