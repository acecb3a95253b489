------------------------------- MODULE Joypad -------------------------------
(***************************************************************************)
(* A joypad as the program on the CPU sees it (input/mod.rs): a write to   *)
(* $4016 resets the shift register, and reads return one button after the  *)
(* other.  The buttons themselves change between two frames, when the      *)
(* emulator handles its input or loads a state; a frame may end anywhere   *)
(* between the reads.                                                      *)
(***************************************************************************)
EXTENDS Integers, Sequences

CONSTANT Buttons  \* 8: bits of button_state

\* Assumed by SaveStates.
ButtonsAssumption == Buttons \in Nat \ {0}

VARIABLES
    strobe, button_index,
    button_state,   \* the set of the buttons that are down
    snapshot,       \* button_state at the last write to $4016 (history)
    read,           \* what has been read since (history)
    since           \* what has come in between: "nothing", "frames", or
                    \* a "restore" after which the reads mean nothing

vars == <<strobe, button_index, button_state, snapshot, read, since>>

Button == 0 .. Buttons - 1
Bit(state, i) == IF i \in state THEN 1 ELSE 0

Init ==
    /\ strobe = FALSE /\ button_index = 0 /\ button_state = {}
    /\ snapshot = {} /\ read = <<>> /\ since = "restore"

\* Mutant: only a write that sets the strobe resets the index.
WriteResetsOnStrobe(s) ==
    /\ strobe' = s
    /\ button_index' = IF s THEN 0 ELSE button_index
    /\ snapshot' = button_state
    /\ read' = <<>> /\ since' = "nothing"
    /\ UNCHANGED button_state

\* Joypad::write, s being bit 0.
Write(s) ==
    /\ strobe' = s
    /\ button_index' = 0
    /\ snapshot' = button_state
    /\ read' = <<>> /\ since' = "nothing"
    /\ UNCHANGED button_state

\* Mutant: the index goes on for ever.
ReadPastEnd ==
    /\ button_index' = IF strobe THEN button_index ELSE button_index + 1
    /\ read' = IF strobe THEN <<>>
               ELSE IF Len(read) > Buttons THEN read
               ELSE Append(read, Bit(button_state, button_index))
    /\ UNCHANGED <<strobe, button_state, snapshot, since>>

\* Joypad::read.  While the strobe is set every read is of the first button.
Read ==
    /\ button_index' = IF strobe \/ button_index > Buttons - 1
                         THEN button_index ELSE button_index + 1
    /\ read' = IF strobe THEN <<>>
               ELSE IF Len(read) > Buttons THEN read
               ELSE Append(read, IF button_index > Buttons - 1 THEN 1
                                 ELSE Bit(button_state, button_index))
    /\ UNCHANGED <<strobe, button_state, snapshot, since>>

\* handle_input, tick_frame: any buttons go down or come up.
SetButtons(state) ==
    /\ button_state' = state
    /\ since' = IF since = "nothing" THEN "frames" ELSE since
    /\ UNCHANGED <<strobe, button_index, snapshot, read>>

\* restore_state: all three fields come from the state's file.
RestoreState(s, i, state) ==
    /\ strobe' = s /\ button_index' = i /\ button_state' = state
    /\ since' = "restore"
    /\ UNCHANGED <<snapshot, read>>

Next ==
    \/ \E s \in BOOLEAN : Write(s)
    \/ Read
    \/ \E state \in SUBSET Button : SetButtons(state)
    \/ \E s \in BOOLEAN, i \in 0 .. Buttons, state \in SUBSET Button : RestoreState(s, i, state)

Spec == Init /\ [][Next]_vars

-----------------------------------------------------------------------------

\* What has been read is the buttons of the snapshot and then ones.
InOrder == \A i \in 1 .. Len(read) :
              read[i] = IF i <= Buttons THEN Bit(snapshot, i - 1) ELSE 1

\* After any write to $4016 that leaves the strobe clear, whatever was read
\* before it, the buttons are read one after the other and then ones, as long
\* as no frame ends in between.
ReadsInOrder == since = "nothing" => InOrder

=============================================================================
