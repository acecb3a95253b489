----------------------------- MODULE SaveStates -----------------------------
(***************************************************************************)
(* What the program finds of the joypad, of its battery-backed RAM and of  *)
(* the sample channel after any number of saves, loads, quits and crashes. *)
(* The three share no field, and a load reaches each of them for itself    *)
(* (do_load_state in main.rs); so they are followed apart, and watched     *)
(* names the one that moves.                                               *)
(***************************************************************************)
EXTENDS Integers, Sequences

CONSTANTS
    Buttons,                                                        \* Joypad
    Places, Values, NoFile,                                         \* WorkRam
    BitsPerByte, MaxByte, MaxLevel, PeriodTable, AddrSpace, RomBase,
    SampleBase, AddrUnit, LenUnit, RegVals, LevelVals, Rom, DmaTicks,
    NoByte, NoState                                                 \* DmcSaveState

VARIABLES
    watched,
    strobe, button_index, button_state, snapshot, read, since,
    board, at, autoresume, gate, bus_ram, own_ram, state, sav, ideal, apart,
    dmc, owed, due, slot, slotTainted, tainted

Pad  == INSTANCE Joypad
Ram  == INSTANCE WorkRam
Chan == INSTANCE DmcSaveState

ASSUME PartsAssumption ==
    /\ Pad!ButtonsAssumption /\ Ram!RamAssumption
    /\ Chan!SizeAssumption /\ Chan!AddrAssumption /\ Chan!TableAssumption
    /\ Chan!RateAssumption

pad_vars  == <<strobe, button_index, button_state, snapshot, read, since>>
ram_vars  == <<board, at, autoresume, gate, bus_ram, own_ram, state, sav, ideal, apart>>
chan_vars == <<dmc, owed, due, slot, slotTainted, tainted>>
vars == <<watched, pad_vars, ram_vars, chan_vars>>

Init ==
    /\ watched \in {"Joypad", "Ram", "Channel"}
    /\ Pad!Init /\ Ram!Init /\ Chan!SaveInit
    /\ watched # "Ram" => board = "Bus"

OfPad(step)     == watched = "Joypad" /\ step /\ UNCHANGED <<watched, ram_vars, chan_vars>>
OfRam(step)     == watched = "Ram" /\ step /\ UNCHANGED <<watched, pad_vars, chan_vars>>
OfChannel(step) == watched = "Channel" /\ step /\ UNCHANGED <<watched, pad_vars, ram_vars>>

Next == OfPad(Pad!Next) \/ OfRam(Ram!Next) \/ OfChannel(Chan!SaveNext)

Spec == Init /\ [][Next]_vars

-----------------------------------------------------------------------------

\* A write to $4016 starts the eight reads over, whatever was read or loaded
\* before (input/mod.rs).
ReadsInOrder == Pad!ReadsInOrder

\* The program finds in its RAM what it wrote, across quits and crashes, unless
\* the file lacks the board's RAM (bus/mod.rs, main.rs).
OneRam == Ram!OneRam

\* A loaded sample channel works, unless a read was outstanding (dmc.rs).
CleanLoadKeepsInvariants == Chan!CleanLoadKeepsInvariants

=============================================================================
