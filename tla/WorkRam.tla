------------------------------ MODULE WorkRam ------------------------------
(***************************************************************************)
(* The RAM at $6000-$7FFF of a cartridge with a battery, and the two files *)
(* it outlives the process in.  Bus keeps a copy of its own (bus/mod.rs),  *)
(* which is what the .sav file holds; five boards have RAM of their own,   *)
(* which the program reads in its place, and only MMC1 and MMC3 put theirs *)
(* into a save state.                                                      *)
(*                                                                         *)
(* run_emulation (main.rs) loads the .sav file before the .state file and  *)
(* writes them in the opposite order when the player quits; fs::write may  *)
(* be interrupted and leaves a torn file.  MMC5's RAM banks are left out:  *)
(* the program keeps to one.                                               *)
(***************************************************************************)
EXTENDS Integers

CONSTANTS
    Places,   \* addresses in the RAM
    Values,   \* bytes
    NoFile

\* Assumed by SaveStates.
RamAssumption == Places # {} /\ 0 \in Values

VARIABLES
    board,       \* "Bus": a board without RAM of its own
    at,          \* "running", writing a file: "F5", "state", "sav", or "ended"
    autoresume,
    gate,        \* the board's registers: the RAM is "open", "locked" or "gone"
    bus_ram,     \* Bus::prg_ram
    own_ram,     \* the mapper's prg_ram
    state, sav,  \* the files
    ideal,       \* history: the RAM as the program knows it
    apart        \* history: a file was loaded that lacks the board's RAM

vars == <<board, at, autoresume, gate, bus_ram, own_ram, state, sav, ideal, apart>>

Boards == {"Bus", "Mmc1", "Vrc6", "Fme7", "Mmc5"}

Zeros == [p \in Places |-> 0]

\* MMC5 protects its RAM at power on, FME-7 shows ROM in its place.
PowerOnGate(b) == CASE b = "Fme7" -> "gone" [] b = "Mmc5" -> "locked" [] OTHER -> "open"

Gates(b) == CASE b = "Fme7" -> {"open", "locked", "gone"}
              [] b = "Mmc5" -> {"open", "locked"}
              [] OTHER      -> {"open"}

Init ==
    /\ board \in Boards
    /\ at = "ended" /\ autoresume = FALSE
    /\ gate = PowerOnGate(board)
    /\ bus_ram = Zeros /\ own_ram = Zeros
    /\ state = NoFile /\ sav = NoFile
    /\ ideal = Zeros /\ apart = FALSE

-----------------------------------------------------------------------------
(* The program.                                                             *)

HasOwnRam == board # "Bus"

\* Mapper::cpu_read gives a byte of the RAM.
Readable == gate = "open" \/ (gate = "locked" /\ board = "Mmc5")

\* Bus::cpu_read: the board's RAM, or the Bus's if it has none.
View(p) == IF HasOwnRam THEN own_ram[p] ELSE bus_ram[p]

\* Mutant: the board's RAM is spared.
WriteBusOnly(p, v) ==
    /\ at = "running"
    /\ bus_ram' = [bus_ram EXCEPT ![p] = v]
    /\ own_ram' = IF ~HasOwnRam THEN own_ram ELSE own_ram
    /\ ideal' = IF gate = "open" THEN [ideal EXCEPT ![p] = v] ELSE ideal
    /\ UNCHANGED <<board, at, autoresume, gate, state, sav, apart>>

\* Bus::cpu_write: both copies, but the board may refuse.
Write(p, v) ==
    /\ at = "running"
    /\ bus_ram' = [bus_ram EXCEPT ![p] = v]
    /\ own_ram' = IF HasOwnRam /\ gate = "open" THEN [own_ram EXCEPT ![p] = v] ELSE own_ram
    /\ ideal' = IF gate = "open" THEN [ideal EXCEPT ![p] = v] ELSE ideal
    /\ UNCHANGED <<board, at, autoresume, gate, state, sav, apart>>

SetGate ==
    /\ at = "running"
    /\ gate' \in Gates(board)
    /\ UNCHANGED <<board, at, autoresume, bus_ram, own_ram, state, sav, ideal, apart>>

-----------------------------------------------------------------------------
(* The files.  A file that is being written is torn: its head is there.     *)

Torn(file) == [file EXCEPT !.whole = FALSE]
Whole(file) == file # NoFile /\ file.whole

\* Mutant: no board's RAM is in the state.
SavesNothing(b) == b = "Bus"

\* save_mapper_state: whose RAM is in the state.
SavesOwnRam(b) == b = "Mmc1"

StateFile ==
    [ whole |-> TRUE, bus_ram |-> bus_ram, own_ram |-> own_ram, gate |-> gate,
      ideal |-> ideal, apart |-> apart ]

SavFile == [whole |-> TRUE, ram |-> bus_ram, ideal |-> ideal]

\* do_save_state begins: on F5, or with --autoresume when the player quits.
BeginState ==
    /\ at = "running"
    /\ at' \in {"F5"} \cup (IF autoresume THEN {"state"} ELSE {})
    /\ state' = Torn(StateFile)
    /\ UNCHANGED <<board, autoresume, gate, bus_ram, own_ram, sav, ideal, apart>>

\* It ends.
EndState ==
    /\ at \in {"F5", "state"}
    /\ state' = StateFile
    /\ at' = IF at = "F5" THEN "running" ELSE "quit"
    /\ UNCHANGED <<board, autoresume, gate, bus_ram, own_ram, sav, ideal, apart>>

\* Bus::save_battery.
BeginSav ==
    /\ at = "quit" \/ (at = "running" /\ ~autoresume)
    /\ at' = "sav"
    /\ sav' = Torn(SavFile)
    /\ UNCHANGED <<board, autoresume, gate, bus_ram, own_ram, state, ideal, apart>>

EndSav ==
    /\ at = "sav"
    /\ sav' = SavFile
    /\ at' = "ended"
    /\ UNCHANGED <<board, autoresume, gate, bus_ram, own_ram, state, ideal, apart>>

\* The process is killed, wherever it is.
Crash ==
    /\ at # "ended"
    /\ at' = "ended"
    /\ UNCHANGED <<board, autoresume, gate, bus_ram, own_ram, state, sav, ideal, apart>>

\* Mutant: a file of any length will do.
LoadsAnySav(file) == file # NoFile

\* load_battery_save: a file of the wrong length is ignored.
LoadsSav(file) == Whole(file)

\* Mutant: Bus's copy stays as it is.
RestoredOwnOnly(ram) == bus_ram

\* Bus::restore_state
Restored(ram) == ram

\* load_mapper_state; FME-7's registers are in the state, MMC5's protection is not.
RestoreOwn(file, ram, g) ==
    /\ own_ram' = IF SavesOwnRam(board) THEN file.own_ram ELSE ram
    /\ gate' = IF board = "Mmc5" THEN g ELSE file.gate
    /\ ideal' = file.ideal
    /\ apart' = (file.apart \/ (HasOwnRam /\ board # "Mmc1"))

\* Bus::load_battery_save, then do_load_state with --autoresume, in a new process.
Start(resume) ==
    /\ at = "ended"
    /\ at' = "running" /\ autoresume' = resume
    /\ IF resume /\ Whole(state)
         THEN /\ bus_ram' = Restored(state.bus_ram)
              /\ RestoreOwn(state, Zeros, PowerOnGate(board))
         ELSE /\ bus_ram' = IF LoadsSav(sav) THEN sav.ram ELSE Zeros
              /\ own_ram' = Zeros /\ gate' = PowerOnGate(board)
              /\ ideal' = IF Whole(sav) THEN sav.ideal ELSE Zeros
              /\ apart' = (HasOwnRam /\ Whole(sav))
    /\ UNCHANGED <<board, state, sav>>

\* F9: do_load_state.  A torn file does not parse.
LoadState ==
    /\ at = "running" /\ Whole(state)
    /\ bus_ram' = Restored(state.bus_ram)
    /\ RestoreOwn(state, own_ram, gate)
    /\ UNCHANGED <<board, at, autoresume, state, sav>>

Next ==
    \/ \E p \in Places, v \in Values : Write(p, v)
    \/ SetGate
    \/ BeginState \/ EndState \/ BeginSav \/ EndSav \/ Crash
    \/ \E resume \in BOOLEAN : Start(resume)
    \/ LoadState

Spec == Init /\ [][Next]_vars

-----------------------------------------------------------------------------
(* Properties.                                                              *)

\* The two copies act as one RAM: through quits, crashes in the middle of a
\* file and loads in any order, the program reads what it wrote, or what the
\* file it was started from held when it was written whole.  Except that a file
\* which lacks the board's own RAM cannot bring that back.
OneRam == at = "running" /\ ~apart /\ Readable => \A p \in Places : View(p) = ideal[p]

\* "Load battery-backed RAM from a `.sav` file if it exists" (bus/mod.rs): on
\* every board the program finds the RAM that was saved.  It does not hold: the
\* file goes to Bus's copy, which a board with RAM of its own hides.
GameFindsItsSave == at = "running" /\ Readable => \A p \in Places : View(p) = ideal[p]

=============================================================================
