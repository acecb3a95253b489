----------------------------- MODULE Cartridge -----------------------------
(***************************************************************************)
(* The cartridge in the slot (cartridge/mod.rs, Cartridge::mapper).  The   *)
(* bus clocks the interrupt counter of its board in every CPU cycle and    *)
(* the picture unit does in every line; each board takes the clock it      *)
(* needs.  Registers that two boards call the same share a variable; a     *)
(* board that lacks a register never changes it.                           *)
(*                                                                         *)
(* A board's counter and its banks have no register in common, so they are *)
(* followed apart: mapper names the board whose counter is watched, or is  *)
(* "Banks", and then module Banks says which board it is.                  *)
(***************************************************************************)
EXTENDS Integers

CONSTANTS
    MaxLatch,                            \* Mmc3Irq
    MaxCount, LinePeriod, DotsPerCycle,  \* Vrc6Irq
    Bytes,                               \* Fme7Irq
    Visible, Blank, LineCycles, IdleCycles, CounterMax,                        \* Mmc5Irq
    RomSizes, Values, ChrIndexes, MaxWrites, MaxBits, MaxSavedWrites \* Banks

VARIABLES
    mapper,
    irq_latch, irq_counter, irq_pending,
    irq_enabled, irq_reload,
    irq_enable, irq_mode_cycle, irq_enable_after_ack, irq_prescaler, cycles, clocks,
    irq_counter_enable,
    irq_target, in_frame, need_in_frame, scanline_counter, ppu_idle,
    line, cycle, rendering, steady, raised,
    board, prg_pages, chr_pages, reg, slot, bits, last, seen, writes

Mmc3 == INSTANCE Mmc3Irq
Vrc6 == INSTANCE Vrc6Irq
Fme7 == INSTANCE Fme7Irq
Mmc5 == INSTANCE Mmc5Irq
Bank == INSTANCE Banks

ASSUME BoardsAssumption ==
    /\ Mmc3!MaxLatchAssumption
    /\ Vrc6!PrescalerAssumption
    /\ Fme7!BytesAssumption
    /\ Mmc5!LinesAssumption
    /\ Bank!SizesAssumption

mmc3_only == <<irq_enabled, irq_reload>>
vrc6_only == <<irq_mode_cycle, irq_enable_after_ack, irq_prescaler, cycles, clocks>>
mmc5_only == <<irq_target, in_frame, need_in_frame, scanline_counter, ppu_idle,
               line, cycle, rendering, steady, raised>>
banks     == <<board, prg_pages, chr_pages, reg, slot, bits, last, seen, writes>>
counting  == <<irq_latch, irq_counter, irq_pending, irq_enable, mmc3_only, vrc6_only,
               irq_counter_enable, mmc5_only>>
vars == <<mapper, counting, banks>>

Init ==
    /\ mapper \in {"Mmc3", "Vrc6", "Fme7", "Mmc5", "Banks"}
    /\ Mmc3!Init /\ Vrc6!Init /\ Fme7!Init /\ Mmc5!Init
    /\ IF mapper = "Banks" THEN Bank!Init ELSE Bank!Start("Nrom", 2, 8)

\* The board's own steps.
OfMmc3(step) ==
    /\ mapper = "Mmc3" /\ step
    /\ UNCHANGED <<mapper, irq_enable, vrc6_only, irq_counter_enable, mmc5_only, banks>>

OfVrc6(step) ==
    /\ mapper = "Vrc6" /\ step
    /\ UNCHANGED <<mapper, mmc3_only, irq_counter_enable, mmc5_only, banks>>

OfFme7(step) ==
    /\ mapper = "Fme7" /\ step
    /\ UNCHANGED <<mapper, irq_latch, mmc3_only, vrc6_only, mmc5_only, banks>>

OfMmc5(step) ==
    /\ mapper = "Mmc5" /\ step
    /\ UNCHANGED <<mapper, irq_latch, irq_counter, mmc3_only, vrc6_only, irq_counter_enable, banks>>

OfBanks(step) ==
    /\ mapper = "Banks" /\ step
    /\ UNCHANGED <<mapper, counting>>

\* Cartridge::tick_scanline, tick_scanline_early and tick_cpu.
Tick == \/ OfMmc3(Mmc3!TickScanline) \/ OfVrc6(Vrc6!TickCpu) \/ OfFme7(Fme7!TickCpu)
        \/ OfMmc5(Mmc5!Tick)

\* Cartridge::cpu_write, and the reads that change something.
Access == \/ OfMmc3(Mmc3!Write) \/ OfVrc6(Vrc6!Write) \/ OfFme7(Fme7!Write)
          \/ OfMmc5(Mmc5!Access) \/ OfBanks(Bank!Write)

\* Cartridge::save_mapper_state and load_mapper_state.
SaveOrLoad == OfBanks(Bank!SaveState \/ Bank!LoadState)

Next == Tick \/ Access \/ SaveOrLoad

\* Every bus access begins with a cycle, and lines are rendered for ever, as
\* long as the program does not turn that off.
Spec == Init /\ [][Next]_vars /\ WF_vars(Tick)

-----------------------------------------------------------------------------

\* Only Vrc6 owns irq_prescaler, and so on: what a board promises is asked of
\* it while it is in the slot.
OnBoard(mmc3, vrc6, fme7, mmc5) ==
    /\ mapper = "Mmc3" => mmc3
    /\ mapper = "Vrc6" => vrc6
    /\ mapper = "Fme7" => fme7
    /\ mapper = "Mmc5" => mmc5

\* Every counter but Mmc5's implements IntervalTimer: an interrupt comes after
\* exactly the clocks that its registers ask for, and a program that has
\* switched it off finds no request left.  Vrc6 makes its clocks itself, and is
\* never a dot away from the scanlines they stand for.
ImplementsTimer ==
    /\ OnBoard(Mmc3!Timer!Init, Vrc6!Timer!Init, Fme7!Timer!Init, TRUE)
    /\ [][ OnBoard([Mmc3!Timer!Next]_(Mmc3!Timer!vars),
                   [Vrc6!Timer!Next]_(Vrc6!Timer!vars),
                   [Fme7!Timer!Next]_(Fme7!Timer!vars), TRUE) ]_vars
    /\ []OnBoard(TRUE, Vrc6!NoDrift, TRUE, TRUE)

\* Mmc5 guesses where frames begin, and still interrupts once in each, on the
\* line that the program asked for, and leaves the frame when the picture unit
\* falls silent.
OneInterruptPerFrame ==
    /\ []OnBoard(TRUE, TRUE, TRUE, Mmc5!FrameEnds)
    /\ [][ OnBoard(TRUE, TRUE, TRUE, Mmc5!RaisedOnLine) ]_vars

\* The registers ask for interrupts; one is requested (Cartridge::check_irq).
Counting ==
    /\ mapper # "Banks"
    /\ OnBoard(irq_enabled, irq_enable, irq_enable /\ irq_counter_enable,
               rendering /\ irq_target \in 1 .. Visible)

\* A program that leaves the registers of a counting board alone is
\* interrupted.
InterruptsRecur == <>[][Tick]_vars => <>[](~Counting) \/ <>[](irq_pending)

\* The windows of every board, for ROMs of every size: outside the ROM in the
\* named cases alone, and the vectors in their place.
InsideRom == mapper = "Banks" => Bank!InsideRom /\ Bank!VectorsStay

\* A register of Mmc1 takes exactly the five bits sent to it.
FiveBitsMakeARegister == [][ mapper = "Banks" => Bank!TakesFiveBits ]_vars

\* A loaded state shows the program what it saw when the state was saved.
LoadShowsSaved == [][ mapper = "Banks" => Bank!ShowsSaved ]_vars

=============================================================================
