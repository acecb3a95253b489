------------------------------ MODULE NesLoop ------------------------------
(***************************************************************************)
(* The loop that runs the machine: Nes::step_frame (src/src/lib.rs, and    *)
(* the same loop in src/src/main.rs), the CPU's instruction and interrupt  *)
(* sequences (src/src/cpu/mod.rs) and the sprite DMA (src/src/bus/mod.rs), *)
(* against the clock of the picture unit (PpuTiming).                      *)
(*                                                                         *)
(* Everything is driven by Bus::tick.  The picture unit raises the NMI and *)
(* completes frames in the middle of instructions, interrupt sequences and *)
(* DMA transfers; the loop looks at those flags only between them.  "at"   *)
(* is the place in the code, "left" what remains to be done there.         *)
(*                                                                         *)
(* Instructions are abstracted to their bus accesses and the interrupt     *)
(* flag.  The IRQ line (frame counter, sample channel and mapper) changes  *)
(* as it likes.  Any bus cycle may be stretched by the cycles that a       *)
(* sample read steals (module Dmc).                                        *)
(***************************************************************************)
EXTENDS PpuTiming

CONSTANTS
    MaxAccesses,   \* the most bus accesses of an instruction
    MaxCycles,     \* the longest instruction of the opcode table
    EntryCycles,   \* 7: cycles of Cpu::nmi and of Cpu::irq
    OamBytes,      \* 256: bytes of a sprite DMA
    StealCycles,   \* 3: cycles stolen per sample read
    MaxSteals      \* bound: sample reads between two iterations of the loop

ASSUME LoopAssumption ==
    /\ MaxAccesses \in Nat \ {0} /\ MaxCycles \in Nat /\ MaxAccesses <= MaxCycles
    /\ EntryCycles \in Nat \ {0} /\ OamBytes \in Nat \ {0}
    /\ StealCycles \in Nat /\ MaxSteals \in Nat

\* The loop's longest way to its next poll of the NMI, an interrupt sequence of
\* each kind and then an instruction or a transfer, is over before vertical
\* blank is.  With the numbers of a real machine it takes a quarter of it.
ASSUME PaceAssumption ==
    \A turn \in {MaxAccesses + MaxCycles, 2 * OamBytes + 2} :
        3 * (turn + 2 * EntryCycles + 2 * (MaxSteals * StealCycles)) + 2
            <= (LastLine + 1 - VblankLine) * (LastCycle + 1)

VARIABLES
    ppu,
    at,            \* "loop", "execute", "idle", "align", "dma", "nmi", "poll_irq", "irq"
    left,          \* accesses or cycles left of that
    spare,         \* cycles by which the instruction is short of its target
    due,           \* an access has had its tick and is still to happen
    op,            \* the register the instruction is about
    stall,         \* stolen cycles that are still to run
    steals,        \* sample reads since the loop was at its top
    odd,           \* Bus::total_cycles is odd
    irq_disabled,  \* status.contains(IRQ_DIS)
    irq_line,      \* Bus::poll_irq
    dma_active,
    completed,     \* history: frames completed since step_frame returned
    handled,       \* history: NMI sequences since vertical blank began
    steady,        \* history: no $2000 write since, and the NMI was enabled
    entering       \* history: no instruction since the last interrupt sequence

cpu == <<at, left, spare, due, op, irq_disabled>>
thefts == <<stall, steals>>
history == <<completed, handled, steady, entering>>
vars == <<ppu, cpu, thefts, odd, irq_line, dma_active, history>>

Ops == {"other", "ctrl", "mask", "status", "dma"}

Less(n) == IF n > 0 THEN n - 1 ELSE 0

\* After Cpu::reset, which has read the reset vector.
Init ==
    /\ ppu = BusTick[BusTick[NewPpu]]
    /\ at = "loop" /\ left = 0 /\ spare = 0 /\ due = FALSE /\ op = "other"
    /\ stall = 0 /\ steals = 0
    /\ odd = FALSE
    /\ irq_disabled = TRUE /\ irq_line = FALSE
    /\ dma_active = FALSE
    /\ completed = 0 /\ handled = 0 /\ steady = FALSE /\ entering = FALSE

-----------------------------------------------------------------------------
(* Bus cycles.                                                              *)

StartsVblank == BeforeVblank(ppu) /\ ~BeforeVblank(ppu')

\* One iteration of Bus::tick, whoever calls it.
Cycle ==
    /\ ppu' = BusTick[ppu]
    /\ odd' = ~odd
    /\ irq_line' \in BOOLEAN
    /\ completed' = IF ppu'.frame_complete /\ ppu'.odd_frame # ppu.odd_frame
                      THEN completed + 1 ELSE completed
    /\ handled' = IF StartsVblank THEN 0 ELSE handled
    /\ steady' = IF StartsVblank THEN ppu.nmi_enabled ELSE steady
    /\ UNCHANGED <<dma_active, entering>>

\* A cycle that its caller asked for; a sample read may be served in it.
OwnCycle ==
    /\ stall = 0
    /\ Cycle
    /\ \/ UNCHANGED thefts
       \/ /\ steals < MaxSteals
          /\ steals' = steals + 1
          /\ stall' = StealCycles

\* A stolen cycle, in which another read may be served (Bus::tick recurs).
\* Bus::total_cycles counts it, so an instruction that is still executing has
\* one idle cycle less to run.
StolenCycle ==
    /\ stall > 0
    /\ Cycle
    /\ \E n \in {0, 1} :
          /\ steals + n <= MaxSteals
          /\ steals' = steals + n
          /\ stall' = stall - 1 + n * StealCycles
    /\ spare' = IF at = "execute" THEN Less(spare) ELSE spare
    /\ UNCHANGED <<at, left, due, op, irq_disabled>>

-----------------------------------------------------------------------------
(* Cpu::step.                                                               *)

\* Mutant: the loop does not look for the end of the frame.
BeginInstructionBlind ==
    /\ at = "loop" /\ ~dma_active
    /\ at' = "execute"
    /\ left' \in 1 .. MaxAccesses
    /\ spare' \in left' .. MaxCycles
    /\ op' \in Ops
    /\ entering' = FALSE
    /\ UNCHANGED <<ppu, due, irq_disabled, thefts, odd, irq_line, dma_active,
                   completed, handled, steady>>

BeginInstruction ==
    /\ at = "loop" /\ ~ppu.frame_complete /\ ~dma_active
    /\ at' = "execute"
    /\ left' \in 1 .. MaxAccesses
    /\ spare' \in left' .. MaxCycles
    /\ op' \in Ops
    /\ entering' = FALSE
    /\ UNCHANGED <<ppu, due, irq_disabled, thefts, odd, irq_line, dma_active,
                   completed, handled, steady>>

\* cpu_read or cpu_write: the tick comes first ...
BeginAccess ==
    /\ at = "execute" /\ ~due /\ left > 0
    /\ OwnCycle
    /\ due' = TRUE
    /\ spare' = Less(spare)
    /\ UNCHANGED <<at, left, op, irq_disabled>>

\* ... and when it and what was stolen in it are over, the access itself.
Access ==
    /\ at = "execute" /\ due /\ stall = 0
    /\ due' = FALSE
    /\ left' = left - 1
    /\ UNCHANGED <<at, spare, op, irq_disabled, thefts, odd, completed, handled, entering>>

\* RAM, ROM, or a register that acknowledges interrupts.
OtherAccess ==
    /\ Access
    /\ irq_line' \in BOOLEAN
    /\ UNCHANGED <<ppu, dma_active, steady>>

AccessCtrl(enable) ==
    /\ op = "ctrl"
    /\ Access
    /\ ppu' = WriteCtrl(ppu, enable)
    /\ steady' = FALSE
    /\ UNCHANGED <<irq_line, dma_active>>

AccessMask(rendering) ==
    /\ op = "mask"
    /\ Access
    /\ ppu' = WriteMask(ppu, rendering)
    /\ UNCHANGED <<irq_line, dma_active, steady>>

AccessStatus ==
    /\ op = "status"
    /\ Access
    /\ ppu' = ReadStatus(ppu)
    /\ UNCHANGED <<irq_line, dma_active, steady>>

\* $4014 write: the transfer itself waits for the loop.
AccessOamDma ==
    /\ op = "dma"
    /\ Access
    /\ dma_active' = TRUE
    /\ UNCHANGED <<ppu, irq_line, steady>>

\* All accesses are done; CLI, SEI, PLP, RTI and BRK have set the flag.
EndExecute ==
    /\ at = "execute" /\ left = 0 /\ stall = 0
    /\ at' = "idle"
    /\ irq_disabled' \in BOOLEAN
    /\ op' = "other"
    /\ UNCHANGED <<ppu, left, spare, due, thefts, odd, irq_line, dma_active, history>>

IdleCycle ==
    /\ at = "idle" /\ spare > 0
    /\ OwnCycle
    /\ spare' = spare - 1
    /\ UNCHANGED <<at, left, due, op, irq_disabled>>

-----------------------------------------------------------------------------
(* Interrupts.  Cpu::nmi and Cpu::irq set IRQ_DIS on their way; nothing     *)
(* looks at it before they are through.                                     *)

\* Mutants of the next operator: Cpu::nmi does not set IRQ_DIS; the IRQ line
\* is looked at only after an NMI.
PollNmiKeepsFlag ==
    /\ IF ppu.nmi_triggered
         THEN /\ ppu' = [ppu EXCEPT !.nmi_triggered = FALSE]
              /\ at' = "nmi"
              /\ left' = EntryCycles
              /\ handled' = handled + 1
              /\ entering' = TRUE
         ELSE /\ at' = "poll_irq"
              /\ left' = 0
              /\ UNCHANGED <<ppu, handled, entering>>
    /\ UNCHANGED <<spare, due, op, irq_disabled, thefts, odd, irq_line, completed, steady>>

PollNmiOnly ==
    /\ ppu' = [ppu EXCEPT !.nmi_triggered = FALSE]
    /\ at' = IF ppu.nmi_triggered THEN "nmi" ELSE "loop"
    /\ left' = IF ppu.nmi_triggered THEN EntryCycles ELSE 0
    /\ irq_disabled' = (irq_disabled \/ ppu.nmi_triggered)
    /\ UNCHANGED <<spare, due, op, thefts, odd, irq_line, completed, handled,
                   steady, entering>>

\* Bus::poll_nmi, at the end of an instruction or of a transfer.
PollNmi ==
    /\ IF ppu.nmi_triggered
         THEN /\ ppu' = [ppu EXCEPT !.nmi_triggered = FALSE]
              /\ at' = "nmi"
              /\ left' = EntryCycles
              /\ irq_disabled' = TRUE
              /\ handled' = handled + 1
              /\ entering' = TRUE
         ELSE /\ at' = "poll_irq"
              /\ left' = 0
              /\ UNCHANGED <<ppu, irq_disabled, handled, entering>>
    /\ UNCHANGED <<spare, due, op, thefts, odd, irq_line, completed, steady>>

EndInstruction ==
    /\ at = "idle" /\ spare = 0 /\ stall = 0
    /\ PollNmi
    /\ UNCHANGED dma_active

EntryCycle ==
    /\ at \in {"nmi", "irq"} /\ left > 0
    /\ OwnCycle
    /\ left' = left - 1
    /\ UNCHANGED <<at, spare, due, op, irq_disabled>>

EndNmi ==
    /\ at = "nmi" /\ left = 0 /\ stall = 0
    /\ at' = "poll_irq"
    /\ UNCHANGED <<ppu, left, spare, due, op, irq_disabled, thefts, odd, irq_line,
                   dma_active, history>>

\* Bus::poll_irq, which the instruction and the transfer ask last.
TakeIrq ==
    /\ at = "poll_irq" /\ irq_line /\ ~irq_disabled
    /\ at' = "irq"
    /\ left' = EntryCycles
    /\ irq_disabled' = TRUE
    /\ entering' = TRUE
    /\ UNCHANGED <<ppu, spare, due, op, thefts, odd, irq_line, dma_active,
                   completed, handled, steady>>

NoIrq ==
    /\ at = "poll_irq" /\ ~(irq_line /\ ~irq_disabled)
    /\ at' = "loop"
    /\ steals' = 0
    /\ UNCHANGED <<ppu, left, spare, due, op, irq_disabled, stall, odd, irq_line,
                   dma_active, history>>

EndIrq ==
    /\ at = "irq" /\ left = 0 /\ stall = 0
    /\ at' = "loop"
    /\ steals' = 0
    /\ UNCHANGED <<ppu, left, spare, due, op, irq_disabled, stall, odd, irq_line,
                   dma_active, history>>

-----------------------------------------------------------------------------
(* Bus::do_dma.                                                             *)

BeginDma ==
    /\ at = "loop" /\ ~ppu.frame_complete /\ dma_active
    /\ at' = "align"
    /\ left' = 1
    /\ UNCHANGED <<ppu, spare, due, op, irq_disabled, thefts, odd, irq_line,
                   dma_active, history>>

DmaCycle ==
    /\ at \in {"align", "dma"} /\ left > 0
    /\ OwnCycle
    /\ left' = left - 1
    /\ UNCHANGED <<at, spare, due, op, irq_disabled>>

\* A second wait cycle if the first one ended on an odd cycle.
EndAlign ==
    /\ at = "align" /\ left = 0 /\ stall = 0
    /\ at' = "dma"
    /\ left' = 2 * OamBytes + (IF odd THEN 1 ELSE 0)
    /\ UNCHANGED <<ppu, spare, due, op, irq_disabled, thefts, odd, irq_line,
                   dma_active, history>>

\* Mutant: the loop does not poll the NMI after a transfer.
EndDmaUnpolled ==
    /\ at = "dma" /\ left = 0 /\ stall = 0
    /\ dma_active' = FALSE
    /\ at' = "poll_irq"
    /\ UNCHANGED <<ppu, left, spare, due, op, irq_disabled, thefts, odd, irq_line, history>>

EndDma ==
    /\ at = "dma" /\ left = 0 /\ stall = 0
    /\ dma_active' = FALSE
    /\ PollNmi

\* step_frame returns: the frame is shown, the keyboard is read.
FrameDone ==
    /\ at = "loop" /\ ppu.frame_complete
    /\ ppu' = [ppu EXCEPT !.frame_complete = FALSE]
    /\ completed' = 0
    /\ UNCHANGED <<cpu, thefts, odd, irq_line, dma_active, handled, steady, entering>>

-----------------------------------------------------------------------------

Registers ==
    \/ OtherAccess \/ AccessStatus \/ AccessOamDma
    \/ \E b \in BOOLEAN : AccessCtrl(b) \/ AccessMask(b)

Next ==
    \/ BeginInstruction \/ BeginAccess \/ Registers \/ EndExecute \/ IdleCycle
    \/ EndInstruction \/ EntryCycle \/ EndNmi \/ TakeIrq \/ NoIrq \/ EndIrq
    \/ BeginDma \/ DmaCycle \/ EndAlign \/ EndDma
    \/ StolenCycle \/ FrameDone

\* step_frame is called again and again, and never waits for anything.
Spec == Init /\ [][Next]_vars /\ WF_vars(Next)

-----------------------------------------------------------------------------

\* The type invariant: the beam stays on the screen, whatever is skipped.
TypeOK ==
    /\ ppu \in PpuType
    /\ at \in {"loop", "execute", "idle", "align", "dma", "nmi", "poll_irq", "irq"}
    /\ left \in Nat /\ spare \in 0 .. MaxCycles
    /\ due \in BOOLEAN /\ op \in Ops
    /\ stall \in Nat /\ steals \in 0 .. MaxSteals
    /\ odd \in BOOLEAN /\ irq_disabled \in BOOLEAN /\ irq_line \in BOOLEAN
    /\ dma_active \in BOOLEAN
    /\ completed \in Nat /\ handled \in Nat
    /\ steady \in BOOLEAN /\ entering \in BOOLEAN

\* A program that enables the NMI and leaves $2000 alone gets its handler
\* called exactly once per frame: whether the frame ends, a transfer runs, an
\* interrupt is entered or $2002 is read at the cycle that raises it.
OneHandlerPerFrame ==
    [][ (StartsVblank /\ steady) => handled = 1 ]_vars

\* And it is called within vertical blank, the only time it may write video
\* memory, even when a transfer that holds the CPU stands in its way.
HandlerInVblank ==
    [][ (steady /\ at' = "nmi" /\ at # "nmi") => ~BeforeVblank(ppu) ]_vars

\* step_frame returns once per frame: no instruction, interrupt sequence or
\* transfer runs past the end of a second frame.
NoFrameLost == completed = (IF ppu.frame_complete THEN 1 ELSE 0)

\* An interrupt request never breaks in between the entry of a handler and its
\* first instruction, where nothing has been acknowledged yet.
IrqWaitsForHandler ==
    [][ (at' = "irq" /\ at # "irq") => ~entering ]_vars

\* Frames never cease, so the caller of step_frame gets control back.
FramesRecur == []<>(at = "loop" /\ ppu.frame_complete)

\* A program that lets interrupts in is interrupted: a line that stays up
\* with the flag clear cannot be overlooked.
IrqServed == ~<>[](irq_line /\ ~irq_disabled)

=============================================================================
