--------------------------- MODULE NesLoop_proofs ---------------------------
(***************************************************************************)
(* Proofs about NesLoop, for every screen, instruction set and DMA length. *)
(***************************************************************************)
EXTENDS NesLoop, TLAPS

-----------------------------------------------------------------------------
(* The beam.                                                                *)

LEMMA SetFlagsType == \A p \in PpuType : SetFlags(p) \in PpuType
<1> SUFFICES ASSUME NEW p \in PpuType PROVE SetFlags(p) \in PpuType
  OBVIOUS
<1>1. (p.nmi_triggered \/ p.nmi_enabled) \in BOOLEAN
  OBVIOUS
<1>2. [p EXCEPT !.vblank = TRUE, !.nmi_triggered = p.nmi_triggered \/ p.nmi_enabled]
        \in PpuType
  BY <1>1, Zenon DEF PpuType
<1>3. [p EXCEPT !.vblank = FALSE] \in PpuType
  BY DEF PpuType
<1>4. QED
  BY <1>2, <1>3, Zenon DEF SetFlags

LEMMA AdvanceType == \A p \in PpuType : Advance(p) \in PpuType
<1> SUFFICES ASSUME NEW p \in PpuType PROVE Advance(p) \in PpuType
  OBVIOUS
<1>1. /\ p.cycle \in 0 .. LastCycle /\ p.scanline \in -1 .. LastLine
      /\ 0 \in 0 .. LastCycle /\ -1 \in -1 .. LastLine
  BY BeamAssumption DEF PpuType
<1>2. /\ p.cycle < LastCycle => p.cycle + 1 \in 0 .. LastCycle
      /\ p.scanline < LastLine => p.scanline + 1 \in -1 .. LastLine
  BY <1>1, BeamAssumption
<1>3. (~p.odd_frame) \in BOOLEAN
  OBVIOUS
<1>4. ASSUME p.cycle < LastCycle
      PROVE  [p EXCEPT !.cycle = p.cycle + 1] \in PpuType
  BY <1>2, <1>4, Zenon DEF PpuType
<1>5. ASSUME p.scanline < LastLine
      PROVE  [p EXCEPT !.cycle = 0, !.scanline = p.scanline + 1] \in PpuType
  BY <1>1, <1>2, <1>5, Zenon DEF PpuType
<1>6. [p EXCEPT !.cycle = 0, !.scanline = -1, !.frame_complete = TRUE,
                !.odd_frame = ~p.odd_frame] \in PpuType
  BY <1>1, <1>3, Zenon DEF PpuType
<1>7. QED
  BY <1>4, <1>5, <1>6, Zenon DEF Advance

LEMMA SkipType == \A p \in PpuType : SkipOddCycle(p) \in PpuType
<1> SUFFICES ASSUME NEW p \in PpuType PROVE SkipOddCycle(p) \in PpuType
  OBVIOUS
<1>1. 0 \in 0 .. LastCycle /\ 0 \in -1 .. LastLine
  BY BeamAssumption
<1>2. [p EXCEPT !.cycle = 0, !.scanline = 0] \in PpuType
  BY <1>1, Zenon DEF PpuType
<1>3. QED
  BY <1>2, Zenon DEF SkipOddCycle

LEMMA BusTickType == \A p \in PpuType : BusTick[p] \in PpuType
<1>1. \A p \in PpuType : PpuTick[p] \in PpuType
  BY SetFlagsType, AdvanceType, SkipType, Zenon DEF PpuTick
<1>2. QED
  BY <1>1, Zenon DEF BusTick

LEMMA RegisterType ==
    ASSUME NEW p \in PpuType, NEW b \in BOOLEAN
    PROVE  /\ WriteCtrl(p, b) \in PpuType
           /\ WriteMask(p, b) \in PpuType
           /\ ReadStatus(p) \in PpuType
           /\ [p EXCEPT !.nmi_triggered = FALSE] \in PpuType
           /\ [p EXCEPT !.frame_complete = FALSE] \in PpuType
<1>1. (p.nmi_triggered \/ (~p.nmi_enabled /\ b /\ p.vblank)) \in BOOLEAN
  OBVIOUS
<1>2. QED
  BY <1>1, Zenon DEF WriteCtrl, WriteMask, ReadStatus, PpuType

-----------------------------------------------------------------------------
(* The loop.  An access that has had its tick is one of the instruction's   *)
(* accesses, and between the entry of a handler and its first instruction   *)
(* the interrupt flag stays set: only an instruction can clear it.          *)

DueInv == due => at = "execute" /\ left > 0

EntryInv == entering => irq_disabled /\ at # "execute" /\ at # "idle"

IInv == TypeOK /\ DueInv /\ EntryInv

\* What the places outside the current one may assume of the numbers.
LEMMA Numbers ==
    /\ 0 \in Nat /\ 1 \in Nat /\ 0 \in 0 .. MaxCycles
    /\ \A n \in Nat : n + 1 \in Nat /\ (n > 0 => n - 1 \in Nat)
    /\ \A n \in 0 .. MaxCycles : /\ Less(n) \in 0 .. MaxCycles
                                 /\ n > 0 => n - 1 \in 0 .. MaxCycles
    /\ \A n \in 1 .. MaxAccesses : n \in Nat /\ (n .. MaxCycles) \subseteq 0 .. MaxCycles
    /\ EntryCycles \in Nat
    /\ 2 * OamBytes \in Nat /\ 2 * OamBytes + 1 \in Nat /\ 2 * OamBytes + 0 \in Nat
    /\ StealCycles \in Nat
    /\ 0 \in 0 .. MaxSteals
    /\ \A n \in 0 .. MaxSteals : n < MaxSteals => n + 1 \in 0 .. MaxSteals
  BY LoopAssumption DEF Less

\* What a bus cycle does to the state, whoever runs it.
LEMMA CycleType ==
    ASSUME TypeOK, Cycle
    PROVE  /\ ppu' \in PpuType
           /\ odd' \in BOOLEAN /\ irq_line' \in BOOLEAN
           /\ completed' \in Nat /\ handled' \in Nat
           /\ steady' \in BOOLEAN
           /\ dma_active' = dma_active /\ entering' = entering
<1>1. ppu' \in PpuType
  BY BusTickType, Zenon DEF TypeOK, Cycle
<1>2. (~odd) \in BOOLEAN /\ ppu.nmi_enabled \in BOOLEAN
  BY DEF TypeOK, PpuType
<1>3. completed' \in Nat /\ handled' \in Nat
  BY Numbers, Zenon DEF TypeOK, Cycle
<1>4. QED
  BY <1>1, <1>2, <1>3, Zenon DEF TypeOK, Cycle

LEMMA OwnCycleType ==
    ASSUME TypeOK, OwnCycle
    PROVE  Cycle /\ stall' \in Nat /\ steals' \in 0 .. MaxSteals
  BY Numbers, Zenon DEF TypeOK, OwnCycle, thefts

\* The three invariants survive a bus cycle that leaves the place in the code
\* and its counters in their types.
LEMMA CycleInv ==
    ASSUME IInv, Cycle,
           stall' \in Nat, steals' \in 0 .. MaxSteals,
           at' = at, op' = op, irq_disabled' = irq_disabled,
           left' \in Nat, spare' \in 0 .. MaxCycles, due' \in BOOLEAN,
           due' => at = "execute" /\ left' > 0
    PROVE  IInv'
<1>1. TypeOK'
  BY CycleType, Zenon DEF IInv, TypeOK
<1>2. DueInv'
  BY Zenon DEF DueInv
<1>3. entering' = entering
  BY Zenon DEF Cycle
<1>4. EntryInv'
  BY <1>3, Zenon DEF IInv, EntryInv
<1>5. QED
  BY <1>1, <1>2, <1>4 DEF IInv

\* A read may be served in a stolen cycle, too.
LEMMA StolenSteals ==
    ASSUME TypeOK, StolenCycle
    PROVE  /\ stall \in Nat \ {0} /\ steals \in 0 .. MaxSteals
           /\ stall' \in Nat /\ steals' \in 0 .. MaxSteals
           /\ \/ stall' = stall - 1 /\ steals' = steals
              \/ steals < MaxSteals /\ steals' = steals + 1 /\ stall' = stall - 1 + StealCycles
<1>1. /\ stall \in Nat \ {0} /\ steals \in 0 .. MaxSteals
      /\ \/ stall' = stall - 1 /\ steals' = steals
         \/ steals < MaxSteals /\ steals' = steals + 1 /\ stall' = stall - 1 + StealCycles
  BY LoopAssumption DEF TypeOK, StolenCycle
<1>2. stall' \in Nat /\ steals' \in 0 .. MaxSteals
  BY <1>1, LoopAssumption
<1>3. QED
  BY <1>1, <1>2

LEMMA BusCyclesInv ==
    IInv /\ (BeginAccess \/ IdleCycle \/ EntryCycle \/ DmaCycle \/ StolenCycle) => IInv'
<1> SUFFICES ASSUME IInv,
                    BeginAccess \/ IdleCycle \/ EntryCycle \/ DmaCycle \/ StolenCycle
             PROVE  IInv'
  OBVIOUS
<1>1. TypeOK
  BY DEF IInv
<1>2. CASE BeginAccess
  <2>1. /\ OwnCycle /\ at = "execute" /\ left > 0
        /\ due' = TRUE /\ spare' = Less(spare)
        /\ at' = at /\ left' = left /\ op' = op /\ irq_disabled' = irq_disabled
    BY <1>2 DEF BeginAccess
  <2>2. spare' \in 0 .. MaxCycles /\ left' \in Nat /\ due' \in BOOLEAN
    BY <1>1, <2>1, Numbers, Zenon DEF TypeOK
  <2>3. QED
    BY <1>1, <2>1, <2>2, OwnCycleType, CycleInv, Zenon
<1>3. CASE IdleCycle
  <2>1. /\ OwnCycle /\ at = "idle" /\ spare > 0 /\ spare' = spare - 1
        /\ at' = at /\ left' = left /\ op' = op /\ irq_disabled' = irq_disabled
        /\ due' = due
    BY <1>3 DEF IdleCycle
  <2>2. spare' \in 0 .. MaxCycles /\ left' \in Nat /\ due' \in BOOLEAN
    BY <1>1, <2>1, Numbers, Zenon DEF TypeOK
  <2>3. due' => at = "execute" /\ left' > 0
    BY <2>1, Zenon DEF IInv, DueInv
  <2>4. QED
    BY <1>1, <2>1, <2>2, <2>3, OwnCycleType, CycleInv, Zenon
<1>4. CASE EntryCycle \/ DmaCycle
  <2>1. /\ OwnCycle /\ at # "execute" /\ left > 0 /\ left' = left - 1
        /\ at' = at /\ spare' = spare /\ op' = op /\ irq_disabled' = irq_disabled
        /\ due' = due
    BY <1>4 DEF EntryCycle, DmaCycle
  <2>2. spare' \in 0 .. MaxCycles /\ left' \in Nat /\ due' \in BOOLEAN
    BY <1>1, <2>1, Numbers, Zenon DEF TypeOK
  <2>3. due' => at = "execute" /\ left' > 0
    BY <2>1, Zenon DEF IInv, DueInv
  <2>4. QED
    BY <1>1, <2>1, <2>2, <2>3, OwnCycleType, CycleInv, Zenon
<1>5. CASE StolenCycle
  <2>1. /\ Cycle
        /\ spare' = (IF at = "execute" THEN Less(spare) ELSE spare)
        /\ at' = at /\ left' = left /\ op' = op /\ irq_disabled' = irq_disabled
        /\ due' = due
    BY <1>5 DEF StolenCycle
  <2>2. /\ spare' \in 0 .. MaxCycles /\ left' \in Nat /\ due' \in BOOLEAN
        /\ stall' \in Nat /\ steals' \in 0 .. MaxSteals
    <3>1. spare' \in 0 .. MaxCycles /\ left' \in Nat /\ due' \in BOOLEAN
      BY <1>1, <2>1, Numbers, Zenon DEF TypeOK
    <3>2. QED
      BY <1>1, <1>5, <3>1, StolenSteals
  <2>3. due' => at = "execute" /\ left' > 0
    BY <2>1, Zenon DEF IInv, DueInv
  <2>4. QED
    BY <2>1, <2>2, <2>3, CycleInv, Zenon
<1>6. QED
  BY <1>2, <1>3, <1>4, <1>5

LEMMA RegistersInv == IInv /\ Registers => IInv'
<1> SUFFICES ASSUME IInv, Registers PROVE IInv'
  OBVIOUS
<1>1. TypeOK
  BY DEF IInv
<1>2. /\ Access
      /\ ppu' \in PpuType /\ irq_line' \in BOOLEAN
      /\ dma_active' \in BOOLEAN /\ steady' \in BOOLEAN
  <2>1. CASE OtherAccess \/ AccessOamDma
    BY <1>1, <2>1, Zenon DEF OtherAccess, AccessOamDma, TypeOK
  <2>2. CASE AccessStatus
    BY <1>1, <2>2, RegisterType, Zenon DEF AccessStatus, TypeOK
  <2>3. CASE \E b \in BOOLEAN : AccessCtrl(b) \/ AccessMask(b)
    BY <1>1, <2>3, RegisterType, Zenon DEF AccessCtrl, AccessMask, TypeOK
  <2>4. QED
    BY <2>1, <2>2, <2>3, Zenon DEF Registers
<1>3. /\ at = "execute" /\ due /\ left' = left - 1 /\ due' = FALSE
      /\ at' = at /\ spare' = spare /\ op' = op /\ irq_disabled' = irq_disabled
      /\ stall' = stall /\ steals' = steals /\ odd' = odd
      /\ completed' = completed /\ handled' = handled /\ entering' = entering
  BY <1>2 DEF Access, thefts
<1>4. left' \in Nat /\ due' \in BOOLEAN
  BY <1>1, <1>3, Numbers, Zenon DEF IInv, DueInv, TypeOK
<1>5. TypeOK'
  BY <1>1, <1>2, <1>3, <1>4, Zenon DEF TypeOK
<1>6. DueInv' /\ EntryInv'
  BY <1>3, Zenon DEF IInv, DueInv, EntryInv
<1>7. QED
  BY <1>5, <1>6 DEF IInv

\* Bus::poll_nmi, after an instruction or a transfer.
LEMMA PollNmiInv ==
    ASSUME IInv, PollNmi, at # "execute", dma_active' \in BOOLEAN, at = "idle" => ~entering
    PROVE  IInv'
<1>1. /\ spare' = spare /\ due' = due /\ op' = op
      /\ stall' = stall /\ steals' = steals /\ odd' = odd
      /\ irq_line' = irq_line /\ completed' = completed /\ steady' = steady
  BY DEF PollNmi, thefts
<1>2. ~due
  BY DEF IInv, DueInv
<1>3. TypeOK
  BY DEF IInv
<1>4. CASE ppu.nmi_triggered
  <2>1. /\ ppu' = [ppu EXCEPT !.nmi_triggered = FALSE]
        /\ at' = "nmi" /\ left' = EntryCycles
        /\ irq_disabled' = TRUE /\ handled' = handled + 1 /\ entering' = TRUE
    BY <1>4 DEF PollNmi
  <2>2. ppu' \in PpuType /\ left' \in Nat /\ handled' \in Nat
    BY <1>3, <2>1, RegisterType, Numbers, Zenon DEF TypeOK
  <2>3. TypeOK'
    BY <1>1, <1>3, <2>1, <2>2, Zenon DEF TypeOK
  <2>4. DueInv' /\ EntryInv'
    BY <1>1, <1>2, <2>1 DEF DueInv, EntryInv
  <2>5. QED
    BY <2>3, <2>4 DEF IInv
<1>5. CASE ~ppu.nmi_triggered
  <2>1. /\ at' = "poll_irq" /\ left' = 0
        /\ ppu' = ppu /\ irq_disabled' = irq_disabled
        /\ handled' = handled /\ entering' = entering
    BY <1>5 DEF PollNmi
  <2>2. TypeOK'
    BY <1>1, <1>3, <2>1, Numbers, Zenon DEF TypeOK
  <2>3. DueInv' /\ EntryInv'
    BY <1>1, <1>2, <2>1 DEF IInv, DueInv, EntryInv
  <2>4. QED
    BY <2>2, <2>3 DEF IInv
<1>6. QED
  BY <1>4, <1>5

\* The steps that only move from one place to another.
LEMMA MovesInv ==
    IInv /\ (BeginInstruction \/ EndExecute \/ EndNmi \/ TakeIrq \/ NoIrq \/ EndIrq
               \/ BeginDma \/ EndAlign \/ FrameDone) => IInv'
<1> SUFFICES ASSUME IInv,
                    BeginInstruction \/ EndExecute \/ EndNmi \/ TakeIrq \/ NoIrq
                      \/ EndIrq \/ BeginDma \/ EndAlign \/ FrameDone
             PROVE  IInv'
  OBVIOUS
<1>1. TypeOK
  BY DEF IInv
<1>2. CASE BeginInstruction
  <2>1. TypeOK'
    BY <1>1, <1>2, Numbers, Zenon DEF BeginInstruction, TypeOK, thefts
  <2>2. DueInv' /\ EntryInv'
    BY <1>2 DEF BeginInstruction, IInv, DueInv, EntryInv
  <2>3. QED
    BY <2>1, <2>2 DEF IInv
<1>3. CASE EndExecute
  <2>1. /\ at = "execute" /\ left = 0 /\ at' = "idle" /\ left' = left
        /\ due' = due /\ entering' = entering
    BY <1>3 DEF EndExecute, history
  <2>2. TypeOK'
    BY <1>1, <1>3, Zenon DEF EndExecute, TypeOK, thefts, history, Ops
  <2>3. DueInv' /\ EntryInv'
    BY <2>1 DEF IInv, DueInv, EntryInv
  <2>4. QED
    BY <2>2, <2>3 DEF IInv
<1>4. CASE EndNmi \/ NoIrq \/ EndIrq
  <2>1. TypeOK'
    BY <1>1, <1>4, Numbers, ZenonT(60) DEF EndNmi, NoIrq, EndIrq, TypeOK, thefts, history
  <2>2. DueInv' /\ EntryInv'
    BY <1>4 DEF EndNmi, NoIrq, EndIrq, IInv, DueInv, EntryInv, history
  <2>3. QED
    BY <2>1, <2>2 DEF IInv
<1>5. CASE TakeIrq
  <2>1. TypeOK'
    BY <1>1, <1>5, Numbers, Zenon DEF TakeIrq, TypeOK, thefts
  <2>2. DueInv' /\ EntryInv'
    BY <1>5 DEF TakeIrq, IInv, DueInv, EntryInv
  <2>3. QED
    BY <2>1, <2>2 DEF IInv
<1>6. CASE BeginDma
  <2>1. TypeOK'
    BY <1>1, <1>6, Numbers, Zenon DEF BeginDma, TypeOK, thefts, history
  <2>2. DueInv' /\ EntryInv'
    BY <1>6 DEF BeginDma, IInv, DueInv, EntryInv, history
  <2>3. QED
    BY <2>1, <2>2 DEF IInv
<1>7. CASE EndAlign
  <2>1. left' \in Nat
    BY <1>7, Numbers, Zenon DEF EndAlign
  <2>2. TypeOK'
    BY <1>1, <1>7, <2>1, Zenon DEF EndAlign, TypeOK, thefts, history
  <2>3. DueInv' /\ EntryInv'
    BY <1>7 DEF EndAlign, IInv, DueInv, EntryInv, history
  <2>4. QED
    BY <2>2, <2>3 DEF IInv
<1>8. CASE FrameDone
  <2>1. ppu' \in PpuType
    BY <1>1, <1>8, RegisterType, Zenon DEF FrameDone, TypeOK
  <2>2. TypeOK'
    BY <1>1, <1>8, <2>1, Numbers, Zenon DEF FrameDone, TypeOK, cpu, thefts
  <2>3. DueInv' /\ EntryInv'
    BY <1>8 DEF FrameDone, IInv, DueInv, EntryInv, cpu
  <2>4. QED
    BY <2>2, <2>3 DEF IInv
<1>9. QED
  BY <1>2, <1>3, <1>4, <1>5, <1>6, <1>7, <1>8

LEMMA StepInv == IInv /\ [Next]_vars => IInv'
<1> SUFFICES ASSUME IInv, [Next]_vars PROVE IInv'
  OBVIOUS
<1>1. CASE EndInstruction
  <2>1. /\ at = "idle" /\ PollNmi /\ dma_active' = dma_active
    BY <1>1 DEF EndInstruction
  <2>2. dma_active' \in BOOLEAN /\ ~entering
    BY <2>1, Zenon DEF IInv, TypeOK, EntryInv
  <2>3. QED
    BY <2>1, <2>2, PollNmiInv
<1>2. CASE EndDma
  BY <1>2, PollNmiInv DEF EndDma
<1>3. CASE UNCHANGED vars
  <2>1. TypeOK'
    BY <1>3, ZenonT(60) DEF IInv, TypeOK, vars, cpu, thefts, history
  <2>2. DueInv' /\ EntryInv'
    BY <1>3, Zenon DEF IInv, DueInv, EntryInv, vars, cpu, thefts, history
  <2>3. QED
    BY <2>1, <2>2 DEF IInv
<1>4. QED
  BY <1>1, <1>2, <1>3, BusCyclesInv, RegistersInv, MovesInv DEF Next

LEMMA InitInv == Init => IInv
<1> SUFFICES ASSUME Init PROVE IInv
  OBVIOUS
<1>1. NewPpu \in PpuType
  <2>1. -1 \in -1 .. LastLine /\ 0 \in 0 .. LastCycle
    BY BeamAssumption
  <2>2. QED
    BY <2>1, Zenon DEF NewPpu, PpuType
<1>2. ppu \in PpuType
  BY <1>1, BusTickType, Zenon DEF Init
<1>3. TypeOK
  BY <1>2, Numbers, Zenon DEF Init, TypeOK, Ops
<1>4. DueInv /\ EntryInv
  BY Zenon DEF Init, DueInv, EntryInv
<1>5. QED
  BY <1>3, <1>4 DEF IInv

THEOREM Invariance == Spec => []IInv
  BY InitInv, StepInv, PTL DEF Spec

\* The beam stays on the screen, and every counter of the loop in its range.
THEOREM TypeCorrect == Spec => []TypeOK
<1>1. IInv => TypeOK
  BY DEF IInv
<1>2. QED
  BY Invariance, <1>1, PTL

\* No interrupt request breaks in before the first instruction of a handler
\* that has been entered, however NMI, IRQ and sprite DMA follow one another.
THEOREM HandlersComeFirst == Spec => IrqWaitsForHandler
<1>1. IInv /\ [Next]_vars => [(at' = "irq" /\ at # "irq") => ~entering]_vars
  <2> SUFFICES ASSUME IInv, Next, at' = "irq", at # "irq" PROVE ~entering
    BY Zenon
  <2>1. TakeIrq
    BY DEF Next, BeginInstruction, BeginAccess, Registers, OtherAccess, AccessStatus,
           AccessOamDma, AccessCtrl, AccessMask, Access, EndExecute, IdleCycle,
           EndInstruction, EndDma, PollNmi, EntryCycle, EndNmi, NoIrq, EndIrq,
           BeginDma, DmaCycle, EndAlign, StolenCycle, FrameDone, cpu
  <2>2. QED
    BY <2>1 DEF IInv, EntryInv, TakeIrq
<1>2. QED
  BY Invariance, <1>1, PTL DEF Spec, IrqWaitsForHandler

-----------------------------------------------------------------------------
(* The beam as one number: the dots of the frame that are behind it, where  *)
(* the cycle that odd frames skip is not counted.                           *)

Width == LastCycle + 1

Dot(p) == (p.scanline + 1) * Width + p.cycle - (IF p.scanline >= 0 THEN 1 ELSE 0)

\* The last dot of a frame, and the first one after vertical blank began.
EndDot == (LastLine + 2) * Width - 2
BlankDot == (VblankLine + 1) * Width + 1

-----------------------------------------------------------------------------
(* Work: the most bus cycles that can pass before the loop is at its top    *)
(* again, and before the NMI is polled.                                     *)

Turn == IF MaxAccesses + MaxCycles > 2 * OamBytes + 2
          THEN MaxAccesses + MaxCycles ELSE 2 * OamBytes + 2

AllSteals == MaxSteals * StealCycles

StealWork == stall + (MaxSteals - steals) * StealCycles

\* Up to the end of the instruction or the transfer.
TurnWork ==
    CASE at = "execute" -> left - (IF due THEN 1 ELSE 0) + spare
      [] at = "idle"    -> spare
      [] at = "align"   -> left + 2 * OamBytes + 1
      [] at = "dma"     -> left
      [] OTHER          -> 0

Turning == at \in {"execute", "idle", "align", "dma"}

\* Up to the top of the loop.
LoopWork ==
    CASE Turning         -> TurnWork + 2 * EntryCycles + StealWork
      [] at = "nmi"      -> left + EntryCycles + StealWork
      [] at = "poll_irq" -> EntryCycles + StealWork
      [] at = "irq"      -> left + StealWork
      [] OTHER           -> 0

\* Up to the poll.
PollWork == IF Turning THEN TurnWork + StealWork ELSE LoopWork + Turn + AllSteals

LoopMax == Turn + 2 * EntryCycles + AllSteals
PollMax == Turn + 2 * EntryCycles + 2 * AllSteals

\* The numbers that bound the work; nothing is stolen at the places without a
\* cycle of their own.
WorkInv ==
    /\ StealWork <= AllSteals
    /\ at \in {"loop", "poll_irq"} => stall = 0
    /\ at = "loop" => steals = 0
    /\ Turning => TurnWork <= Turn
    /\ at \in {"nmi", "irq"} => left <= EntryCycles

\* A frame that has been completed is returned before the next one can be.
FrameInv ==
    /\ NoFrameLost
    /\ ppu.frame_complete => Dot(ppu) + 3 * LoopWork <= 3 * LoopMax

\* An NMI that is owed was raised in this vertical blank, and is polled in it.
BlankInv ==
    steady => IF ppu.nmi_triggered
                THEN /\ handled = 0
                     /\ ~BeforeVblank(ppu)
                     /\ Dot(ppu) + 3 * PollWork < BlankDot + 3 * PollMax
                ELSE handled = 1

-----------------------------------------------------------------------------
(* What ticks do to the beam.                                               *)

LEMMA BeamNumbers ==
    /\ Width \in Nat /\ Width >= 5 /\ LastCycle = Width - 1 /\ LastCycle \in Nat
    /\ LastLine \in Nat /\ VblankLine \in Nat /\ VblankLine >= 1 /\ VblankLine <= LastLine
    /\ EndDot \in Nat /\ BlankDot \in Nat
    /\ BlankDot >= 11 /\ BlankDot + 2 <= EndDot
<1>1. /\ Width \in Nat /\ Width >= 5 /\ LastCycle = Width - 1 /\ LastCycle \in Nat
      /\ LastLine \in Nat /\ VblankLine \in Nat /\ VblankLine >= 1 /\ VblankLine <= LastLine
  BY BeamAssumption DEF Width
<1>2. ASSUME NEW a \in Nat, NEW b \in Nat, a <= b
      PROVE  a * Width <= b * Width /\ a * Width \in Nat /\ b * Width \in Nat
  BY <1>1, <1>2
<1>3. /\ (VblankLine + 1) * Width \in Nat /\ (LastLine + 1) * Width \in Nat
      /\ (VblankLine + 1) * Width <= (LastLine + 1) * Width
  BY <1>1, <1>2
<1>4. 2 * Width <= (VblankLine + 1) * Width
  BY <1>1, <1>2
<1>5. (LastLine + 2) * Width = (LastLine + 1) * Width + Width
  BY <1>1
<1>6. QED
  BY <1>1, <1>3, <1>4, <1>5 DEF EndDot, BlankDot

\* The beam has moved on in the frame from p to q.
MovesOn(p, q, dots) ==
    /\ q.frame_complete = p.frame_complete /\ q.odd_frame = p.odd_frame
    /\ Dot(q) <= Dot(p) + dots

\* Or it has begun a frame.
Wraps(p, q, dots) ==
    /\ Dot(p) > EndDot - dots
    /\ q.frame_complete = TRUE /\ q.odd_frame # p.odd_frame
    /\ Dot(q) < dots

\* Vertical blank has begun.
Starts(p, q) == BeforeVblank(p) /\ ~BeforeVblank(q)

LEMMA DotNat == \A p \in PpuType : Dot(p) \in Nat
<1> TAKE p \in PpuType
<1>1. p.scanline \in -1 .. LastLine /\ p.cycle \in 0 .. LastCycle
  BY DEF PpuType
<1>2. /\ (p.scanline + 1) * Width \in Int
      /\ p.scanline >= 0 => (p.scanline + 1) * Width >= Width
      /\ p.scanline = -1 => (p.scanline + 1) * Width = 0
  BY <1>1, BeamNumbers
<1>3. QED
  BY <1>1, <1>2, BeamNumbers DEF Dot

\* Flags are all that SetFlags sets.
LEMMA SetFlagsFacts ==
    ASSUME NEW p \in PpuType
    PROVE  LET q == SetFlags(p)
           IN  /\ q.scanline = p.scanline /\ q.cycle = p.cycle
               /\ q.frame_complete = p.frame_complete /\ q.odd_frame = p.odd_frame
               /\ q.nmi_enabled = p.nmi_enabled
               /\ p.cycle = 1 /\ p.scanline = VblankLine
                    => q.nmi_triggered = (p.nmi_triggered \/ p.nmi_enabled)
               /\ ~(p.cycle = 1 /\ p.scanline = VblankLine)
                    => q.nmi_triggered = p.nmi_triggered
<1>1. CASE p.cycle = 1 /\ p.scanline = VblankLine
  BY <1>1 DEF SetFlags, PpuType
<1>2. CASE ~(p.cycle = 1 /\ p.scanline = VblankLine)
  BY <1>2 DEF SetFlags, PpuType
<1>3. QED
  BY <1>1, <1>2

\* The three ways of the beam: along a line, to the next one, to a new frame;
\* and of the next two, the one from the end of the pre-render line may be
\* taken a cycle early.
LEMMA BeamFacts ==
    ASSUME NEW p \in PpuType
    PROVE  LET q == SkipOddCycle(Advance(p))
           IN  /\ q.nmi_enabled = p.nmi_enabled /\ q.nmi_triggered = p.nmi_triggered
               /\ \/ /\ p.cycle < LastCycle
                     /\ q.frame_complete = p.frame_complete /\ q.odd_frame = p.odd_frame
                     /\ \/ q.scanline = p.scanline /\ q.cycle = p.cycle + 1
                        \/ /\ p.scanline = -1 /\ p.cycle = LastCycle - 1
                           /\ q.scanline = 0 /\ q.cycle = 0
                  \/ /\ p.cycle = LastCycle /\ p.scanline < LastLine
                     /\ q.frame_complete = p.frame_complete /\ q.odd_frame = p.odd_frame
                     /\ q.scanline = p.scanline + 1 /\ q.cycle = 0
                  \/ /\ p.cycle = LastCycle /\ p.scanline = LastLine
                     /\ q.frame_complete = TRUE /\ q.odd_frame # p.odd_frame
                     /\ q.scanline = -1 /\ q.cycle = 0
<1>1. p.cycle \in 0 .. LastCycle /\ p.scanline \in -1 .. LastLine
  BY DEF PpuType
<1>2. CASE p.cycle < LastCycle
  BY <1>1, <1>2, BeamNumbers DEF Advance, SkipOddCycle, PpuType
<1>3. CASE p.cycle = LastCycle /\ p.scanline < LastLine
  BY <1>1, <1>3, BeamNumbers DEF Advance, SkipOddCycle, PpuType
<1>4. CASE p.cycle = LastCycle /\ p.scanline = LastLine
  <2> DEFINE q == [p EXCEPT !.cycle = 0, !.scanline = -1, !.frame_complete = TRUE,
                            !.odd_frame = ~p.odd_frame]
  <2>1. Advance(p) = q
    BY <1>4, BeamNumbers DEF Advance
  <2>2. /\ q.cycle = 0 /\ q.scanline = -1 /\ q.frame_complete = TRUE
        /\ q.odd_frame = ~p.odd_frame
        /\ q.nmi_enabled = p.nmi_enabled /\ q.nmi_triggered = p.nmi_triggered
    BY Zenon DEF PpuType
  <2>3. q.odd_frame # p.odd_frame
    BY <2>2, Zenon
  <2>4. SkipOddCycle(Advance(p)) = q
    <3>1. 0 # LastCycle
      BY BeamNumbers
    <3>2. QED
      BY <2>1, <2>2, <3>1, Zenon DEF SkipOddCycle
  <2>5. QED
    BY <1>4, <2>2, <2>3, <2>4, Zenon
<1>5. \/ p.cycle < LastCycle
      \/ p.cycle = LastCycle /\ p.scanline < LastLine
      \/ p.cycle = LastCycle /\ p.scanline = LastLine
  BY <1>1, BeamNumbers
<1>6. QED
  BY <1>2, <1>3, <1>4, <1>5, Zenon

\* One tick.
LEMMA TickFacts ==
    ASSUME NEW p \in PpuType
    PROVE  LET q == PpuTick[p]
           IN  /\ q \in PpuType
               /\ q.nmi_enabled = p.nmi_enabled
               /\ MovesOn(p, q, 1) \/ (Wraps(p, q, 1) /\ ~BeforeVblank(p))
               /\ Starts(p, q) => /\ q.nmi_triggered = (p.nmi_triggered \/ p.nmi_enabled)
                                  /\ Dot(q) = BlankDot /\ MovesOn(p, q, 1)
               /\ ~Starts(p, q) => q.nmi_triggered = p.nmi_triggered
               /\ ~BeforeVblank(p) /\ BeforeVblank(q) => Wraps(p, q, 1)
<1> DEFINE f == SetFlags(p)
           q == SkipOddCycle(Advance(f))
<1>1. PpuTick[p] = q
  BY DEF PpuTick
<1>2. f \in PpuType
  BY SetFlagsType
<1>3. q \in PpuType
  BY <1>2, SetFlagsType, AdvanceType, SkipType, Zenon
<1>4. /\ p.scanline \in -1 .. LastLine /\ p.cycle \in 0 .. LastCycle
      /\ f.scanline = p.scanline /\ f.cycle = p.cycle
      /\ f.frame_complete = p.frame_complete /\ f.odd_frame = p.odd_frame
      /\ f.nmi_enabled = p.nmi_enabled
  BY SetFlagsFacts DEF PpuType
<1>5. q.nmi_enabled = p.nmi_enabled /\ q.nmi_triggered = f.nmi_triggered
  BY <1>2, <1>4, BeamFacts, Zenon
<1>6. /\ p.cycle = 1 /\ p.scanline = VblankLine
           => f.nmi_triggered = (p.nmi_triggered \/ p.nmi_enabled)
      /\ ~(p.cycle = 1 /\ p.scanline = VblankLine) => f.nmi_triggered = p.nmi_triggered
  BY SetFlagsFacts, Zenon
<1> HIDE DEF f, q
<1>7. /\ MovesOn(p, q, 1) \/ (Wraps(p, q, 1) /\ ~BeforeVblank(p))
      /\ Starts(p, q) <=> (p.cycle = 1 /\ p.scanline = VblankLine)
      /\ Starts(p, q) => Dot(q) = BlankDot /\ MovesOn(p, q, 1)
      /\ ~BeforeVblank(p) /\ BeforeVblank(q) => Wraps(p, q, 1)
  <2>1. CASE /\ p.cycle < LastCycle
             /\ q.frame_complete = p.frame_complete /\ q.odd_frame = p.odd_frame
             /\ q.scanline = p.scanline /\ q.cycle = p.cycle + 1
    <3>1. Dot(q) = Dot(p) + 1
      BY <1>4, <2>1, BeamNumbers DEF Dot
    <3>2. p.cycle = 1 /\ p.scanline = VblankLine => Dot(q) = BlankDot
      BY <1>4, <2>1, BeamNumbers DEF Dot, BlankDot
    <3>3. Dot(p) \in Nat
      BY DotNat
    <3>4. QED
      BY <1>4, <2>1, <3>1, <3>2, <3>3, BeamNumbers DEF MovesOn, Starts, BeforeVblank
  <2>2. CASE /\ q.frame_complete = p.frame_complete /\ q.odd_frame = p.odd_frame
             /\ p.scanline = -1 /\ p.cycle = LastCycle - 1
             /\ q.scanline = 0 /\ q.cycle = 0
    <3>1. Dot(q) = Dot(p) + 1
      BY <1>4, <2>2, BeamNumbers DEF Dot
    <3>2. Dot(p) \in Nat
      BY DotNat
    <3>3. QED
      BY <1>4, <2>2, <3>1, <3>2, BeamNumbers DEF MovesOn, Starts, BeforeVblank
  <2>3. CASE /\ p.cycle = LastCycle /\ p.scanline < LastLine
             /\ q.frame_complete = p.frame_complete /\ q.odd_frame = p.odd_frame
             /\ q.scanline = p.scanline + 1 /\ q.cycle = 0
    <3>1. Dot(q) <= Dot(p) + 1
      <4>1. (q.scanline + 1) * Width = (p.scanline + 1) * Width + Width
        BY <1>4, <2>3, BeamNumbers
      <4>2. (p.scanline + 1) * Width \in Int
        BY <1>4, BeamNumbers
      <4>3. QED
        BY <1>4, <2>3, <4>1, <4>2, BeamNumbers DEF Dot
    <3>2. Dot(p) \in Nat
      BY DotNat
    <3>3. QED
      BY <1>4, <2>3, <3>1, <3>2, BeamNumbers DEF MovesOn, Starts, BeforeVblank
  <2>4. CASE /\ p.cycle = LastCycle /\ p.scanline = LastLine
             /\ q.frame_complete = TRUE /\ q.odd_frame # p.odd_frame
             /\ q.scanline = -1 /\ q.cycle = 0
    <3>1. Dot(p) = EndDot /\ Dot(q) = 0
      <4>1. (LastLine + 2) * Width = (LastLine + 1) * Width + Width
        BY BeamNumbers
      <4>2. (LastLine + 1) * Width \in Int
        BY BeamNumbers
      <4>3. QED
        BY <2>4, <4>1, <4>2, BeamNumbers DEF Dot, EndDot
    <3>2. QED
      BY <1>4, <2>4, <3>1, BeamNumbers DEF Wraps, Starts, BeforeVblank
  <2>5. /\ \/ /\ f.cycle < LastCycle
              /\ q.frame_complete = f.frame_complete /\ q.odd_frame = f.odd_frame
              /\ \/ q.scanline = f.scanline /\ q.cycle = f.cycle + 1
                 \/ /\ f.scanline = -1 /\ f.cycle = LastCycle - 1
                    /\ q.scanline = 0 /\ q.cycle = 0
           \/ /\ f.cycle = LastCycle /\ f.scanline < LastLine
              /\ q.frame_complete = f.frame_complete /\ q.odd_frame = f.odd_frame
              /\ q.scanline = f.scanline + 1 /\ q.cycle = 0
           \/ /\ f.cycle = LastCycle /\ f.scanline = LastLine
              /\ q.frame_complete = TRUE /\ q.odd_frame # f.odd_frame
              /\ q.scanline = -1 /\ q.cycle = 0
    BY <1>2, BeamFacts, Zenon DEF q
  <2>6. QED
    BY <1>4, <2>1, <2>2, <2>3, <2>4, <2>5
<1>8. QED
  BY <1>1, <1>3, <1>5, <1>6, <1>7, Zenon

\* Three ticks.
LEMMA BusTickFacts ==
    ASSUME NEW p \in PpuType
    PROVE  LET q == BusTick[p]
           IN  /\ q \in PpuType
               /\ q.nmi_enabled = p.nmi_enabled
               /\ MovesOn(p, q, 3) \/ Wraps(p, q, 3)
               /\ Starts(p, q) => /\ q.nmi_triggered = (p.nmi_triggered \/ p.nmi_enabled)
                                  /\ Dot(q) < BlankDot + 3
               /\ ~Starts(p, q) => q.nmi_triggered = p.nmi_triggered
               /\ ~BeforeVblank(p) /\ BeforeVblank(q) => Wraps(p, q, 3)
<1> DEFINE a == PpuTick[p]
           b == PpuTick[a]
           q == PpuTick[b]
<1>1. BusTick[p] = q
  BY DEF BusTick
<1>2. a \in PpuType /\ b \in PpuType /\ q \in PpuType
  BY TickFacts, Zenon
<1>3. Dot(p) \in Nat /\ Dot(a) \in Nat /\ Dot(b) \in Nat /\ Dot(q) \in Nat
  BY <1>2, DotNat
<1>4. /\ a.nmi_enabled = p.nmi_enabled
      /\ MovesOn(p, a, 1) \/ (Wraps(p, a, 1) /\ ~BeforeVblank(p))
      /\ Starts(p, a) => /\ a.nmi_triggered = (p.nmi_triggered \/ p.nmi_enabled)
                         /\ Dot(a) = BlankDot /\ MovesOn(p, a, 1)
      /\ ~Starts(p, a) => a.nmi_triggered = p.nmi_triggered
      /\ ~BeforeVblank(p) /\ BeforeVblank(a) => Wraps(p, a, 1)
  BY TickFacts, Zenon
<1>5. /\ b.nmi_enabled = a.nmi_enabled
      /\ MovesOn(a, b, 1) \/ (Wraps(a, b, 1) /\ ~BeforeVblank(a))
      /\ Starts(a, b) => /\ b.nmi_triggered = (a.nmi_triggered \/ a.nmi_enabled)
                         /\ Dot(b) = BlankDot /\ MovesOn(a, b, 1)
      /\ ~Starts(a, b) => b.nmi_triggered = a.nmi_triggered
      /\ ~BeforeVblank(a) /\ BeforeVblank(b) => Wraps(a, b, 1)
  BY <1>2, TickFacts, Zenon
<1>6. /\ q.nmi_enabled = b.nmi_enabled
      /\ MovesOn(b, q, 1) \/ (Wraps(b, q, 1) /\ ~BeforeVblank(b))
      /\ Starts(b, q) => /\ q.nmi_triggered = (b.nmi_triggered \/ b.nmi_enabled)
                         /\ Dot(q) = BlankDot /\ MovesOn(b, q, 1)
      /\ ~Starts(b, q) => q.nmi_triggered = b.nmi_triggered
      /\ ~BeforeVblank(b) /\ BeforeVblank(q) => Wraps(b, q, 1)
  BY <1>2, TickFacts, Zenon
<1> HIDE DEF a, b, q
<1>7. MovesOn(p, q, 3) \/ Wraps(p, q, 3)
  <2>1. CASE MovesOn(p, a, 1) /\ MovesOn(a, b, 1)
    <3>1. MovesOn(p, b, 2)
      BY <1>3, <2>1 DEF MovesOn
    <3>2. CASE MovesOn(b, q, 1)
      BY <1>3, <3>1, <3>2 DEF MovesOn
    <3>3. CASE Wraps(b, q, 1)
      <4>1. Wraps(p, q, 3)
        BY <1>3, <3>1, <3>3, BeamNumbers DEF MovesOn, Wraps
      <4>2. QED
        BY <4>1
    <3>4. QED
      BY <1>6, <3>2, <3>3
  <2>2. CASE MovesOn(p, a, 1) /\ Wraps(a, b, 1)
    <3>1. Wraps(p, b, 2)
      BY <1>3, <2>2, BeamNumbers DEF MovesOn, Wraps
    <3>2. MovesOn(b, q, 1)
      BY <1>3, <1>6, <2>2, BeamNumbers DEF MovesOn, Wraps
    <3>3. Wraps(p, q, 3)
      <4>1. q.frame_complete = TRUE /\ q.odd_frame # p.odd_frame
        BY <3>1, <3>2, Zenon DEF MovesOn, Wraps
      <4>2. Dot(p) > EndDot - 3 /\ Dot(q) < 3
        BY <1>3, <3>1, <3>2, BeamNumbers DEF MovesOn, Wraps
      <4>3. QED
        BY <4>1, <4>2, Zenon DEF Wraps
    <3>4. QED
      BY <3>3
  <2>3. CASE Wraps(p, a, 1)
    <3>1. MovesOn(a, b, 1)
      BY <1>3, <1>5, <2>3, BeamNumbers DEF MovesOn, Wraps
    <3>2. MovesOn(b, q, 1)
      BY <1>3, <1>6, <2>3, <3>1, BeamNumbers DEF MovesOn, Wraps
    <3>3. Wraps(p, q, 3)
      <4>1. q.frame_complete = TRUE /\ q.odd_frame # p.odd_frame
        BY <2>3, <3>1, <3>2, Zenon DEF MovesOn, Wraps
      <4>2. Dot(p) > EndDot - 3 /\ Dot(q) < 3
        BY <1>3, <2>3, <3>1, <3>2, BeamNumbers DEF MovesOn, Wraps
      <4>3. QED
        BY <4>1, <4>2, Zenon DEF Wraps
    <3>4. QED
      BY <3>3
  <2>4. QED
    BY <1>4, <1>5, <2>1, <2>2, <2>3
<1>8. Starts(p, q) => Dot(q) < BlankDot + 3
  BY <1>3, <1>4, <1>5, <1>6, BeamNumbers DEF MovesOn, Wraps, Starts
<1>9. ~BeforeVblank(p) /\ BeforeVblank(q) => Wraps(p, q, 3)
  BY <1>3, <1>4, <1>5, <1>6, <1>7, BeamNumbers DEF MovesOn, Wraps, Starts
<1>10. /\ Starts(p, q) => q.nmi_triggered = (p.nmi_triggered \/ p.nmi_enabled)
       /\ ~Starts(p, q) => q.nmi_triggered = p.nmi_triggered
  <2>1. ~(Wraps(p, a, 1) /\ (Starts(a, b) \/ Starts(b, q)))
    BY <1>3, <1>4, <1>5, <1>6, BeamNumbers DEF MovesOn, Wraps, Starts
  <2>2. ~(Wraps(a, b, 1) /\ (Starts(p, a) \/ Starts(b, q)))
    BY <1>3, <1>4, <1>5, <1>6, BeamNumbers DEF MovesOn, Wraps, Starts
  <2>3. ~(Wraps(b, q, 1) /\ (Starts(p, a) \/ Starts(a, b)))
    BY <1>3, <1>4, <1>5, <1>6, BeamNumbers DEF MovesOn, Wraps, Starts
  <2>4. QED
    BY <1>4, <1>5, <1>6, <2>1, <2>2, <2>3, Zenon DEF Starts
<1>11. QED
  BY <1>1, <1>2, <1>4, <1>5, <1>6, <1>7, <1>8, <1>9, <1>10, Zenon

-----------------------------------------------------------------------------
(* What steps do to the work.                                               *)

LEMMA WorkNumbers ==
    /\ MaxAccesses \in Nat /\ MaxCycles \in Nat /\ MaxAccesses >= 1
    /\ EntryCycles \in Nat /\ OamBytes \in Nat /\ StealCycles \in Nat
    /\ Turn \in Nat /\ MaxAccesses + MaxCycles <= Turn /\ 2 * OamBytes + 2 <= Turn
    /\ AllSteals \in Nat
    /\ \A s \in 0 .. MaxSteals :
          /\ (MaxSteals - s) * StealCycles \in Nat
          /\ (MaxSteals - s) * StealCycles <= AllSteals
          /\ s = 0 => (MaxSteals - s) * StealCycles = AllSteals
          /\ s < MaxSteals => (MaxSteals - (s + 1)) * StealCycles + StealCycles
                                 = (MaxSteals - s) * StealCycles
<1>1. /\ MaxAccesses \in Nat /\ MaxCycles \in Nat /\ MaxAccesses >= 1
      /\ EntryCycles \in Nat /\ OamBytes \in Nat /\ StealCycles \in Nat
      /\ MaxSteals \in Nat
  BY LoopAssumption
<1>2. ASSUME NEW m \in Nat, NEW n \in Nat, m <= n
      PROVE  m * StealCycles \in Nat /\ m * StealCycles <= n * StealCycles
  BY <1>1, <1>2
<1>3. \A s \in 0 .. MaxSteals :
          /\ MaxSteals - s \in Nat /\ MaxSteals - s <= MaxSteals
          /\ s < MaxSteals => (MaxSteals - (s + 1)) * StealCycles + StealCycles
                                 = (MaxSteals - s) * StealCycles
  BY <1>1
<1>4. QED
  BY <1>1, <1>2, <1>3 DEF Turn, AllSteals

LEMMA WorkTypes ==
    IInv /\ WorkInv => /\ StealWork \in Nat /\ LoopWork \in Nat /\ PollWork \in Nat
                       /\ LoopWork <= LoopMax /\ PollWork <= PollMax
<1> SUFFICES ASSUME IInv, WorkInv
             PROVE  /\ StealWork \in Nat /\ LoopWork \in Nat /\ PollWork \in Nat
                    /\ LoopWork <= LoopMax /\ PollWork <= PollMax
  OBVIOUS
<1>1. /\ left \in Nat /\ spare \in Nat /\ stall \in Nat /\ steals \in 0 .. MaxSteals
      /\ due \in BOOLEAN
      /\ due => left > 0
  BY WorkNumbers DEF IInv, TypeOK, DueInv
<1>2. StealWork \in Nat /\ StealWork <= AllSteals
  BY <1>1, WorkNumbers DEF StealWork, WorkInv
<1>3. TurnWork \in Nat
  BY <1>1, WorkNumbers DEF TurnWork
<1>4. QED
  BY <1>1, <1>2, <1>3, WorkNumbers
  DEF WorkInv, LoopWork, PollWork, Turning, LoopMax, PollMax

\* A cycle, whoever asked for it, is one of those that remained.
LEMMA TheftWork ==
    ASSUME IInv, WorkInv, OwnCycle
    PROVE  StealWork' = StealWork /\ stall = 0
<1>1. /\ stall = 0 /\ steals \in 0 .. MaxSteals
      /\ \/ stall' = stall /\ steals' = steals
         \/ steals < MaxSteals /\ steals' = steals + 1 /\ stall' = StealCycles
  BY DEF OwnCycle, thefts, IInv, TypeOK
<1>2. CASE stall' = stall /\ steals' = steals
  BY <1>1, <1>2 DEF StealWork
<1>3. CASE steals < MaxSteals /\ steals' = steals + 1 /\ stall' = StealCycles
  <2>1. /\ (MaxSteals - steals') * StealCycles + StealCycles
             = (MaxSteals - steals) * StealCycles
        /\ (MaxSteals - steals') * StealCycles \in Int /\ StealCycles \in Nat
    BY <1>1, <1>3, WorkNumbers, LoopAssumption
  <2>2. QED
    BY <1>1, <1>3, <2>1 DEF StealWork
<1>4. QED
  BY <1>1, <1>2, <1>3

LEMMA StolenWork ==
    ASSUME IInv, WorkInv, StolenCycle
    PROVE  StealWork' = StealWork - 1
<1>1. /\ stall \in Nat \ {0} /\ steals \in 0 .. MaxSteals
      /\ \/ stall' = stall - 1 /\ steals' = steals
         \/ steals < MaxSteals /\ steals' = steals + 1 /\ stall' = stall - 1 + StealCycles
  BY StolenSteals, Zenon DEF IInv
<1>2. CASE stall' = stall - 1 /\ steals' = steals
  <2>1. (MaxSteals - steals) * StealCycles \in Int
    BY <1>1, LoopAssumption
  <2>2. QED
    BY <1>1, <1>2, <2>1 DEF StealWork
<1>3. CASE steals < MaxSteals /\ steals' = steals + 1 /\ stall' = stall - 1 + StealCycles
  <2>1. /\ (MaxSteals - steals') * StealCycles + StealCycles
             = (MaxSteals - steals) * StealCycles
        /\ (MaxSteals - steals') * StealCycles \in Int /\ StealCycles \in Nat
    BY <1>1, <1>3, WorkNumbers, LoopAssumption
  <2>2. QED
    BY <1>1, <1>3, <2>1 DEF StealWork
<1>4. QED
  BY <1>1, <1>2, <1>3

LEMMA CycleWork ==
    ASSUME IInv, WorkInv,
           BeginAccess \/ IdleCycle \/ EntryCycle \/ DmaCycle \/ StolenCycle
    PROVE  Cycle /\ WorkInv' /\ LoopWork' < LoopWork /\ PollWork' < PollWork
<1>1. /\ left \in Nat /\ spare \in Nat /\ stall \in Nat /\ steals \in 0 .. MaxSteals
      /\ due \in BOOLEAN
      /\ due => at = "execute" /\ left > 0
  BY WorkNumbers DEF IInv, TypeOK, DueInv
<1>2. StealWork \in Nat /\ StealWork <= AllSteals
  BY <1>1, WorkNumbers DEF StealWork, WorkInv
<1>3. CASE BeginAccess
  <2>1. /\ OwnCycle /\ at = "execute" /\ ~due /\ left > 0
        /\ due' = TRUE /\ spare' = Less(spare)
        /\ at' = at /\ left' = left
    BY <1>3 DEF BeginAccess
  <2>2. StealWork' = StealWork
    BY <2>1, TheftWork
  <2>3. spare' \in Nat /\ spare' <= spare
    BY <1>1, <2>1 DEF Less
  <2>4. TurnWork = left + spare /\ TurnWork' = left - 1 + spare'
    BY <1>1, <2>1 DEF TurnWork
  <2>5. TurnWork' < TurnWork
    BY <1>1, <2>1, <2>3, <2>4
  <2>6. QED
    BY <1>1, <1>2, <2>1, <2>2, <2>3, <2>4, <2>5, WorkNumbers
    DEF WorkInv, Turning, LoopWork, PollWork, OwnCycle
<1>4. CASE IdleCycle
  <2>1. /\ OwnCycle /\ at = "idle" /\ spare > 0 /\ spare' = spare - 1 /\ at' = at
    BY <1>4 DEF IdleCycle
  <2>2. StealWork' = StealWork
    BY <2>1, TheftWork
  <2>3. TurnWork = spare /\ TurnWork' = spare - 1
    BY <2>1 DEF TurnWork
  <2>4. QED
    BY <1>1, <1>2, <2>1, <2>2, <2>3, WorkNumbers
    DEF WorkInv, Turning, LoopWork, PollWork, OwnCycle
<1>5. CASE EntryCycle
  <2>1. /\ OwnCycle /\ at \in {"nmi", "irq"} /\ left > 0 /\ left' = left - 1 /\ at' = at
    BY <1>5 DEF EntryCycle
  <2>2. StealWork' = StealWork
    BY <2>1, TheftWork
  <2>3. QED
    BY <1>1, <1>2, <2>1, <2>2, WorkNumbers
    DEF WorkInv, Turning, LoopWork, PollWork, OwnCycle
<1>6. CASE DmaCycle
  <2>1. /\ OwnCycle /\ at \in {"align", "dma"} /\ left > 0 /\ left' = left - 1 /\ at' = at
    BY <1>6 DEF DmaCycle
  <2>2. StealWork' = StealWork
    BY <2>1, TheftWork
  <2>3. TurnWork \in Int /\ TurnWork' = TurnWork - 1
    BY <1>1, <2>1, WorkNumbers DEF TurnWork
  <2>4. QED
    BY <1>1, <1>2, <2>1, <2>2, <2>3, WorkNumbers
    DEF WorkInv, Turning, LoopWork, PollWork, OwnCycle
<1>7. CASE StolenCycle
  <2>1. /\ Cycle /\ stall > 0
        /\ spare' = (IF at = "execute" THEN Less(spare) ELSE spare)
        /\ at' = at /\ left' = left /\ due' = due
    BY <1>7 DEF StolenCycle
  <2>2. StealWork' = StealWork - 1
    BY <1>7, StolenWork
  <2>3. spare' \in Nat /\ spare' <= spare
    BY <1>1, <2>1 DEF Less
  <2>4. TurnWork \in Int /\ TurnWork' \in Int /\ TurnWork' <= TurnWork
    BY <1>1, <2>1, <2>3, WorkNumbers DEF TurnWork
  <2>5. at \notin {"loop", "poll_irq"}
    BY <2>1 DEF WorkInv
  <2>6. at \in {"execute", "idle", "align", "dma", "nmi", "irq"}
    BY <2>5 DEF IInv, TypeOK
  <2>7. QED
    BY <1>1, <1>2, <2>1, <2>2, <2>4, <2>6, WorkNumbers
    DEF WorkInv, Turning, LoopWork, PollWork
<1>8. QED
  BY <1>3, <1>4, <1>5, <1>6, <1>7

\* The steps between the cycles do not add to it ...
LEMMA MoveWork ==
    ASSUME IInv, WorkInv,
           \/ Registers \/ EndExecute \/ EndNmi \/ TakeIrq \/ NoIrq \/ EndIrq \/ EndAlign
           \/ FrameDone \/ UNCHANGED vars
    PROVE  WorkInv' /\ LoopWork' <= LoopWork /\ PollWork' <= PollWork
<1>1. /\ left \in Nat /\ spare \in Nat /\ stall \in Nat /\ steals \in 0 .. MaxSteals
      /\ due \in BOOLEAN
      /\ due => at = "execute" /\ left > 0
  BY WorkNumbers DEF IInv, TypeOK, DueInv
<1>2. StealWork \in Nat /\ StealWork <= AllSteals
  BY <1>1, WorkNumbers DEF StealWork, WorkInv
<1>3. CASE Registers
  <2>1. Access
    BY <1>3 DEF Registers, OtherAccess, AccessStatus, AccessOamDma, AccessCtrl, AccessMask
  <2>2. /\ at = "execute" /\ due /\ ~due' /\ left' = left - 1
        /\ at' = at /\ spare' = spare /\ stall' = stall /\ steals' = steals
    BY <2>1 DEF Access, thefts
  <2>3. TurnWork \in Int /\ TurnWork' = TurnWork
    BY <1>1, <2>2 DEF TurnWork
  <2>4. StealWork' = StealWork
    BY <2>2 DEF StealWork
  <2>5. QED
    BY <1>2, <2>2, <2>3, <2>4, WorkNumbers DEF WorkInv, Turning, LoopWork, PollWork
<1>4. CASE EndExecute
  <2>1. /\ at = "execute" /\ left = 0 /\ at' = "idle"
        /\ spare' = spare /\ stall' = stall /\ steals' = steals
    BY <1>4 DEF EndExecute, thefts
  <2>2. TurnWork = spare /\ TurnWork' = spare
    BY <1>1, <2>1 DEF TurnWork
  <2>3. StealWork' = StealWork
    BY <2>1 DEF StealWork
  <2>4. QED
    BY <1>1, <1>2, <2>1, <2>2, <2>3, WorkNumbers DEF WorkInv, Turning, LoopWork, PollWork
<1>5. CASE EndNmi
  <2>1. /\ at = "nmi" /\ left = 0 /\ stall = 0 /\ at' = "poll_irq"
        /\ stall' = stall /\ steals' = steals
    BY <1>5 DEF EndNmi, thefts
  <2>2. StealWork' = StealWork
    BY <2>1 DEF StealWork
  <2>3. QED
    BY <1>1, <1>2, <2>1, <2>2, WorkNumbers DEF WorkInv, Turning, LoopWork, PollWork
<1>6. CASE TakeIrq
  <2>1. /\ at = "poll_irq" /\ at' = "irq" /\ left' = EntryCycles
        /\ stall' = stall /\ steals' = steals
    BY <1>6 DEF TakeIrq, thefts
  <2>2. StealWork' = StealWork
    BY <2>1 DEF StealWork
  <2>3. QED
    BY <1>1, <1>2, <2>1, <2>2, WorkNumbers DEF WorkInv, Turning, LoopWork, PollWork
<1>7. CASE NoIrq \/ EndIrq
  <2>1. /\ at \in {"poll_irq", "irq"} /\ stall = 0
        /\ at' = "loop" /\ stall' = stall /\ steals' = 0
    BY <1>7 DEF NoIrq, EndIrq, WorkInv
  <2>2. StealWork' \in Nat /\ StealWork' <= AllSteals
    BY <1>1, <2>1, WorkNumbers, LoopAssumption DEF StealWork
  <2>3. QED
    BY <1>1, <1>2, <2>1, <2>2, WorkNumbers DEF WorkInv, Turning, LoopWork, PollWork
<1>8. CASE EndAlign
  <2>1. /\ at = "align" /\ left = 0 /\ at' = "dma"
        /\ left' \in {2 * OamBytes, 2 * OamBytes + 1}
        /\ stall' = stall /\ steals' = steals
    BY <1>8, WorkNumbers DEF EndAlign, thefts
  <2>2. /\ TurnWork \in Int /\ TurnWork' \in Int /\ TurnWork' <= TurnWork
        /\ TurnWork' <= Turn
    BY <1>1, <2>1, WorkNumbers DEF TurnWork
  <2>3. StealWork' = StealWork
    BY <2>1 DEF StealWork
  <2>4. QED
    BY <1>2, <2>1, <2>2, <2>3, WorkNumbers DEF WorkInv, Turning, LoopWork, PollWork
<1>9. CASE FrameDone \/ UNCHANGED vars
  <2>1. /\ at' = at /\ left' = left /\ spare' = spare /\ due' = due
        /\ stall' = stall /\ steals' = steals
    BY <1>9 DEF FrameDone, vars, cpu, thefts
  <2>2. StealWork' = StealWork /\ TurnWork' = TurnWork /\ Turning' = Turning
    BY <2>1, Zenon DEF StealWork, TurnWork, Turning
  <2>3. LoopWork' = LoopWork /\ PollWork' = PollWork /\ WorkInv'
    BY <2>1, <2>2, Zenon DEF LoopWork, PollWork, WorkInv
  <2>4. QED
    BY <2>3, WorkTypes
<1>10. QED
  BY <1>3, <1>4, <1>5, <1>6, <1>7, <1>8, <1>9

\* ... but for the poll, after which a poll is a turn away again, ...
LEMMA PolledWork ==
    ASSUME IInv, WorkInv, EndInstruction \/ EndDma
    PROVE  PollNmi /\ WorkInv' /\ LoopWork' <= LoopWork
<1>1. /\ PollNmi /\ stall = 0
      /\ \/ at = "idle" /\ spare = 0
         \/ at = "dma" /\ left = 0
  BY DEF EndInstruction, EndDma
<1>2. /\ \/ at' = "nmi" /\ left' = EntryCycles
         \/ at' = "poll_irq" /\ left' = 0
      /\ stall' = stall /\ steals' = steals
  BY <1>1 DEF PollNmi, thefts
<1>3. StealWork' = StealWork
  BY <1>2 DEF StealWork
<1>4. StealWork \in Nat /\ StealWork <= AllSteals
  BY WorkTypes DEF WorkInv
<1>5. TurnWork = 0
  BY <1>1 DEF TurnWork
<1>6. QED
  BY <1>1, <1>2, <1>3, <1>4, <1>5, WorkNumbers DEF WorkInv, Turning, LoopWork

\* ... and the start of a turn, which does not happen in a completed frame.
LEMMA BegunWork ==
    ASSUME IInv, WorkInv, BeginInstruction \/ BeginDma
    PROVE  ~ppu.frame_complete /\ ppu' = ppu /\ WorkInv' /\ PollWork' <= PollWork
<1>1. /\ at = "loop" /\ ~ppu.frame_complete /\ ppu' = ppu /\ ~due
      /\ stall = 0 /\ steals = 0 /\ stall' = stall /\ steals' = steals /\ due' = due
  BY DEF BeginInstruction, BeginDma, thefts, WorkInv, IInv, DueInv
<1>2. StealWork' = StealWork
  BY <1>1 DEF StealWork
<1>3. StealWork \in Nat /\ StealWork <= AllSteals
  BY WorkTypes DEF WorkInv
<1>4. Turning' /\ TurnWork' \in Int /\ TurnWork' <= Turn /\ at' \in {"execute", "align"}
  <2>1. CASE BeginInstruction
    <3>1. /\ at' = "execute" /\ left' \in 1 .. MaxAccesses /\ spare' \in left' .. MaxCycles
      BY <2>1 DEF BeginInstruction
    <3>2. /\ ~due' /\ left' \in Int /\ spare' \in Int
          /\ left' <= MaxAccesses /\ spare' <= MaxCycles
      BY <1>1, <3>1, LoopAssumption
    <3>3. TurnWork' = left' - 0 + spare'
      BY <3>1, <3>2, Zenon DEF TurnWork
    <3>4. TurnWork' \in Int /\ TurnWork' <= MaxAccesses + MaxCycles
      <4>1. ASSUME NEW t, NEW l \in Int, NEW s \in Int, NEW m \in Int, NEW n \in Int,
                   t = l - 0 + s, l <= m, s <= n
            PROVE  t \in Int /\ t <= m + n
        BY <4>1
      <4>2. MaxAccesses \in Int /\ MaxCycles \in Int
        BY LoopAssumption
      <4>3. QED
        BY <3>2, <3>3, <4>1, <4>2, Zenon
    <3>5. TurnWork' <= Turn
      BY <3>4, WorkNumbers
    <3>6. QED
      BY <3>1, <3>4, <3>5 DEF Turning
  <2>2. CASE BeginDma
    <3>1. at' = "align" /\ left' = 1
      BY <2>2 DEF BeginDma
    <3>2. QED
      BY <3>1, WorkNumbers DEF Turning, TurnWork
  <2>3. QED
    BY <2>1, <2>2
<1>5. QED
  BY <1>1, <1>2, <1>3, <1>4, WorkNumbers DEF WorkInv, Turning, LoopWork, PollWork

-----------------------------------------------------------------------------
(* Frames and vertical blanks.                                              *)

\* What PaceAssumption says of the longest way to the poll.
Pace == 3 * PollMax + 2 <= (LastLine + 1 - VblankLine) * Width

LEMMA PaceFacts ==
    /\ LoopMax \in Nat /\ PollMax \in Nat
    /\ BlankDot + 3 * PollMax <= EndDot + 1
    /\ 3 * LoopMax + 10 <= EndDot
<1>1. LoopMax \in Nat /\ PollMax \in Nat /\ LoopMax <= PollMax
  BY WorkNumbers DEF LoopMax, PollMax
<1>2. Pace
  <2>1. Turn \in {MaxAccesses + MaxCycles, 2 * OamBytes + 2}
    BY DEF Turn
  <2>2. 3 * (Turn + 2 * EntryCycles + 2 * (MaxSteals * StealCycles)) + 2
            <= (LastLine + 1 - VblankLine) * (LastCycle + 1)
    BY <2>1, PaceAssumption, Zenon
  <2>3. QED
    BY <2>2, Zenon DEF Pace, PollMax, AllSteals, Width
<1>3. EndDot = BlankDot + (LastLine + 1 - VblankLine) * Width - 3
  <2>1. (LastLine + 2) * Width
            = (VblankLine + 1) * Width + (LastLine + 1 - VblankLine) * Width
    BY BeamNumbers
  <2>2. (VblankLine + 1) * Width \in Int /\ (LastLine + 1 - VblankLine) * Width \in Int
    BY BeamNumbers
  <2>3. QED
    BY <2>1, <2>2 DEF EndDot, BlankDot
<1>4. (LastLine + 1 - VblankLine) * Width \in Int
  BY BeamNumbers
<1>5. BlankDot + 3 * PollMax <= EndDot + 1
  BY <1>1, <1>2, <1>3, <1>4, BeamNumbers DEF Pace
<1>6. QED
  BY <1>1, <1>5, BeamNumbers

\* What the steps between the cycles keep of the picture unit.
LEMMA MoveView ==
    ASSUME IInv,
           \/ Registers \/ EndExecute \/ EndNmi \/ TakeIrq \/ NoIrq \/ EndIrq \/ EndAlign
           \/ UNCHANGED vars
    PROVE  /\ ppu'.scanline = ppu.scanline /\ ppu'.cycle = ppu.cycle
           /\ ppu'.frame_complete = ppu.frame_complete
           /\ completed' = completed /\ handled' = handled
           /\ steady' => steady /\ ppu'.nmi_triggered = ppu.nmi_triggered
<1>1. ppu \in PpuType
  BY DEF IInv, TypeOK
<1>2. Access => completed' = completed /\ handled' = handled
  BY DEF Access
<1>3. CASE OtherAccess \/ AccessOamDma
  BY <1>2, <1>3 DEF OtherAccess, AccessOamDma
<1>4. CASE AccessStatus
  <2>1. ppu' = ReadStatus(ppu) /\ steady' = steady /\ Access
    BY <1>4 DEF AccessStatus
  <2>2. QED
    BY <1>1, <1>2, <2>1, Zenon DEF ReadStatus, PpuType
<1>5. CASE \E b \in BOOLEAN : AccessCtrl(b) \/ AccessMask(b)
  <2>1. PICK b \in BOOLEAN : AccessCtrl(b) \/ AccessMask(b)
    BY <1>5
  <2>2. CASE AccessCtrl(b)
    <3>1. ppu' = WriteCtrl(ppu, b) /\ ~steady' /\ Access
      BY <2>2, Zenon DEF AccessCtrl
    <3>2. QED
      BY <1>1, <1>2, <3>1, Zenon DEF WriteCtrl, PpuType
  <2>3. CASE AccessMask(b)
    <3>1. ppu' = WriteMask(ppu, b) /\ steady' = steady /\ Access
      BY <2>3, Zenon DEF AccessMask
    <3>2. QED
      BY <1>1, <1>2, <3>1, Zenon DEF WriteMask, PpuType
  <2>4. QED
    BY <2>1, <2>2, <2>3, Zenon
<1>6. CASE EndExecute \/ EndNmi \/ TakeIrq \/ NoIrq \/ EndIrq \/ EndAlign
  <2>1. /\ ppu' = ppu /\ steady' = steady
        /\ completed' = completed /\ handled' = handled
    BY <1>6 DEF EndExecute, EndNmi, TakeIrq, NoIrq, EndIrq, EndAlign, history
  <2>2. QED
    BY <2>1, Zenon
<1>7. CASE UNCHANGED vars
  BY <1>7, Zenon DEF vars, history
<1>8. QED
  BY <1>3, <1>4, <1>5, <1>6, <1>7, Zenon DEF Registers

LEMMA WorkNext ==
    IInv' /\ WorkInv' => (LoopWork \in Nat /\ PollWork \in Nat /\ TypeOK)'
<1>1. IInv /\ WorkInv => LoopWork \in Nat /\ PollWork \in Nat /\ TypeOK
  BY WorkTypes DEF IInv
<1>2. QED
  BY <1>1, PTL

\* A cycle that is counted in the work: the beam and the work before and after.
LEMMA CycleFacts ==
    ASSUME IInv, WorkInv,
           BeginAccess \/ IdleCycle \/ EntryCycle \/ DmaCycle \/ StolenCycle
    PROVE  /\ ppu \in PpuType /\ ppu' = BusTick[ppu] /\ ppu' \in PpuType /\ Cycle
           /\ Dot(ppu) \in Nat /\ Dot(ppu') \in Nat
           /\ LoopWork \in Nat /\ LoopWork' \in Nat
           /\ LoopWork' < LoopWork /\ LoopWork <= LoopMax
           /\ PollWork \in Nat /\ PollWork' \in Nat
           /\ PollWork' < PollWork /\ PollWork <= PollMax
<1>1. Cycle /\ WorkInv' /\ LoopWork' < LoopWork /\ PollWork' < PollWork
  BY CycleWork, Zenon
<1>2. IInv'
  BY BusCyclesInv, Zenon
<1>3. ppu' = BusTick[ppu] /\ ppu \in PpuType /\ ppu' \in PpuType
  BY <1>1, <1>2, Zenon DEF Cycle, IInv, TypeOK
<1>4. Dot(ppu) \in Nat /\ Dot(ppu') \in Nat
  BY <1>3, DotNat, Zenon
<1>5. QED
  BY <1>1, <1>2, <1>3, <1>4, WorkTypes, WorkNext, Zenon

\* A completed frame is seen before the beam can have crossed another one.
LEMMA FrameStep == IInv /\ WorkInv /\ FrameInv /\ [Next]_vars => FrameInv'
<1> SUFFICES ASSUME IInv, WorkInv, FrameInv, [Next]_vars PROVE FrameInv'
  OBVIOUS
<1>1. ppu \in PpuType /\ Dot(ppu) \in Nat /\ LoopWork \in Nat /\ LoopWork <= LoopMax
  BY DotNat, WorkTypes, Zenon DEF IInv, TypeOK
<1>2. /\ ppu.frame_complete \in BOOLEAN
      /\ completed = (IF ppu.frame_complete THEN 1 ELSE 0)
      /\ ppu.frame_complete => Dot(ppu) + 3 * LoopWork <= 3 * LoopMax
  BY <1>1, Zenon DEF FrameInv, NoFrameLost, PpuType
<1>3. ASSUME ppu'.frame_complete = ppu.frame_complete,
             completed' = completed,
             ppu.frame_complete => Dot(ppu') + 3 * LoopWork' <= 3 * LoopMax
      PROVE  FrameInv'
  BY <1>2, <1>3, Zenon DEF FrameInv, NoFrameLost
<1>4. CASE BeginAccess \/ IdleCycle \/ EntryCycle \/ DmaCycle \/ StolenCycle
  <2>1. /\ ppu' = BusTick[ppu] /\ ppu' \in PpuType /\ Cycle
        /\ Dot(ppu') \in Nat /\ LoopWork' \in Nat /\ LoopWork' < LoopWork
    BY <1>4, CycleFacts, Zenon
  <2>2. completed' = IF ppu'.frame_complete /\ ppu'.odd_frame # ppu.odd_frame
                       THEN completed + 1 ELSE completed
    BY <2>1, Zenon DEF Cycle
  <2>3. CASE MovesOn(ppu, ppu', 3)
    <3>1. /\ ppu'.frame_complete = ppu.frame_complete /\ completed' = completed
          /\ Dot(ppu') <= Dot(ppu) + 3
      BY <2>2, <2>3, Zenon DEF MovesOn
    <3>2. ppu.frame_complete => Dot(ppu') + 3 * LoopWork' <= 3 * LoopMax
      <4>1. Dot(ppu') + 3 * LoopWork' <= Dot(ppu) + 3 * LoopWork
        BY <1>1, <2>1, <3>1
      <4>2. QED
        BY <1>1, <1>2, <2>1, <4>1, PaceFacts
    <3>3. QED
      BY <1>3, <3>1, <3>2, Zenon
  <2>4. CASE Wraps(ppu, ppu', 3)
    <3>1. /\ ppu'.frame_complete = TRUE /\ completed' = completed + 1
          /\ Dot(ppu) > EndDot - 3 /\ Dot(ppu') < 3
      BY <2>2, <2>4, Zenon DEF Wraps
    <3>2. ~ppu.frame_complete
      BY <1>1, <1>2, <2>1, <3>1, PaceFacts, BeamNumbers
    <3>3. completed' = 1
      BY <1>2, <3>1, <3>2
    <3>4. Dot(ppu') + 3 * LoopWork' <= 3 * LoopMax
      BY <1>1, <2>1, <3>1, PaceFacts
    <3>5. QED
      BY <3>1, <3>3, <3>4, Zenon DEF FrameInv, NoFrameLost
  <2>5. QED
    BY <1>1, <2>1, <2>3, <2>4, BusTickFacts, Zenon
<1>5. CASE \/ Registers \/ EndExecute \/ EndNmi \/ TakeIrq \/ NoIrq \/ EndIrq \/ EndAlign
           \/ UNCHANGED vars
  <2>1. /\ ppu'.scanline = ppu.scanline /\ ppu'.cycle = ppu.cycle
        /\ ppu'.frame_complete = ppu.frame_complete /\ completed' = completed
    BY <1>5, MoveView, Zenon
  <2>2. LoopWork' <= LoopWork /\ WorkInv' /\ IInv'
    BY <1>5, MoveWork, StepInv, Zenon
  <2>3. Dot(ppu') = Dot(ppu)
    BY <2>1, Zenon DEF Dot
  <2>4. LoopWork' \in Nat
    BY <2>2, WorkNext, Zenon
  <2>5. ppu.frame_complete => Dot(ppu') + 3 * LoopWork' <= 3 * LoopMax
    BY <1>1, <1>2, <2>2, <2>3, <2>4, PaceFacts
  <2>6. QED
    BY <1>3, <2>1, <2>5, Zenon
<1>6. CASE EndInstruction \/ EndDma
  <2>1. PollNmi /\ WorkInv' /\ LoopWork' <= LoopWork /\ IInv'
    BY <1>6, PolledWork, StepInv, Zenon
  <2>2. /\ ppu'.scanline = ppu.scanline /\ ppu'.cycle = ppu.cycle
        /\ ppu'.frame_complete = ppu.frame_complete /\ completed' = completed
    BY <1>1, <2>1, Zenon DEF PollNmi, PpuType
  <2>3. Dot(ppu') = Dot(ppu)
    BY <2>2, Zenon DEF Dot
  <2>4. LoopWork' \in Nat
    BY <2>1, WorkNext, Zenon
  <2>5. ppu.frame_complete => Dot(ppu') + 3 * LoopWork' <= 3 * LoopMax
    BY <1>1, <1>2, <2>1, <2>3, <2>4, PaceFacts
  <2>6. QED
    BY <1>3, <2>2, <2>5, Zenon
<1>7. CASE BeginInstruction \/ BeginDma
  <2>1. ~ppu.frame_complete /\ ppu' = ppu
    BY <1>7, BegunWork, Zenon
  <2>2. completed' = completed
    BY <1>7, Zenon DEF BeginInstruction, BeginDma, history
  <2>3. QED
    BY <1>3, <2>1, <2>2, Zenon
<1>8. CASE FrameDone
  <2>1. ~ppu'.frame_complete /\ completed' = 0
    BY <1>1, <1>8, Zenon DEF FrameDone, PpuType
  <2>2. QED
    BY <2>1, Zenon DEF FrameInv, NoFrameLost
<1>9. QED
  BY <1>4, <1>5, <1>6, <1>7, <1>8, Zenon DEF Next

\* An NMI is owed from the start of vertical blank to the next poll, which comes
\* before vertical blank is over.
LEMMA BlankStep == IInv /\ WorkInv /\ BlankInv /\ [Next]_vars => BlankInv'
<1> SUFFICES ASSUME IInv, WorkInv, BlankInv, [Next]_vars, steady'
             PROVE  IF ppu'.nmi_triggered
                      THEN /\ handled' = 0
                           /\ ~BeforeVblank(ppu')
                           /\ Dot(ppu') + 3 * PollWork' < BlankDot + 3 * PollMax
                      ELSE handled' = 1
  BY Zenon DEF BlankInv
<1>1. ppu \in PpuType /\ Dot(ppu) \in Nat /\ PollWork \in Nat
  BY DotNat, WorkTypes, Zenon DEF IInv, TypeOK
<1>2. steady => /\ ~ppu.nmi_triggered => handled = 1
                /\ ppu.nmi_triggered =>
                      /\ handled = 0 /\ ~BeforeVblank(ppu)
                      /\ Dot(ppu) + 3 * PollWork < BlankDot + 3 * PollMax
  BY Zenon DEF BlankInv
\* The NMI that was owed is still owed, and no further from the poll.
<1>3. ASSUME steady, ppu'.nmi_triggered = ppu.nmi_triggered, handled' = handled,
             ppu.nmi_triggered =>
                /\ ~BeforeVblank(ppu')
                /\ Dot(ppu') + 3 * PollWork' < BlankDot + 3 * PollMax
      PROVE  IF ppu'.nmi_triggered
               THEN /\ handled' = 0
                    /\ ~BeforeVblank(ppu')
                    /\ Dot(ppu') + 3 * PollWork' < BlankDot + 3 * PollMax
               ELSE handled' = 1
  BY <1>2, <1>3, Zenon
<1>4. ASSUME steady, ppu'.nmi_triggered = ppu.nmi_triggered, handled' = handled,
             ppu'.scanline = ppu.scanline, ppu'.cycle = ppu.cycle,
             PollWork' <= PollWork, PollWork' \in Nat
      PROVE  IF ppu'.nmi_triggered
               THEN /\ handled' = 0
                    /\ ~BeforeVblank(ppu')
                    /\ Dot(ppu') + 3 * PollWork' < BlankDot + 3 * PollMax
               ELSE handled' = 1
  <2>1. Dot(ppu') = Dot(ppu) /\ BeforeVblank(ppu') = BeforeVblank(ppu)
    BY <1>4, Zenon DEF Dot, BeforeVblank
  <2>2. ppu.nmi_triggered => Dot(ppu') + 3 * PollWork' < BlankDot + 3 * PollMax
    BY <1>1, <1>2, <1>4, <2>1, PaceFacts, BeamNumbers
  <2>3. QED
    BY <1>2, <1>3, <1>4, <2>1, <2>2, Zenon
<1>5. CASE BeginAccess \/ IdleCycle \/ EntryCycle \/ DmaCycle \/ StolenCycle
  <2>1. /\ ppu' = BusTick[ppu] /\ ppu' \in PpuType /\ Cycle
        /\ Dot(ppu') \in Nat /\ PollWork' \in Nat
        /\ PollWork' < PollWork /\ PollWork <= PollMax
    BY <1>5, CycleFacts, Zenon
  <2>2. /\ handled' = IF StartsVblank THEN 0 ELSE handled
        /\ steady' = IF StartsVblank THEN ppu.nmi_enabled ELSE steady
    BY <2>1, Zenon DEF Cycle
  <2>3. CASE StartsVblank
    <3>1. /\ handled' = 0 /\ ppu.nmi_enabled /\ ~BeforeVblank(ppu')
      BY <2>2, <2>3, Zenon DEF StartsVblank
    <3>2. Starts(ppu, ppu')
      BY <2>3, Zenon DEF Starts, StartsVblank
    <3>3. ppu'.nmi_triggered /\ Dot(ppu') < BlankDot + 3
      BY <1>1, <2>1, <3>1, <3>2, BusTickFacts, Zenon
    <3>4. Dot(ppu') + 3 * PollWork' < BlankDot + 3 * PollMax
      BY <1>1, <2>1, <3>3, PaceFacts, BeamNumbers
    <3>5. QED
      BY <3>1, <3>3, <3>4, Zenon
  <2>4. CASE ~StartsVblank
    <3>1. handled' = handled /\ steady
      BY <2>2, <2>4, Zenon
    <3>2. ~Starts(ppu, ppu')
      BY <2>4, Zenon DEF Starts, StartsVblank
    <3>3. /\ ppu'.nmi_triggered = ppu.nmi_triggered
          /\ MovesOn(ppu, ppu', 3) \/ Wraps(ppu, ppu', 3)
          /\ ~BeforeVblank(ppu) /\ BeforeVblank(ppu') => Wraps(ppu, ppu', 3)
      BY <1>1, <2>1, <3>2, BusTickFacts, Zenon
    <3>4. ASSUME ppu.nmi_triggered
          PROVE  /\ ~BeforeVblank(ppu')
                 /\ Dot(ppu') + 3 * PollWork' < BlankDot + 3 * PollMax
      <4>1. ~BeforeVblank(ppu) /\ Dot(ppu) + 3 * PollWork < BlankDot + 3 * PollMax
        BY <1>2, <3>1, <3>4, Zenon
      <4>2. ~Wraps(ppu, ppu', 3)
        <5>1. Dot(ppu) <= EndDot - 3
          BY <1>1, <2>1, <4>1, PaceFacts, BeamNumbers
        <5>2. QED
          BY <1>1, <5>1, BeamNumbers DEF Wraps
      <4>3. Dot(ppu') <= Dot(ppu) + 3
        BY <3>3, <4>2, Zenon DEF MovesOn
      <4>4. Dot(ppu') + 3 * PollWork' < BlankDot + 3 * PollMax
        BY <1>1, <2>1, <4>1, <4>3, PaceFacts, BeamNumbers
      <4>5. QED
        BY <3>3, <4>1, <4>2, <4>4, Zenon
    <3>5. QED
      BY <1>3, <3>1, <3>3, <3>4, Zenon
  <2>5. QED
    BY <2>3, <2>4
<1>6. CASE \/ Registers \/ EndExecute \/ EndNmi \/ TakeIrq \/ NoIrq \/ EndIrq \/ EndAlign
           \/ UNCHANGED vars
  <2>1. /\ ppu'.scanline = ppu.scanline /\ ppu'.cycle = ppu.cycle
        /\ handled' = handled /\ steady /\ ppu'.nmi_triggered = ppu.nmi_triggered
    BY <1>6, MoveView, Zenon
  <2>2. PollWork' <= PollWork /\ WorkInv' /\ IInv'
    BY <1>6, MoveWork, StepInv, Zenon
  <2>3. QED
    BY <1>4, <2>1, <2>2, WorkNext, Zenon
<1>7. CASE EndInstruction \/ EndDma
  <2>1. PollNmi /\ steady
    BY <1>7, PolledWork, Zenon DEF PollNmi
  <2>2. CASE ppu.nmi_triggered
    <3>1. ~ppu'.nmi_triggered /\ handled' = handled + 1
      BY <1>1, <2>1, <2>2, Zenon DEF PollNmi, PpuType
    <3>2. handled = 0
      BY <1>2, <2>1, <2>2, Zenon
    <3>3. handled' = 1
      BY <3>1, <3>2
    <3>4. QED
      BY <3>1, <3>3, Zenon
  <2>3. CASE ~ppu.nmi_triggered
    <3>1. ppu' = ppu /\ handled' = handled
      BY <2>1, <2>3, Zenon DEF PollNmi
    <3>2. QED
      BY <1>2, <2>1, <2>3, <3>1, Zenon
  <2>4. QED
    BY <2>2, <2>3
<1>8. CASE BeginInstruction \/ BeginDma
  <2>1. ppu' = ppu /\ WorkInv' /\ PollWork' <= PollWork /\ IInv'
    BY <1>8, BegunWork, StepInv, Zenon
  <2>2. handled' = handled /\ steady' = steady
    BY <1>8 DEF BeginInstruction, BeginDma, history
  <2>3. QED
    BY <1>4, <2>1, <2>2, WorkNext, Zenon
<1>9. CASE FrameDone
  <2>1. /\ ppu'.scanline = ppu.scanline /\ ppu'.cycle = ppu.cycle
        /\ ppu'.nmi_triggered = ppu.nmi_triggered
        /\ handled' = handled /\ steady
    BY <1>1, <1>9, Zenon DEF FrameDone, PpuType
  <2>2. PollWork' <= PollWork /\ WorkInv' /\ IInv'
    BY <1>9, MoveWork, StepInv, Zenon
  <2>3. QED
    BY <1>4, <2>1, <2>2, WorkNext, Zenon
<1>10. QED
  BY <1>5, <1>6, <1>7, <1>8, <1>9, Zenon DEF Next

LEMMA WorkStep == IInv /\ WorkInv /\ [Next]_vars => WorkInv'
<1> SUFFICES ASSUME IInv, WorkInv, [Next]_vars PROVE WorkInv'
  OBVIOUS
<1>1. CASE BeginAccess \/ IdleCycle \/ EntryCycle \/ DmaCycle \/ StolenCycle
  BY <1>1, CycleWork, Zenon
<1>2. CASE \/ Registers \/ EndExecute \/ EndNmi \/ TakeIrq \/ NoIrq \/ EndIrq \/ EndAlign
           \/ FrameDone \/ UNCHANGED vars
  BY <1>2, MoveWork, Zenon
<1>3. CASE EndInstruction \/ EndDma
  BY <1>3, PolledWork, Zenon
<1>4. CASE BeginInstruction \/ BeginDma
  BY <1>4, BegunWork, Zenon
<1>5. QED
  BY <1>1, <1>2, <1>3, <1>4, Zenon DEF Next

LEMMA InitClock == Init => WorkInv /\ FrameInv /\ BlankInv
<1> SUFFICES ASSUME Init PROVE WorkInv /\ FrameInv /\ BlankInv
  OBVIOUS
<1>1. WorkInv
  BY WorkNumbers, LoopAssumption DEF Init, WorkInv, StealWork, Turning
<1>2. ~ppu.frame_complete
  <2>1. NewPpu \in PpuType
    BY BeamAssumption DEF NewPpu, PpuType
  <2>2. Dot(NewPpu) = 0 /\ NewPpu.frame_complete = FALSE
    BY BeamNumbers DEF NewPpu, Dot
  <2> DEFINE p == BusTick[NewPpu]
  <2>3. p \in PpuType /\ (MovesOn(NewPpu, p, 3) \/ Wraps(NewPpu, p, 3))
    BY <2>1, BusTickFacts, Zenon
  <2>4. ppu = BusTick[p] /\ (MovesOn(p, ppu, 3) \/ Wraps(p, ppu, 3))
    BY <2>3, BusTickFacts, Zenon DEF Init
  <2> HIDE DEF p
  <2>5. Dot(p) \in Nat
    BY <2>3, DotNat
  <2>6. Dot(p) <= 3 /\ p.frame_complete = FALSE
    <3>1. ~Wraps(NewPpu, p, 3)
      BY <2>2, BeamNumbers DEF Wraps
    <3>2. QED
      BY <2>2, <2>3, <2>5, <3>1 DEF MovesOn
  <2>7. ~Wraps(p, ppu, 3)
    BY <2>5, <2>6, BeamNumbers DEF Wraps
  <2>8. QED
    BY <2>4, <2>6, <2>7, Zenon DEF MovesOn
<1>3. FrameInv
  BY <1>2, Zenon DEF Init, FrameInv, NoFrameLost
<1>4. BlankInv
  BY Zenon DEF Init, BlankInv
<1>5. QED
  BY <1>1, <1>3, <1>4

THEOREM ClockInvariance == Spec => [](IInv /\ WorkInv /\ FrameInv /\ BlankInv)
<1>1. Init => IInv /\ WorkInv /\ FrameInv /\ BlankInv
  BY InitInv, InitClock
<1>2. IInv /\ WorkInv /\ FrameInv /\ BlankInv /\ [Next]_vars
        => (IInv /\ WorkInv /\ FrameInv /\ BlankInv)'
  BY StepInv, WorkStep, FrameStep, BlankStep, Zenon
<1>3. QED
  BY <1>1, <1>2, PTL DEF Spec

\* step_frame returns once for every frame: the completed frame is noticed at
\* the top of the loop long before the beam can complete another.
THEOREM FramesReturned == Spec => []NoFrameLost
<1>1. FrameInv => NoFrameLost
  BY DEF FrameInv
<1>2. QED
  BY ClockInvariance, <1>1, PTL

\* The handler is entered within the vertical blank that called for it, however
\* long the instruction or the transfer that stood in its way.
THEOREM HandlersInVblank == Spec => HandlerInVblank
<1>1. IInv /\ WorkInv /\ BlankInv /\ [Next]_vars
        => [(steady /\ at' = "nmi" /\ at # "nmi") => ~BeforeVblank(ppu)]_vars
  <2> SUFFICES ASSUME IInv, BlankInv, Next, steady, at' = "nmi", at # "nmi"
               PROVE  ~BeforeVblank(ppu)
    BY Zenon
  <2>1. EndInstruction \/ EndDma
    BY DEF Next, BeginInstruction, BeginAccess, Registers, OtherAccess, AccessStatus,
           AccessOamDma, AccessCtrl, AccessMask, Access, EndExecute, IdleCycle,
           EntryCycle, EndNmi, TakeIrq, NoIrq, EndIrq, BeginDma, DmaCycle, EndAlign,
           StolenCycle, FrameDone, cpu
  <2>2. PollNmi
    BY <2>1 DEF EndInstruction, EndDma
  <2>3. ppu.nmi_triggered
    BY <2>2 DEF PollNmi
  <2>4. QED
    BY <2>3, Zenon DEF BlankInv
<1>2. QED
  BY ClockInvariance, <1>1, PTL DEF Spec, HandlerInVblank

\* Exactly one NMI handler is entered per frame, as long as the program leaves
\* the enable bit alone.
THEOREM HandlersPerFrame == Spec => OneHandlerPerFrame
<1>1. BlankInv => [(StartsVblank /\ steady) => handled = 1]_vars
  <2> SUFFICES ASSUME BlankInv, StartsVblank, steady PROVE handled = 1
    BY Zenon
  <2>1. BeforeVblank(ppu)
    BY Zenon DEF StartsVblank
  <2>2. QED
    BY <2>1, Zenon DEF BlankInv
<1>2. QED
  BY ClockInvariance, <1>1, PTL DEF Spec, OneHandlerPerFrame

=============================================================================
