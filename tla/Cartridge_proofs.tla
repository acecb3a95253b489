-------------------------- MODULE Cartridge_proofs --------------------------
(***************************************************************************)
(* Proofs about Cartridge, for counters and lines of every width and every *)
(* ROM size that a header can give: the interrupt counters implement       *)
(* IntervalTimer, Mmc5 interrupts once in each frame, the windows leave    *)
(* the ROM in the named cases alone, a register of Mmc1 takes five bits,   *)
(* and a loaded state shows what was saved.                                *)
(***************************************************************************)
EXTENDS Cartridge, Sequences, TLAPS

-----------------------------------------------------------------------------
(* Vrc6.                                                                    *)

\* The assumption in numbers.
LEMMA Vrc6Numbers ==
    ASSUME Vrc6!PrescalerAssumption
    PROVE  /\ MaxCount \in Nat
           /\ LinePeriod \in Nat /\ LinePeriod > 0
           /\ DotsPerCycle \in Nat \ {0} /\ LinePeriod > DotsPerCycle
           /\ DotsPerCycle * 0 + LinePeriod = LinePeriod * (0 + 1)
  BY DEF Vrc6!PrescalerAssumption

Vrc6Inv == Vrc6!TypeOK /\ Vrc6!NoDrift /\ Vrc6!DisabledMeansClear

(***************************************************************************)
(* One cycle of the prescaler, in numbers: dots go down by D, and around   *)
(* by L when the counter is clocked.                                       *)
(***************************************************************************)

LEMMA OneMultiple ==
    ASSUME NEW L \in Nat, NEW k \in Int, 1 <= L * k, L * k <= L
    PROVE  k = 1
<1>1. CASE k <= 0
  <2>1. L * k <= 0
    BY <1>1
  <2>2. QED
    BY <2>1
<1>2. CASE k >= 2
  <2>1. L * k >= L * 2
    BY <1>2
  <2>2. L = 0
    BY <2>1
  <2>3. L * k = 0
    BY <2>2
  <2>4. QED
    BY <2>3
<1>3. QED
  BY <1>1, <1>2

\* q and n: prescaler and clocks after the cycle, before the dot count goes
\* around.
LEMMA PrescalerStep ==
    ASSUME NEW L \in Nat, NEW D \in Nat \ {0}, L > D,
           NEW y \in 0 .. L - 1, NEW c \in 0 .. D, NEW p \in 1 .. L,
           D * y + p = L * (c + 1),
           NEW q \in Int, NEW n \in Int,
           q = IF p - D <= 0 THEN p - D + L ELSE p - D,
           n = IF p - D <= 0 THEN c + 1 ELSE c
    PROVE  /\ q \in 1 .. L
           /\ D * (y + 1) + q = L * (n + 1)
           /\ y + 1 = L => q = L
           /\ y + 1 # L => n \in 0 .. D
<1>1. q \in 1 .. L /\ n \in Nat
  OBVIOUS
<1>2. D * (y + 1) = D * y + D /\ L * (c + 1 + 1) = L * (c + 1) + L
  OBVIOUS
<1>3. D * (y + 1) + q = L * (n + 1)
  <2>1. CASE p - D <= 0
    <3>1. n = c + 1 /\ q = p - D + L
      BY <2>1
    <3>2. L * (n + 1) = L * (c + 1) + L
      BY <1>2, <3>1
    <3>3. QED
      BY <1>2, <3>1, <3>2
  <2>2. CASE ~(p - D <= 0)
    <3>1. n = c /\ q = p - D
      BY <2>2
    <3>2. QED
      BY <1>2, <3>1
  <2>3. QED
    BY <2>1, <2>2
<1>4. ASSUME y + 1 = L PROVE q = L
  <2> DEFINE k == n + 1 - D
  <2>1. L * k = L * (n + 1) - L * D
    BY <1>1
  <2>2. D * L + q = L * (n + 1)
    BY <1>3, <1>4
  <2>3. L * k = q
    BY <2>1, <2>2
  <2>4. k \in Int
    BY <1>1
  <2> HIDE DEF k
  <2>5. k = 1
    BY <1>1, <2>3, <2>4, OneMultiple
  <2>6. QED
    BY <2>3, <2>5
<1>5. ASSUME y + 1 # L PROVE n \in 0 .. D
  <2>1. D * (y + 1) <= D * (L - 1)
    BY <1>5
  <2>2. D * (L - 1) = L * D - D /\ L * (n + 1) = L * n + L
    BY <1>1
  <2>3. L * n < L * D
    BY <1>1, <1>3, <2>1, <2>2
  <2>4. n <= D
    <3>1. SUFFICES ASSUME n > D PROVE FALSE
      BY <1>1
    <3>2. L * n >= L * D
      BY <1>1, <3>1
    <3>3. QED
      BY <1>1, <2>3, <3>2
  <2>5. QED
    BY <1>1, <2>4
<1>6. QED
  BY <1>1, <1>3, <1>4, <1>5

(***************************************************************************)
(* The invariant.                                                          *)
(***************************************************************************)

LEMMA Vrc6ClockTypes ==
    ASSUME Vrc6!PrescalerAssumption, Vrc6!TypeOK, Vrc6!ClockIrqCounter
    PROVE  irq_counter' \in 0 .. MaxCount /\ irq_pending' \in BOOLEAN
<1>1. irq_counter' \in 0 .. MaxCount
  BY Vrc6Numbers DEF Vrc6!TypeOK, Vrc6!ClockIrqCounter
<1>2. irq_pending' \in BOOLEAN
  BY Zenon DEF Vrc6!ClockIrqCounter
<1>3. QED
  BY <1>1, <1>2

LEMMA Vrc6ScanlineKeeps ==
    ASSUME Vrc6!PrescalerAssumption, Vrc6Inv, Vrc6!TickScanlineMode
    PROVE  Vrc6Inv'
<1> DEFINE L    == LinePeriod
           D    == DotsPerCycle
           dots == irq_prescaler - D
           over == dots <= 0
           n    == IF over THEN clocks + 1 ELSE clocks
<1>1. /\ L \in Nat /\ D \in Nat \ {0} /\ L > D
      /\ cycles \in 0 .. L - 1 /\ clocks \in 0 .. D /\ irq_prescaler \in 1 .. L
      /\ D * cycles + irq_prescaler = L * (clocks + 1)
  BY Vrc6Numbers DEF Vrc6Inv, Vrc6!TypeOK, Vrc6!NoDrift
<1>2. /\ irq_prescaler' = IF over THEN dots + L ELSE dots
      /\ clocks' = IF cycles + 1 = L THEN 0 ELSE n
      /\ cycles' = IF cycles + 1 = L THEN 0 ELSE cycles + 1
  BY DEF Vrc6!TickScanlineMode, Vrc6!InStep
<1>3. irq_prescaler' \in Int /\ n \in Int
  BY <1>1, <1>2
<1>4. /\ irq_prescaler' \in 1 .. L
      /\ D * (cycles + 1) + irq_prescaler' = L * (n + 1)
      /\ cycles + 1 = L => irq_prescaler' = L
      /\ cycles + 1 # L => n \in 0 .. D
  <2> HIDE DEF L, D
  <2>1. /\ irq_prescaler' = IF irq_prescaler - D <= 0
                              THEN irq_prescaler - D + L ELSE irq_prescaler - D
        /\ n = IF irq_prescaler - D <= 0 THEN clocks + 1 ELSE clocks
    BY <1>2
  <2> HIDE DEF dots, over, n
  <2>2. QED
    BY <1>1, <1>3, <2>1, PrescalerStep
<1>5. /\ cycles' \in 0 .. L - 1 /\ clocks' \in 0 .. D
      /\ D * cycles' + irq_prescaler' = L * (clocks' + 1)
  <2> HIDE DEF L, D, n
  <2>1. CASE cycles + 1 = L
    BY <1>1, <1>2, <1>4, <2>1
  <2>2. CASE cycles + 1 # L
    BY <1>1, <1>2, <1>4, <2>2
  <2>3. QED
    BY <2>1, <2>2
<1>6. irq_counter' \in 0 .. MaxCount /\ irq_pending' \in BOOLEAN
  <2>1. Vrc6!ClockIrqCounter \/ UNCHANGED <<irq_counter, irq_pending>>
    BY DEF Vrc6!TickScanlineMode
  <2>2. QED
    BY <2>1, Vrc6ClockTypes DEF Vrc6Inv, Vrc6!TypeOK
<1>7. UNCHANGED Vrc6!registers /\ irq_enable
  BY DEF Vrc6!TickScanlineMode
<1>8. Vrc6!TypeOK'
  BY <1>4, <1>5, <1>6, <1>7 DEF Vrc6Inv, Vrc6!TypeOK, Vrc6!registers
<1>9. Vrc6!NoDrift'
  BY <1>5 DEF Vrc6!NoDrift
<1>10. Vrc6!DisabledMeansClear'
  BY <1>7, Zenon DEF Vrc6!DisabledMeansClear, Vrc6!registers
<1>11. QED
  BY <1>8, <1>9, <1>10 DEF Vrc6Inv

LEMMA Vrc6WriteKeeps ==
    ASSUME Vrc6!PrescalerAssumption, Vrc6Inv, Vrc6!Write
    PROVE  Vrc6Inv'
<1>1. ASSUME NEW val \in 0 .. MaxCount, Vrc6!WriteLatch(val) PROVE Vrc6Inv'
  BY <1>1 DEF Vrc6Inv, Vrc6!TypeOK, Vrc6!NoDrift, Vrc6!DisabledMeansClear, Vrc6!WriteLatch, Vrc6!history
<1>2. ASSUME NEW after_ack \in BOOLEAN, NEW enable \in BOOLEAN, NEW mode \in BOOLEAN,
             Vrc6!WriteControl(after_ack, enable, mode)
      PROVE  Vrc6Inv'
  <2>1. Vrc6!TypeOK'
    <3>1. irq_counter' \in 0 .. MaxCount /\ irq_latch' \in 0 .. MaxCount
      BY <1>2 DEF Vrc6Inv, Vrc6!TypeOK, Vrc6!WriteControl
    <3>2. irq_prescaler' \in 1 .. LinePeriod /\ cycles' \in 0 .. LinePeriod - 1
          /\ clocks' \in 0 .. DotsPerCycle
      BY <1>2, Vrc6Numbers DEF Vrc6!WriteControl
    <3>3. /\ irq_mode_cycle' \in BOOLEAN /\ irq_enable' \in BOOLEAN
          /\ irq_enable_after_ack' \in BOOLEAN /\ irq_pending' \in BOOLEAN
      BY <1>2, Zenon DEF Vrc6!WriteControl
    <3>4. QED
      BY <3>1, <3>2, <3>3 DEF Vrc6!TypeOK
  <2>2. Vrc6!NoDrift'
    <3>1. irq_prescaler' = LinePeriod /\ cycles' = 0 /\ clocks' = 0
      BY <1>2 DEF Vrc6!WriteControl
    <3>2. QED
      BY <3>1, Vrc6Numbers DEF Vrc6!NoDrift
  <2>3. Vrc6!DisabledMeansClear'
    BY <1>2 DEF Vrc6!DisabledMeansClear, Vrc6!WriteControl
  <2>4. QED
    BY <2>1, <2>2, <2>3 DEF Vrc6Inv
<1>3. CASE Vrc6!Acknowledge
  BY <1>3 DEF Vrc6Inv, Vrc6!TypeOK, Vrc6!NoDrift, Vrc6!DisabledMeansClear, Vrc6!Acknowledge, Vrc6!history
<1>4. QED
  BY <1>1, <1>2, <1>3 DEF Vrc6!Write

LEMMA Vrc6Init ==
    ASSUME Vrc6!PrescalerAssumption, Vrc6!Init
    PROVE  Vrc6Inv
<1>1. irq_prescaler = LinePeriod /\ cycles = 0 /\ clocks = 0
  BY DEF Vrc6!Init
<1>2. Vrc6!NoDrift
  BY <1>1, Vrc6Numbers DEF Vrc6!NoDrift
<1>3. irq_prescaler \in 1 .. LinePeriod /\ cycles \in 0 .. LinePeriod - 1
      /\ clocks \in 0 .. DotsPerCycle /\ 0 \in 0 .. MaxCount
  BY <1>1, Vrc6Numbers
<1>4. Vrc6!TypeOK
  BY <1>3, Zenon DEF Vrc6!Init, Vrc6!TypeOK
<1>5. Vrc6!DisabledMeansClear
  BY DEF Vrc6!Init, Vrc6!DisabledMeansClear
<1>6. QED
  BY <1>2, <1>4, <1>5 DEF Vrc6Inv

LEMMA Vrc6Keeps ==
    ASSUME Vrc6!PrescalerAssumption, Vrc6Inv, [Vrc6!Next]_(Vrc6!vars)
    PROVE  Vrc6Inv'
<1>1. CASE Vrc6!Idle \/ UNCHANGED Vrc6!vars
  BY <1>1 DEF Vrc6!Idle, Vrc6!vars, Vrc6!registers, Vrc6!history, Vrc6Inv, Vrc6!TypeOK, Vrc6!NoDrift, Vrc6!DisabledMeansClear
<1>2. CASE Vrc6!TickCycleMode
  <2>1. irq_counter' \in 0 .. MaxCount /\ irq_pending' \in BOOLEAN
    BY <1>2, Vrc6ClockTypes DEF Vrc6Inv, Vrc6!TickCycleMode
  <2>2. QED
    BY <1>2, <2>1 DEF Vrc6Inv, Vrc6!TypeOK, Vrc6!NoDrift, Vrc6!DisabledMeansClear, Vrc6!TickCycleMode,
                      Vrc6!registers, Vrc6!history
<1>3. QED
  BY <1>1, <1>2, Vrc6ScanlineKeeps, Vrc6WriteKeeps DEF Vrc6!Next, Vrc6!TickCpu

(***************************************************************************)
(* The counter is an interval timer.                                       *)
(***************************************************************************)

LEMMA Vrc6ClockImplements ==
    ASSUME Vrc6!PrescalerAssumption, Vrc6Inv, irq_enable, Vrc6!ClockIrqCounter, UNCHANGED Vrc6!registers
    PROVE  Vrc6!Timer!Count \/ Vrc6!Timer!Expire
<1> DEFINE left == MaxCount + 1 - irq_counter
<1>1. /\ MaxCount \in Nat /\ irq_counter \in 0 .. MaxCount /\ irq_latch \in 0 .. MaxCount
      /\ irq_latch' = irq_latch /\ irq_enable' = irq_enable
  BY Vrc6Numbers DEF Vrc6Inv, Vrc6!TypeOK, Vrc6!registers
<1>2. CASE irq_counter = MaxCount
  <2>1. /\ left = 1
        /\ (MaxCount + 1 - irq_counter)' = MaxCount + 1 - irq_latch
        /\ (MaxCount + 1 - irq_latch)' = MaxCount + 1 - irq_latch
    BY <1>1, <1>2 DEF Vrc6!ClockIrqCounter
  <2>2. irq_pending' = (irq_pending \/ irq_enable)
    BY <1>2, Zenon DEF Vrc6!ClockIrqCounter
  <2>3. Vrc6!Timer!Expire
    BY <1>1, <2>1, <2>2, Zenon DEF Vrc6!Timer!Expire
  <2>4. QED
    BY <2>3
<1>3. CASE irq_counter # MaxCount
  <2>1. /\ left > 1
        /\ (MaxCount + 1 - irq_counter)' = left - 1
        /\ (MaxCount + 1 - irq_latch)' = MaxCount + 1 - irq_latch
    BY <1>1, <1>3 DEF Vrc6!ClockIrqCounter
  <2>2. irq_pending \in BOOLEAN
    BY DEF Vrc6Inv, Vrc6!TypeOK
  <2>3. irq_pending' = irq_pending
    BY <1>3, <2>2, Zenon DEF Vrc6!ClockIrqCounter
  <2>4. Vrc6!Timer!Count
    BY <1>1, <2>1, <2>3, Zenon DEF Vrc6!Timer!Count
  <2>5. QED
    BY <2>4
<1>4. QED
  BY <1>2, <1>3

LEMMA Vrc6WriteImplements ==
    ASSUME Vrc6!PrescalerAssumption, Vrc6Inv, Vrc6!Write
    PROVE  Vrc6!Timer!Program
<1>1. Vrc6Inv'
  BY Vrc6WriteKeeps
<1>2. /\ (MaxCount + 1 - irq_latch)' \in 1 .. MaxCount + 1
      /\ irq_enable' \in BOOLEAN
      /\ ~irq_enable' => ~irq_pending'
  BY <1>1, Vrc6Numbers DEF Vrc6Inv, Vrc6!TypeOK, Vrc6!DisabledMeansClear
<1>3. irq_counter' \in {irq_counter, irq_latch'} /\ irq_pending' \in {irq_pending, FALSE}
  <2>1. ASSUME NEW val \in 0 .. MaxCount, Vrc6!WriteLatch(val)
        PROVE  irq_counter' = irq_counter /\ irq_pending' = irq_pending
    BY <2>1 DEF Vrc6!WriteLatch
  <2>2. ASSUME NEW after_ack \in BOOLEAN, NEW enable \in BOOLEAN, NEW mode \in BOOLEAN,
               Vrc6!WriteControl(after_ack, enable, mode)
        PROVE  irq_counter' \in {irq_counter, irq_latch'} /\ irq_pending' = FALSE
    BY <2>2 DEF Vrc6!WriteControl
  <2>3. Vrc6!Acknowledge => irq_counter' = irq_counter /\ irq_pending' = FALSE
    BY DEF Vrc6!Acknowledge
  <2>4. QED
    BY <2>1, <2>2, <2>3 DEF Vrc6!Write
<1>4. (MaxCount + 1 - irq_counter)' \in {MaxCount + 1 - irq_counter,
                                         (MaxCount + 1 - irq_latch)'}
  BY <1>3
<1>5. QED
  BY <1>2, <1>3, <1>4, Zenon DEF Vrc6!Timer!Program

LEMMA Vrc6InitImplements ==
    ASSUME Vrc6!PrescalerAssumption, Vrc6!Init
    PROVE  Vrc6!Timer!Init
<1>1. MaxCount + 1 - irq_counter \in 1 .. MaxCount + 1
      /\ MaxCount + 1 - irq_latch \in 1 .. MaxCount + 1
  BY Vrc6Numbers DEF Vrc6!Init
<1>2. QED
  BY <1>1, Zenon DEF Vrc6!Init, Vrc6!Timer!Init

LEMMA Vrc6Implements ==
    ASSUME Vrc6!PrescalerAssumption, Vrc6Inv, [Vrc6!Next]_(Vrc6!vars)
    PROVE  [Vrc6!Timer!Next]_(Vrc6!Timer!vars)
<1>1. CASE Vrc6!Idle \/ UNCHANGED Vrc6!vars
  BY <1>1 DEF Vrc6!Idle, Vrc6!vars, Vrc6!registers, Vrc6!Timer!vars
<1>2. CASE Vrc6!TickCycleMode
  BY <1>2, Vrc6ClockImplements DEF Vrc6!TickCycleMode, Vrc6!Timer!Next
<1>3. CASE Vrc6!TickScanlineMode
  <2>1. UNCHANGED Vrc6!registers /\ irq_enable
    BY <1>3 DEF Vrc6!TickScanlineMode
  <2>2. Vrc6!ClockIrqCounter \/ UNCHANGED <<irq_counter, irq_pending>>
    BY <1>3 DEF Vrc6!TickScanlineMode
  <2>3. CASE Vrc6!ClockIrqCounter
    BY <2>1, <2>3, Vrc6ClockImplements DEF Vrc6!Timer!Next
  <2>4. CASE UNCHANGED <<irq_counter, irq_pending>>
    BY <2>1, <2>4 DEF Vrc6!registers, Vrc6!Timer!vars
  <2>5. QED
    BY <2>2, <2>3, <2>4
<1>4. CASE Vrc6!Write
  BY <1>4, Vrc6WriteImplements DEF Vrc6!Timer!Next
<1>5. QED
  BY <1>1, <1>2, <1>3, <1>4 DEF Vrc6!Next, Vrc6!TickCpu

-----------------------------------------------------------------------------
(* Mmc3.                                                                    *)

LEMMA OneMore ==
    ASSUME NEW m \in Nat, NEW n \in 0 .. m
    PROVE  n + 1 \in 1 .. m + 1
  OBVIOUS

Mmc3Inv == Mmc3!TypeOK /\ (~irq_enabled => ~irq_pending)

LEMMA Mmc3Init ==
    ASSUME Mmc3!MaxLatchAssumption, Mmc3!Init
    PROVE  Mmc3Inv /\ Mmc3!Timer!Init
<1>1. Mmc3Inv
  <2>1. 0 \in 0 .. MaxLatch
    BY DEF Mmc3!MaxLatchAssumption
  <2>2. QED
    BY <2>1, Zenon DEF Mmc3!Init, Mmc3Inv, Mmc3!TypeOK
<1>2. Mmc3!Left \in 1 .. MaxLatch + 1 /\ irq_latch + 1 \in 1 .. MaxLatch + 1
  BY DEF Mmc3!MaxLatchAssumption, Mmc3!Init, Mmc3!Left
<1>3. Mmc3!Timer!Init
  BY <1>2, Zenon DEF Mmc3!Timer!Init, Mmc3!Init
<1>4. QED
  BY <1>1, <1>3

LEMMA Mmc3Keeps ==
    ASSUME Mmc3!MaxLatchAssumption, Mmc3Inv, [Mmc3!Next]_(Mmc3!vars)
    PROVE  Mmc3Inv'
<1>1. CASE Mmc3!TickScanline
  <2>1. irq_counter' \in 0 .. MaxLatch /\ irq_latch' \in 0 .. MaxLatch
    BY <1>1 DEF Mmc3!MaxLatchAssumption, Mmc3Inv, Mmc3!TypeOK, Mmc3!TickScanline
  <2>2. /\ irq_enabled' \in BOOLEAN /\ irq_reload' \in BOOLEAN /\ irq_pending' \in BOOLEAN
        /\ ~irq_enabled' => ~irq_pending'
    BY <1>1, Zenon DEF Mmc3Inv, Mmc3!TypeOK, Mmc3!TickScanline
  <2>3. QED
    BY <2>1, <2>2, Zenon DEF Mmc3Inv, Mmc3!TypeOK
<1>2. ASSUME NEW val \in 0 .. MaxLatch, Mmc3!WriteLatch(val) PROVE Mmc3Inv'
  BY <1>2, Zenon DEF Mmc3!WriteLatch, Mmc3Inv, Mmc3!TypeOK
<1>3. CASE Mmc3!WriteReload
  BY <1>3 DEF Mmc3!WriteReload, Mmc3Inv, Mmc3!TypeOK
<1>4. CASE Mmc3!WriteDisable
  BY <1>4 DEF Mmc3!WriteDisable, Mmc3Inv, Mmc3!TypeOK
<1>5. CASE Mmc3!WriteEnable
  BY <1>5 DEF Mmc3!WriteEnable, Mmc3Inv, Mmc3!TypeOK
<1>6. CASE UNCHANGED Mmc3!vars
  BY <1>6 DEF Mmc3!vars, Mmc3Inv, Mmc3!TypeOK
<1>7. QED
  BY <1>1, <1>2, <1>3, <1>4, <1>5, <1>6, Zenon DEF Mmc3!Next, Mmc3!Write

\* Whether the counter reloads or counts down, one line is gone.
LEMMA Mmc3TickImplements ==
    ASSUME Mmc3!MaxLatchAssumption, Mmc3Inv, Mmc3!TickScanline
    PROVE  Mmc3!Timer!Count \/ Mmc3!Timer!Expire
<1>1. /\ irq_latch \in Nat /\ irq_counter \in Nat /\ irq_latch' = irq_latch
      /\ irq_counter' = IF irq_counter = 0 \/ irq_reload THEN irq_latch ELSE irq_counter - 1
      /\ irq_reload' = FALSE /\ irq_enabled' = irq_enabled
  BY DEF Mmc3!MaxLatchAssumption, Mmc3Inv, Mmc3!TypeOK, Mmc3!TickScanline
<1>2. (irq_latch + 1)' = irq_latch + 1
  BY <1>1
<1>3. irq_pending' = (irq_pending \/ (irq_counter' = 0 /\ irq_enabled)) /\ irq_pending \in BOOLEAN
  BY Zenon DEF Mmc3!TickScanline, Mmc3Inv, Mmc3!TypeOK
<1>4. CASE irq_counter' = 0
  <2>1. Mmc3!Left = 1 /\ Mmc3!Left' = irq_latch + 1
    BY <1>1, <1>4 DEF Mmc3!Left
  <2>2. irq_pending' = (irq_pending \/ irq_enabled)
    BY <1>3, <1>4, Zenon
  <2>3. Mmc3!Timer!Expire
    BY <1>1, <1>2, <2>1, <2>2, Zenon DEF Mmc3!Timer!Expire
  <2>4. QED
    BY <2>3
<1>5. CASE irq_counter' # 0
  <2>1. Mmc3!Left > 1 /\ Mmc3!Left' = Mmc3!Left - 1
    BY <1>1, <1>5 DEF Mmc3!Left
  <2>2. irq_pending' = irq_pending
    BY <1>3, <1>5, Zenon
  <2>3. Mmc3!Timer!Count
    BY <1>1, <1>2, <2>1, <2>2, Zenon DEF Mmc3!Timer!Count
  <2>4. QED
    BY <2>3
<1>6. QED
  BY <1>4, <1>5

LEMMA Mmc3WriteImplements ==
    ASSUME Mmc3!MaxLatchAssumption, Mmc3Inv, Mmc3!Write
    PROVE  Mmc3!Timer!Program
<1>1. Mmc3Inv'
  BY Mmc3Keeps DEF Mmc3!Next
<1>2. (irq_latch + 1)' \in 1 .. MaxLatch + 1
  <2>1. irq_latch' \in 0 .. MaxLatch /\ MaxLatch \in Nat
    BY <1>1, Zenon DEF Mmc3!MaxLatchAssumption, Mmc3Inv, Mmc3!TypeOK
  <2>2. QED
    BY <2>1, OneMore, Zenon
<1>3. irq_enabled' \in BOOLEAN /\ (~irq_enabled' => ~irq_pending')
  BY <1>1, Zenon DEF Mmc3Inv, Mmc3!TypeOK
<1>4. irq_pending' \in {irq_pending, FALSE}
  BY Zenon DEF Mmc3!Write, Mmc3!WriteLatch, Mmc3!WriteReload, Mmc3!WriteDisable, Mmc3!WriteEnable
<1>5. irq_counter' = irq_counter /\ (irq_reload' = TRUE \/ irq_reload' = irq_reload)
  BY Zenon DEF Mmc3!Write, Mmc3!WriteLatch, Mmc3!WriteReload, Mmc3!WriteDisable, Mmc3!WriteEnable
<1>6. Mmc3!Left' \in {Mmc3!Left, (irq_latch + 1)'}
  BY <1>5 DEF Mmc3!Left
<1>7. QED
  BY <1>2, <1>3, <1>4, <1>6, Zenon DEF Mmc3!Timer!Program

LEMMA Mmc3Implements ==
    ASSUME Mmc3!MaxLatchAssumption, Mmc3Inv, [Mmc3!Next]_(Mmc3!vars)
    PROVE  [Mmc3!Timer!Next]_(Mmc3!Timer!vars)
<1>1. CASE UNCHANGED Mmc3!vars
  BY <1>1 DEF Mmc3!vars, Mmc3!Timer!vars, Mmc3!Left
<1>2. CASE Mmc3!TickScanline
  BY <1>2, Mmc3TickImplements DEF Mmc3!Timer!Next
<1>3. CASE Mmc3!Write
  BY <1>3, Mmc3WriteImplements DEF Mmc3!Timer!Next
<1>4. QED
  BY <1>1, <1>2, <1>3 DEF Mmc3!Next

-----------------------------------------------------------------------------
(* Fme7.                                                                    *)

Fme7Inv == Fme7!TypeOK /\ (~irq_enable => ~irq_pending)

\* Replacing a byte of the counter leaves it a counter.
LEMMA TwoBytes ==
    ASSUME NEW b \in Nat \ {0}, NEW c \in 0 .. b * b - 1, NEW val \in 0 .. b - 1
    PROVE  /\ (c \div b) * b + val \in 0 .. b * b - 1
           /\ (c % b) + val * b \in 0 .. b * b - 1
<1>1. c = b * (c \div b) + (c % b) /\ c % b \in 0 .. b - 1 /\ c \div b \in Nat
  OBVIOUS
<1>2. PICK q \in Nat : q = c \div b
  BY <1>1
<1>3. PICK r \in 0 .. b - 1 : r = c % b
  BY <1>1
<1>4. q <= b - 1
  <2>1. SUFFICES ASSUME q >= b PROVE FALSE
    BY <1>2
  <2>2. b * q >= b * b
    BY <2>1
  <2>3. QED
    BY <1>1, <1>2, <1>3, <2>2
<1>5. q * b <= (b - 1) * b /\ val * b <= (b - 1) * b /\ (b - 1) * b = b * b - b
      /\ q * b >= 0 /\ val * b >= 0
  BY <1>4
<1>6. q * b + val \in 0 .. b * b - 1 /\ r + val * b \in 0 .. b * b - 1
  BY <1>5
<1>7. QED
  BY <1>2, <1>3, <1>6, Zenon

LEMMA Fme7Numbers ==
    ASSUME Fme7!BytesAssumption
    PROVE  Bytes \in Nat \ {0} /\ Fme7!LongestCount \in Nat
           /\ Fme7!LongestCount + 1 = Bytes * Bytes
<1>1. Bytes \in Nat \ {0}
  BY DEF Fme7!BytesAssumption
<1>2. Bytes * Bytes >= 1
  BY <1>1
<1>3. QED
  BY <1>1, <1>2 DEF Fme7!LongestCount

LEMMA Fme7Init ==
    ASSUME Fme7!BytesAssumption, Fme7!Init
    PROVE  Fme7Inv /\ Fme7!Timer!Init
<1>1. Fme7Inv
  <2>1. 0 \in 0 .. Fme7!LongestCount
    BY Fme7Numbers
  <2>2. QED
    BY <2>1, Zenon DEF Fme7!Init, Fme7Inv, Fme7!TypeOK
<1>2. irq_counter + 1 \in 1 .. Fme7!LongestCount + 1
      /\ Fme7!LongestCount + 1 \in 1 .. Fme7!LongestCount + 1
  BY Fme7Numbers DEF Fme7!Init
<1>3. Fme7!Timer!Init
  BY <1>2, Zenon DEF Fme7!Timer!Init, Fme7!Init
<1>4. QED
  BY <1>1, <1>3

LEMMA Fme7Keeps ==
    ASSUME Fme7!BytesAssumption, Fme7Inv, [Fme7!Next]_(Fme7!vars)
    PROVE  Fme7Inv'
<1>1. CASE Fme7!TickCpu
  <2>1. irq_counter' \in 0 .. Fme7!LongestCount
    BY <1>1, Fme7Numbers DEF Fme7Inv, Fme7!TypeOK, Fme7!TickCpu
  <2>2. /\ irq_enable' \in BOOLEAN /\ irq_counter_enable' \in BOOLEAN /\ irq_pending' \in BOOLEAN
        /\ ~irq_enable' => ~irq_pending'
    BY <1>1, Zenon DEF Fme7Inv, Fme7!TypeOK, Fme7!TickCpu
  <2>3. QED
    BY <2>1, <2>2, Zenon DEF Fme7Inv, Fme7!TypeOK
<1>2. ASSUME NEW counting_ \in BOOLEAN, NEW enable \in BOOLEAN, Fme7!WriteControl(counting_, enable)
      PROVE  Fme7Inv'
  BY <1>2, Zenon DEF Fme7!WriteControl, Fme7Inv, Fme7!TypeOK
<1>3. ASSUME NEW val \in Fme7!Byte, Fme7!WriteLow(val) \/ Fme7!WriteHigh(val) PROVE Fme7Inv'
  <2>1. irq_counter \in 0 .. Bytes * Bytes - 1 /\ val \in 0 .. Bytes - 1 /\ Bytes \in Nat \ {0}
    BY Fme7Numbers DEF Fme7Inv, Fme7!TypeOK, Fme7!LongestCount, Fme7!Byte
  <2>2. /\ (irq_counter \div Bytes) * Bytes + val \in 0 .. Bytes * Bytes - 1
        /\ (irq_counter % Bytes) + val * Bytes \in 0 .. Bytes * Bytes - 1
    BY <2>1, TwoBytes
  <2>3. irq_counter' \in 0 .. Fme7!LongestCount
    BY <1>3, <2>2, Zenon DEF Fme7!WriteLow, Fme7!WriteHigh, Fme7!LongestCount
  <2>4. UNCHANGED <<irq_enable, irq_counter_enable, irq_pending>>
    BY <1>3 DEF Fme7!WriteLow, Fme7!WriteHigh
  <2>5. QED
    BY <2>3, <2>4, Zenon DEF Fme7Inv, Fme7!TypeOK
<1>4. CASE UNCHANGED Fme7!vars
  BY <1>4 DEF Fme7!vars, Fme7Inv, Fme7!TypeOK
<1>5. QED
  BY <1>1, <1>2, <1>3, <1>4, Zenon DEF Fme7!Next, Fme7!Write

LEMMA Fme7TickImplements ==
    ASSUME Fme7!BytesAssumption, Fme7Inv, Fme7!TickCpu
    PROVE  [Fme7!Timer!Next]_(Fme7!Timer!vars)
<1>1. /\ irq_counter \in Nat /\ irq_enable' = irq_enable
      /\ irq_counter_enable' = irq_counter_enable /\ irq_counter_enable \in BOOLEAN
      /\ irq_counter' = IF ~irq_counter_enable THEN irq_counter
                        ELSE IF irq_counter = 0 THEN Fme7!LongestCount ELSE irq_counter - 1
  BY DEF Fme7Inv, Fme7!TypeOK, Fme7!TickCpu
<1>2. /\ irq_pending' = (irq_pending \/ (irq_counter_enable /\ irq_counter = 0 /\ irq_enable))
      /\ irq_pending \in BOOLEAN
  BY Zenon DEF Fme7!TickCpu, Fme7Inv, Fme7!TypeOK
<1>3. (Fme7!LongestCount + 1)' = Fme7!LongestCount + 1
  BY DEF Fme7!LongestCount
<1>4. CASE ~irq_counter_enable
  <2>1. irq_pending' = irq_pending /\ (irq_counter + 1)' = irq_counter + 1
    BY <1>1, <1>2, <1>4, Zenon
  <2>2. QED
    BY <1>1, <1>3, <2>1, Zenon DEF Fme7!Timer!vars
<1>5. CASE irq_counter_enable /\ irq_counter = 0
  <2>1. irq_counter + 1 = 1 /\ (irq_counter + 1)' = Fme7!LongestCount + 1
    BY <1>1, <1>5
  <2>2. irq_pending' = (irq_pending \/ irq_enable)
    BY <1>2, <1>5, Zenon
  <2>3. Fme7!Timer!Expire
    BY <1>1, <1>3, <1>5, <2>1, <2>2, Zenon DEF Fme7!Timer!Expire
  <2>4. QED
    BY <2>3 DEF Fme7!Timer!Next
<1>6. CASE irq_counter_enable /\ irq_counter # 0
  <2>1. irq_counter + 1 > 1 /\ (irq_counter + 1)' = irq_counter + 1 - 1
    BY <1>1, <1>6
  <2>2. irq_pending' = irq_pending
    BY <1>2, <1>6, Zenon
  <2>3. Fme7!Timer!Count
    BY <1>1, <1>3, <1>6, <2>1, <2>2 DEF Fme7!Timer!Count
  <2>4. QED
    BY <2>3 DEF Fme7!Timer!Next
<1>7. QED
  BY <1>1, <1>4, <1>5, <1>6

LEMMA Fme7WriteImplements ==
    ASSUME Fme7!BytesAssumption, Fme7Inv, Fme7!Write
    PROVE  Fme7!Timer!Program
<1>1. Fme7Inv'
  BY Fme7Keeps DEF Fme7!Next
<1>2. /\ (irq_counter + 1)' \in 1 .. Fme7!LongestCount + 1
      /\ (Fme7!LongestCount + 1)' \in 1 .. Fme7!LongestCount + 1
  <2>1. irq_counter' \in 0 .. Fme7!LongestCount /\ Fme7!LongestCount' = Fme7!LongestCount
    BY <1>1 DEF Fme7Inv, Fme7!TypeOK, Fme7!LongestCount
  <2>2. irq_counter' + 1 \in 1 .. Fme7!LongestCount + 1
    BY <2>1, Fme7Numbers, OneMore, Zenon
  <2>3. Fme7!LongestCount + 1 \in 1 .. Fme7!LongestCount + 1
    BY Fme7Numbers
  <2>4. QED
    BY <2>1, <2>2, <2>3, Zenon
<1>3. /\ irq_enable' \in BOOLEAN /\ irq_counter_enable' \in BOOLEAN
      /\ ~irq_enable' => ~irq_pending'
  BY <1>1, Zenon DEF Fme7Inv, Fme7!TypeOK
<1>4. irq_pending' \in {irq_pending, FALSE}
  BY Zenon DEF Fme7!Write, Fme7!WriteControl, Fme7!WriteLow, Fme7!WriteHigh
<1>5. QED
  BY <1>2, <1>3, <1>4, Zenon DEF Fme7!Timer!Program

LEMMA Fme7Implements ==
    ASSUME Fme7!BytesAssumption, Fme7Inv, [Fme7!Next]_(Fme7!vars)
    PROVE  [Fme7!Timer!Next]_(Fme7!Timer!vars)
<1>1. CASE UNCHANGED Fme7!vars
  BY <1>1 DEF Fme7!vars, Fme7!Timer!vars, Fme7!LongestCount
<1>2. CASE Fme7!Write
  BY <1>2, Fme7WriteImplements DEF Fme7!Timer!Next
<1>3. QED
  BY <1>1, <1>2, Fme7TickImplements DEF Fme7!Next

-----------------------------------------------------------------------------
(* Mmc5.                                                                    *)

\* The number of the line in the picture after its notice; -1 before the first.
LineCount == IF cycle > 1 THEN line + 1 ELSE line
\* Cycles since the last notice.
SinceNotice == IF cycle > 1 THEN cycle - 2 ELSE LineCycles - 2 + cycle

\* Vertical blank: the silence is over before the pre-render line.
InBlank ==
    /\ raised = 0
    /\ ppu_idle = 0 \/ ppu_idle + (line - Visible) * LineCycles + cycle <= IdleCycles

\* The picture: the silence is never over, so the board counts with the beam.
InPicture ==
    IF LineCount = -1
      THEN ppu_idle = 0 /\ raised = 0
      ELSE /\ scanline_counter = LineCount
           /\ in_frame = (LineCount > 0) /\ need_in_frame = (LineCount = 0)
           /\ raised = IF irq_target \in 1 .. LineCount THEN 1 ELSE 0
           /\ ppu_idle + SinceNotice >= IdleCycles

SteadyInv ==
    steady => rendering /\ IF line >= Visible THEN InBlank ELSE InPicture

Mmc5Inv == Mmc5!TypeOK /\ Mmc5!FrameEnds /\ SteadyInv

NextCycle == cycle' = IF cycle = LineCycles - 1 THEN 0 ELSE cycle + 1
NextLine ==
    line' = IF cycle # LineCycles - 1 THEN line
            ELSE IF line = Visible + Blank - 1 THEN -1 ELSE line + 1

LEMMA AroundTheLine ==
    ASSUME NEW n \in Nat, n > 0, NEW c \in 0 .. n - 1
    PROVE  (c + 1) % n = IF c = n - 1 THEN 0 ELSE c + 1
<1>1. CASE c = n - 1
  BY <1>1, SMT
<1>2. CASE c # n - 1
  BY <1>2, SMT
<1>3. QED
  BY <1>1, <1>2

LEMMA BeamMoves ==
    ASSUME Mmc5!LinesAssumption, Mmc5!TypeOK, Mmc5!Tick
    PROVE  NextCycle /\ NextLine
<1>1. LineCycles \in Nat /\ LineCycles > 0 /\ cycle \in 0 .. LineCycles - 1
  BY DEF Mmc5!LinesAssumption, Mmc5!TypeOK
<1>2. cycle' = (cycle + 1) % LineCycles
  BY Zenon DEF Mmc5!Tick
<1>3. NextCycle
  BY <1>1, <1>2, AroundTheLine, Zenon DEF NextCycle
<1>4. line' = IF cycle' # 0 THEN line ELSE IF line = Visible + Blank - 1 THEN -1 ELSE line + 1
  BY Zenon DEF Mmc5!Tick
<1>5. NextLine
  BY <1>1, <1>3, <1>4, SMT DEF NextCycle, NextLine
<1>6. QED
  BY <1>3, <1>5

(***************************************************************************)
(* One cycle, register by register.                                        *)
(***************************************************************************)

SilenceBegins == ppu_idle = 1
IdleLeft == IF ppu_idle > 0 THEN ppu_idle - 1 ELSE 0
CountGoesOn == (in_frame \/ need_in_frame) /\ ~SilenceBegins
NextCount == IF scanline_counter < CounterMax THEN scanline_counter + 1 ELSE scanline_counter
OnTarget == Mmc5!Notices /\ CountGoesOn /\ NextCount = irq_target

LEMMA DetectorTurns ==
    ASSUME Mmc5!TypeOK, Mmc5!Tick
    PROVE  /\ in_frame' = IF Mmc5!Notices THEN CountGoesOn ELSE in_frame /\ ~SilenceBegins
           /\ need_in_frame' =
                IF Mmc5!Notices THEN ~CountGoesOn ELSE need_in_frame /\ ~SilenceBegins
           /\ scanline_counter' =
                IF ~Mmc5!Notices THEN scanline_counter ELSE IF CountGoesOn THEN NextCount ELSE 0
           /\ ppu_idle' = IdleCycles \/ (~Mmc5!Notices /\ ppu_idle' = IdleLeft)
           /\ ~Mmc5!Notices /\ ~Mmc5!Reads => ppu_idle' = IdleLeft
           /\ irq_pending' = (irq_pending \/ OnTarget)
           /\ LET blank == line' = Visible /\ cycle' = 0
              IN  /\ raised' =
                       IF blank THEN 0 ELSE IF OnTarget /\ raised < 2 THEN raised + 1 ELSE raised
                  /\ steady' = IF blank THEN rendering ELSE steady
           /\ UNCHANGED <<irq_target, irq_enable, rendering>>
<1> DEFINE idled   == [in_frame |-> in_frame /\ ~SilenceBegins,
                       need_in_frame |-> need_in_frame /\ ~SilenceBegins,
                       scanline_counter |-> scanline_counter, ppu_idle |-> IdleLeft]
           early   == IF CountGoesOn
                        THEN [in_frame |-> TRUE, need_in_frame |-> FALSE,
                              scanline_counter |-> NextCount, ppu_idle |-> IdleCycles]
                        ELSE [in_frame |-> FALSE, need_in_frame |-> TRUE,
                              scanline_counter |-> 0, ppu_idle |-> IdleCycles]
           noticed == IF Mmc5!Notices THEN early ELSE idled
           hit     == /\ Mmc5!Notices /\ (idled.in_frame \/ idled.need_in_frame)
                      /\ noticed.scanline_counter = irq_target
<1>1. Mmc5!Idle(Mmc5!Detector) = idled
  <2>1. /\ Mmc5!Detector.in_frame = in_frame /\ Mmc5!Detector.need_in_frame = need_in_frame
        /\ Mmc5!Detector.ppu_idle = ppu_idle
    BY Zenon DEF Mmc5!Detector
  <2>2. Mmc5!Idle(Mmc5!Detector) =
          [Mmc5!Detector EXCEPT !.ppu_idle = IdleLeft,
                                !.in_frame = in_frame /\ ~SilenceBegins,
                                !.need_in_frame = need_in_frame /\ ~SilenceBegins]
    BY <2>1, Zenon DEF Mmc5!Idle, SilenceBegins, IdleLeft
  <2>3. QED
    BY <2>2, Zenon DEF Mmc5!Detector
<1>2. Mmc5!Early(idled) = early
  <2>1. /\ idled.in_frame = (in_frame /\ ~SilenceBegins)
        /\ idled.need_in_frame = (need_in_frame /\ ~SilenceBegins)
        /\ idled.scanline_counter = scanline_counter
    BY Zenon
  <2>2. CASE CountGoesOn
    <3>1. idled.in_frame \/ idled.need_in_frame
      BY <2>1, <2>2, Zenon DEF CountGoesOn
    <3>2. Mmc5!Early(idled) =
            [idled EXCEPT !.in_frame = TRUE, !.need_in_frame = FALSE, !.ppu_idle = IdleCycles,
                          !.scanline_counter = IF @ < CounterMax THEN @ + 1 ELSE @]
      BY <3>1, Zenon DEF Mmc5!Early
    <3>3. QED
      BY <2>2, <3>2, Zenon DEF NextCount
  <2>3. CASE ~CountGoesOn
    <3>1. ~(idled.in_frame \/ idled.need_in_frame) /\ ~(in_frame /\ ~SilenceBegins)
      BY <2>1, <2>3, Zenon DEF CountGoesOn
    <3>2. Mmc5!Early(idled) =
            [idled EXCEPT !.need_in_frame = TRUE, !.scanline_counter = 0, !.ppu_idle = IdleCycles]
      BY <3>1, Zenon DEF Mmc5!Early
    <3>3. idled.in_frame = FALSE
      BY <2>1, <3>1, Zenon
    <3>4. QED
      BY <2>3, <3>2, <3>3, Zenon
  <2>4. QED
    BY <2>2, <2>3, Zenon
<1>3. /\ in_frame' = noticed.in_frame /\ need_in_frame' = noticed.need_in_frame
      /\ scanline_counter' = noticed.scanline_counter
      /\ ppu_idle' \in {noticed.ppu_idle} \cup (IF Mmc5!Reads THEN {IdleCycles} ELSE {})
  BY <1>1, <1>2, Zenon DEF Mmc5!Tick
<1>4. /\ irq_pending' = (irq_pending \/ hit)
      /\ LET blank == line' = Visible /\ cycle' = 0
         IN  /\ raised' = IF blank THEN 0 ELSE IF hit /\ raised < 2 THEN raised + 1 ELSE raised
             /\ steady' = IF blank THEN rendering ELSE steady
      /\ UNCHANGED <<irq_target, irq_enable, rendering>>
  BY <1>1, <1>2, Zenon DEF Mmc5!Tick
<1>5. hit = OnTarget
  BY Zenon DEF OnTarget, CountGoesOn
<1>6. CASE Mmc5!Notices
  <2>1. noticed = early
    BY <1>6, Zenon
  <2>2. ppu_idle' = IdleCycles
    BY <1>3, <2>1, Zenon
  <2>3. in_frame' = CountGoesOn /\ need_in_frame' = (~CountGoesOn)
    <3>1. CASE CountGoesOn
      BY <1>3, <2>1, <3>1, Zenon
    <3>2. CASE ~CountGoesOn
      <4>1. early.in_frame = FALSE /\ early.need_in_frame = TRUE
        BY <3>2, Zenon
      <4>2. in_frame' = FALSE /\ need_in_frame' = TRUE
        BY <1>3, <2>1, <4>1, Zenon
      <4>3. CountGoesOn = FALSE /\ (~CountGoesOn) = TRUE
        BY <3>2, Zenon DEF CountGoesOn
      <4>4. QED
        BY <4>2, <4>3, Zenon
    <3>3. QED
      BY <3>1, <3>2
  <2>4. scanline_counter' = IF CountGoesOn THEN NextCount ELSE 0
    BY <1>3, <2>1, Zenon
  <2>5. QED
    BY <1>4, <1>5, <1>6, <2>2, <2>3, <2>4, Zenon
<1>7. CASE ~Mmc5!Notices
  BY <1>3, <1>4, <1>5, <1>7, Zenon
<1>8. QED
  BY <1>6, <1>7, Zenon

LEMMA Mmc5TickTyped ==
    ASSUME Mmc5!LinesAssumption, Mmc5!TypeOK, Mmc5!FrameEnds, Mmc5!Tick
    PROVE  Mmc5!TypeOK' /\ Mmc5!FrameEnds'
<1>1. NextCycle /\ NextLine
  BY BeamMoves
<1> USE DEF Mmc5!LinesAssumption, Mmc5!TypeOK
<1>2. in_frame' \in BOOLEAN /\ need_in_frame' \in BOOLEAN /\ irq_pending' \in BOOLEAN
      /\ irq_enable' \in BOOLEAN /\ rendering' \in BOOLEAN /\ irq_target' \in Mmc5!Target
  BY DetectorTurns, Zenon DEF CountGoesOn
<1>3. steady' \in BOOLEAN
  BY DetectorTurns, Zenon
<1>4. cycle' \in 0 .. LineCycles - 1 /\ line' \in -1 .. Visible + Blank - 1
  BY <1>1, SMT DEF NextCycle, NextLine
<1>5. scanline_counter' \in 0 .. CounterMax
  BY DetectorTurns, SMT DEF NextCount
<1>6. IdleLeft \in 0 .. IdleCycles
  BY SMT DEF IdleLeft
<1>7. ppu_idle' \in 0 .. IdleCycles
  BY <1>6, DetectorTurns, SMT
<1>8. raised' \in 0 .. 2
  BY DetectorTurns, SMT
<1>9. Mmc5!FrameEnds'
  <2>1. CASE ppu_idle' = IdleCycles
    BY <2>1, SMT DEF Mmc5!FrameEnds
  <2>2. CASE ~Mmc5!Notices /\ ppu_idle' = IdleLeft
    <3>1. SUFFICES ASSUME in_frame' \/ need_in_frame' PROVE ppu_idle' > 0
      BY DEF Mmc5!FrameEnds
    <3>2. (in_frame \/ need_in_frame) /\ ~SilenceBegins
      BY <2>2, <3>1, DetectorTurns, Zenon
    <3>3. QED
      BY <2>2, <3>2, SMT DEF Mmc5!FrameEnds, SilenceBegins, IdleLeft
  <2>3. QED
    BY <2>1, <2>2, DetectorTurns, Zenon
<1>10. QED
  BY <1>2, <1>3, <1>4, <1>5, <1>7, <1>8, <1>9

\* The end of a line adds LineCycles to the place in the frame.
LEMMA LineAfterLine ==
    ASSUME Mmc5!LinesAssumption, NEW a \in Int
    PROVE  /\ a * LineCycles \in Int /\ (a + 1) * LineCycles = a * LineCycles + LineCycles
         /\ 0 * LineCycles = 0
  BY SMT DEF Mmc5!LinesAssumption

(***************************************************************************)
(* A steady frame: vertical blank is long enough to end the last picture,  *)
(* and no line is long enough to end this one.                             *)
(***************************************************************************)

LEMMA BlankStaysSteady ==
    ASSUME Mmc5!LinesAssumption, Mmc5!TypeOK, Mmc5!FrameEnds, Mmc5!Tick,
           rendering, line >= Visible, InBlank, ~(line' = Visible /\ cycle' = 0)
    PROVE  IF line' >= Visible THEN InBlank' ELSE InPicture'
<1>1. NextCycle /\ NextLine
  BY BeamMoves
<1>2. ~Mmc5!Notices /\ ~Mmc5!Reads
  BY SMT DEF Mmc5!Notices, Mmc5!Reads, Mmc5!LinesAssumption, Mmc5!TypeOK
<1>3. ppu_idle' = IdleLeft /\ raised' = 0
  BY <1>2, DetectorTurns, Zenon DEF OnTarget, InBlank
<1>4. CASE cycle # LineCycles - 1
  <2>1. line' = line /\ cycle' = cycle + 1
    BY <1>1, <1>4, Zenon DEF NextCycle, NextLine
  <2>2. PICK p \in Int : p = (line - Visible) * LineCycles
    BY LineAfterLine, SMT DEF Mmc5!LinesAssumption, Mmc5!TypeOK
  <2>3. (line' - Visible) * LineCycles = p
    BY <2>1, <2>2
  <2>4. IdleLeft = 0 \/ IdleLeft + p + cycle' <= IdleCycles
    BY <2>1, <2>2, SMT DEF IdleLeft, InBlank, Mmc5!LinesAssumption, Mmc5!TypeOK
  <2>5. InBlank'
    BY <1>3, <2>3, <2>4, Zenon DEF InBlank
  <2>6. QED
    BY <2>1, <2>5, Zenon
<1>5. CASE cycle = LineCycles - 1 /\ line # Visible + Blank - 1
  <2>1. line' = line + 1 /\ cycle' = 0 /\ line' >= Visible
    BY <1>1, <1>5, SMT DEF NextCycle, NextLine, Mmc5!LinesAssumption, Mmc5!TypeOK
  <2>2. PICK a \in Int : a = line - Visible
    BY SMT DEF Mmc5!LinesAssumption, Mmc5!TypeOK
  <2>3. PICK p \in Int : p = a * LineCycles
    BY LineAfterLine
  <2>4. line' - Visible = a + 1
    BY <2>1, <2>2, SMT DEF Mmc5!LinesAssumption, Mmc5!TypeOK
  <2>5. (line' - Visible) * LineCycles = p + LineCycles
    BY <2>3, <2>4, LineAfterLine
  <2>6. ppu_idle = 0 \/ ppu_idle + p + cycle <= IdleCycles
    BY <2>2, <2>3, Zenon DEF InBlank
  <2>7. IdleLeft = 0 \/ IdleLeft + (p + LineCycles) + cycle' <= IdleCycles
    BY <1>5, <2>1, <2>6, SMT DEF IdleLeft, Mmc5!LinesAssumption, Mmc5!TypeOK
  <2>8. InBlank'
    BY <1>3, <2>5, <2>7, Zenon DEF InBlank
  <2>9. QED
    BY <2>1, <2>8, Zenon
<1>6. CASE cycle = LineCycles - 1 /\ line = Visible + Blank - 1
  <2>1. line' = -1 /\ cycle' = 0 /\ ~(line' >= Visible)
    BY <1>1, <1>6, SMT DEF NextCycle, NextLine, Mmc5!LinesAssumption, Mmc5!TypeOK
  <2>2. PICK a \in Int : a = line - Visible
    BY SMT DEF Mmc5!LinesAssumption, Mmc5!TypeOK
  <2>3. PICK p \in Int : p = a * LineCycles
    BY LineAfterLine
  <2>4. Blank = a + 1
    BY <1>6, <2>2, SMT DEF Mmc5!LinesAssumption, Mmc5!TypeOK
  <2>5. Blank * LineCycles = p + LineCycles
    BY <2>3, <2>4, LineAfterLine
  <2>6. ppu_idle = 0 \/ ppu_idle + p + cycle <= IdleCycles
    BY <2>2, <2>3, Zenon DEF InBlank
  <2>7. ppu_idle = 0
    <3>1. IdleCycles < p + LineCycles
      BY <2>5 DEF Mmc5!LinesAssumption
    <3>2. QED
      BY <1>6, <2>6, <3>1, SMT DEF Mmc5!LinesAssumption, Mmc5!TypeOK
  <2>8. ppu_idle' = 0
    BY <1>3, <2>7, SMT DEF IdleLeft
  <2>9. LineCount' = -1
    BY <2>1, SMT DEF LineCount
  <2>10. InPicture'
    BY <1>3, <2>8, <2>9, Zenon DEF InPicture
  <2>11. QED
    BY <2>1, <2>10, Zenon
<1>7. QED
  BY <1>4, <1>5, <1>6, Zenon

LEMMA PictureStaysSteady ==
    ASSUME Mmc5!LinesAssumption, Mmc5!TypeOK, Mmc5!FrameEnds, Mmc5!Tick,
           rendering, line < Visible, InPicture, ~(line' = Visible /\ cycle' = 0)
    PROVE  line' < Visible /\ InPicture'
<1>1. NextCycle /\ NextLine
  BY BeamMoves
<1>2. line' < Visible
  BY <1>1, SMT DEF NextCycle, NextLine, Mmc5!LinesAssumption, Mmc5!TypeOK
<1> USE DEF Mmc5!LinesAssumption, Mmc5!TypeOK
<1>3. CASE cycle # 1
  <2>1. ~Mmc5!Notices /\ ~OnTarget
    BY <1>3, Zenon DEF Mmc5!Notices, OnTarget
  <2>2. LineCount' = LineCount
    BY <1>1, <1>2, <1>3, SMT DEF NextCycle, NextLine, LineCount
  <2>3. /\ scanline_counter' = scanline_counter /\ raised' = raised /\ irq_target' = irq_target
        /\ in_frame' = (in_frame /\ ~SilenceBegins)
        /\ need_in_frame' = (need_in_frame /\ ~SilenceBegins)
        /\ ppu_idle' = IdleCycles \/ ppu_idle' = IdleLeft
        /\ ~Mmc5!Reads => ppu_idle' = IdleLeft
    <3>1. raised' = raised
      BY <2>1, DetectorTurns, Zenon
    <3>2. QED
      BY <2>1, <3>1, DetectorTurns, Zenon
  <2>4. CASE LineCount = -1
    <3>1. line = -1 /\ ~Mmc5!Reads
      BY <2>4, SMT DEF LineCount, Mmc5!Reads
    <3>2. ppu_idle = 0 /\ raised = 0
      BY <2>4, Zenon DEF InPicture
    <3>3. ppu_idle' = 0
      BY <2>3, <3>1, <3>2, SMT DEF IdleLeft
    <3>4. QED
      BY <1>2, <2>2, <2>3, <2>4, <3>2, <3>3, Zenon DEF InPicture
  <2>5. CASE LineCount # -1
    <3>1. /\ scanline_counter = LineCount
          /\ in_frame = (LineCount > 0) /\ need_in_frame = (LineCount = 0)
          /\ raised = IF irq_target \in 1 .. LineCount THEN 1 ELSE 0
          /\ ppu_idle + SinceNotice >= IdleCycles
      BY <2>5, Zenon DEF InPicture
    <3>2. ppu_idle > 1
      BY <1>3, <3>1, SMT DEF SinceNotice
    <3>3. ~SilenceBegins
      BY <3>2, SMT DEF SilenceBegins
    <3>4. SinceNotice' = SinceNotice + 1
      BY <1>1, <1>3, SMT DEF SinceNotice, NextCycle
    <3>5. ppu_idle' + SinceNotice' >= IdleCycles
      <4>1. SinceNotice \in Nat
        BY SMT DEF SinceNotice
      <4>2. QED
        BY <2>3, <3>1, <3>2, <3>4, <4>1, SMT DEF IdleLeft
    <3>6. in_frame' = in_frame /\ need_in_frame' = need_in_frame
      BY <2>3, <3>3, Zenon
    <3>7. in_frame' = (LineCount' > 0) /\ need_in_frame' = (LineCount' = 0)
      BY <2>2, <3>1, <3>6, Zenon
    <3>8. scanline_counter' = LineCount' /\ LineCount' # -1
      BY <2>2, <2>3, <2>5, <3>1, Zenon
    <3>9. raised' = IF irq_target' \in 1 .. LineCount' THEN 1 ELSE 0
      <4>1. (1 .. LineCount') = 1 .. LineCount
        BY <2>2
      <4>2. (irq_target' \in 1 .. LineCount') = (irq_target \in 1 .. LineCount)
        BY <2>3, <4>1
      <4>3. QED
        BY <2>3, <3>1, <4>2
    <3>10. QED
      BY <1>2, <3>5, <3>7, <3>8, <3>9, Zenon DEF InPicture
  <2>6. QED
    BY <2>4, <2>5
<1>4. CASE cycle = 1
  <2>1. Mmc5!Notices
    BY <1>4 DEF Mmc5!Notices
  <2>2. cycle' = 2 /\ line' = line
    BY <1>1, <1>4, SMT DEF NextCycle, NextLine
  <2>3. /\ LineCount = line /\ LineCount' = line + 1
        /\ SinceNotice = LineCycles - 1 /\ SinceNotice' = 0
    BY <1>4, <2>2, SMT DEF LineCount, SinceNotice
  <2>4. /\ in_frame' = CountGoesOn /\ need_in_frame' = (~CountGoesOn)
        /\ scanline_counter' = IF CountGoesOn THEN NextCount ELSE 0
        /\ ppu_idle' = IdleCycles /\ irq_target' = irq_target
    BY <2>1, DetectorTurns, Zenon
  <2>5. raised' = IF OnTarget /\ raised < 2 THEN raised + 1 ELSE raised
    BY DetectorTurns, Zenon
  <2>6. ppu_idle' + SinceNotice' >= IdleCycles
    BY <2>3, <2>4, SMT
  <2>7. CASE line = -1
    <3>1. ppu_idle = 0 /\ raised = 0
      BY <2>3, <2>7, Zenon DEF InPicture
    <3>2. ~CountGoesOn /\ ~OnTarget
      BY <3>1, SMT DEF CountGoesOn, Mmc5!FrameEnds, OnTarget
    <3>3. LineCount' = 0
      BY <2>3, <2>7, SMT
    <3>4. scanline_counter' = 0 /\ raised' = 0
      BY <2>4, <2>5, <3>1, <3>2, Zenon
    <3>5. in_frame' = FALSE /\ need_in_frame' = TRUE
      BY <2>4, <3>2, Zenon DEF CountGoesOn
    <3>6. in_frame' = (LineCount' > 0) /\ need_in_frame' = (LineCount' = 0)
      <4>1. (LineCount' > 0) = FALSE /\ (LineCount' = 0) = TRUE
        BY <3>3, SMT
      <4>2. QED
        BY <3>5, <4>1, Zenon
    <3>7. (irq_target' \in 1 .. LineCount') = FALSE /\ LineCount' # -1
      BY <3>3, SMT
    <3>8. QED
      BY <1>2, <2>6, <3>3, <3>4, <3>6, <3>7, Zenon DEF InPicture
  <2>8. CASE line # -1
    <3>1. /\ scanline_counter = line /\ in_frame = (line > 0) /\ need_in_frame = (line = 0)
          /\ raised = IF irq_target \in 1 .. line THEN 1 ELSE 0
          /\ ppu_idle + (LineCycles - 1) >= IdleCycles
      BY <2>3, <2>8, Zenon DEF InPicture
    <3>2. CountGoesOn
      <4>1. line > 0 \/ line = 0
        BY <2>8, SMT
      <4>2. ~SilenceBegins
        BY <3>1, SMT DEF SilenceBegins
      <4>3. QED
        BY <3>1, <4>1, <4>2, Zenon DEF CountGoesOn
    <3>3. NextCount = line + 1
      BY <3>1, SMT DEF NextCount
    <3>4. scanline_counter' = LineCount' /\ LineCount' > 0
      BY <2>3, <2>4, <2>8, <3>2, <3>3, SMT
    <3>5. in_frame' = (LineCount' > 0) /\ need_in_frame' = (LineCount' = 0)
      <4>1. in_frame' = TRUE /\ need_in_frame' = FALSE
        BY <2>4, <3>2, Zenon DEF CountGoesOn
      <4>2. (LineCount' > 0) = TRUE /\ (LineCount' = 0) = FALSE
        BY <3>4, SMT
      <4>3. QED
        BY <4>1, <4>2, Zenon
    <3>6. OnTarget <=> irq_target = line + 1
      BY <2>1, <3>2, <3>3, Zenon DEF OnTarget
    <3>7. raised' = IF irq_target' \in 1 .. LineCount' THEN 1 ELSE 0
      BY <2>3, <2>4, <2>5, <2>8, <3>1, <3>6, SMT DEF Mmc5!Target
    <3>8. LineCount' # -1
      BY <3>4, SMT
    <3>9. QED
      BY <1>2, <2>6, <3>4, <3>5, <3>7, <3>8, Zenon DEF InPicture
  <2>9. QED
    BY <2>7, <2>8
<1>5. QED
  BY <1>3, <1>4

LEMMA Mmc5TickKeeps ==
    ASSUME Mmc5!LinesAssumption, Mmc5Inv, Mmc5!Tick
    PROVE  Mmc5Inv' /\ Mmc5!RaisedOnLine
<1>1. Mmc5!TypeOK /\ Mmc5!FrameEnds /\ Mmc5!TypeOK' /\ Mmc5!FrameEnds'
  BY Mmc5TickTyped, Zenon DEF Mmc5Inv
<1>2. NextCycle /\ NextLine
  BY <1>1, BeamMoves
<1>3. ASSUME line' = Visible /\ cycle' = 0 PROVE SteadyInv'
  <2>1. raised' = 0 /\ steady' = rendering /\ rendering' = rendering
    BY <1>1, <1>3, DetectorTurns, Zenon
  <2>2. (line' - Visible) * LineCycles = 0 /\ line' >= Visible
    BY <1>3, LineAfterLine, SMT DEF Mmc5!LinesAssumption
  <2>3. ppu_idle' + 0 + cycle' <= IdleCycles
    <3>1. ppu_idle' \in 0 .. IdleCycles
      BY <1>1, Zenon DEF Mmc5!TypeOK
    <3>2. IdleCycles \in Nat
      BY DEF Mmc5!LinesAssumption
    <3>3. cycle' = 0
      BY <1>3
    <3>4. ppu_idle' <= IdleCycles /\ ppu_idle' \in Int
      BY <3>1, <3>2, SMT
    <3>5. QED
      BY <3>3, <3>4
  <2>4. InBlank'
    BY <2>1, <2>2, <2>3, Zenon DEF InBlank
  <2>5. QED
    BY <2>1, <2>2, <2>4, Zenon DEF SteadyInv
<1>4. ASSUME ~(line' = Visible /\ cycle' = 0) PROVE SteadyInv'
  <2>1. steady' = steady /\ rendering' = rendering
    BY <1>1, <1>4, DetectorTurns, Zenon
  <2>2. SUFFICES ASSUME steady
                 PROVE  rendering' /\ IF line' >= Visible THEN InBlank' ELSE InPicture'
    BY <2>1, Zenon DEF SteadyInv
  <2>3. rendering /\ IF line >= Visible THEN InBlank ELSE InPicture
    BY <2>2, Zenon DEF Mmc5Inv, SteadyInv
  <2>4. CASE line >= Visible
    BY <1>1, <1>4, <2>1, <2>3, <2>4, BlankStaysSteady, Zenon
  <2>5. CASE ~(line >= Visible)
    <3>1. line < Visible
      BY <1>1, <2>5, SMT DEF Mmc5!LinesAssumption, Mmc5!TypeOK
    <3>2. line' < Visible /\ InPicture'
      BY <1>1, <1>4, <2>3, <2>5, <3>1, PictureStaysSteady, Zenon
    <3>3. ~(line' >= Visible)
      <4>1. line' \in Int /\ Visible \in Int
        BY <1>1, SMT DEF Mmc5!LinesAssumption, Mmc5!TypeOK
      <4>2. QED
        BY <3>2, <4>1, SMT
    <3>4. QED
      BY <2>1, <2>3, <3>2, <3>3, Zenon
  <2>6. QED
    BY <2>4, <2>5
<1>5. ASSUME ~irq_pending, irq_pending', steady PROVE line = irq_target - 1
  <2>1. OnTarget
    BY <1>5, <1>1, DetectorTurns, Zenon
  <2>2. cycle = 1 /\ line < Visible /\ (in_frame \/ need_in_frame) /\ NextCount = irq_target
    BY <2>1, Zenon DEF OnTarget, Mmc5!Notices, CountGoesOn
  <2>3. ~(line >= Visible)
    BY <1>1, <2>2, SMT DEF Mmc5!LinesAssumption, Mmc5!TypeOK
  <2>4. InPicture
    BY <1>5, <2>3, Zenon DEF Mmc5Inv, SteadyInv
  <2>5. LineCount = line
    BY <1>1, <2>2, SMT DEF LineCount, Mmc5!TypeOK
  <2>6. line # -1
    <3>1. ppu_idle > 0
      BY <1>1, <2>2, Zenon DEF Mmc5!FrameEnds
    <3>2. ppu_idle # 0
      BY <3>1, SMT
    <3>3. QED
      BY <2>4, <2>5, <3>2, Zenon DEF InPicture
  <2>7. scanline_counter = line
    BY <2>4, <2>5, <2>6, Zenon DEF InPicture
  <2>8. QED
    BY <1>1, <2>2, <2>7, SMT DEF NextCount, Mmc5!LinesAssumption, Mmc5!TypeOK
<1>6. ASSUME steady, line' = Visible, line # Visible
      PROVE raised = IF irq_target \in 1 .. Visible THEN 1 ELSE 0
  <2>1. line = Visible - 1 /\ cycle = LineCycles - 1
    BY <1>1, <1>2, <1>6, SMT DEF NextLine, Mmc5!LinesAssumption, Mmc5!TypeOK
  <2>2. ~(line >= Visible) /\ LineCount = Visible /\ LineCount # -1
    BY <1>1, <2>1, SMT DEF Mmc5!LinesAssumption, Mmc5!TypeOK, LineCount
  <2>3. InPicture
    BY <1>6, <2>2, Zenon DEF Mmc5Inv, SteadyInv
  <2>4. QED
    BY <2>2, <2>3, Zenon DEF InPicture
<1>7. Mmc5!RaisedOnLine
  BY <1>5, <1>6, Zenon DEF Mmc5!RaisedOnLine
<1>8. SteadyInv'
  BY <1>3, <1>4
<1>9. QED
  BY <1>1, <1>7, <1>8, Zenon DEF Mmc5Inv

LEMMA Mmc5Init ==
    ASSUME Mmc5!LinesAssumption, Mmc5!Init
    PROVE  Mmc5Inv
<1>1. Mmc5!TypeOK
  <2>1. /\ 0 \in Mmc5!Target /\ 0 \in 0 .. CounterMax /\ 0 \in 0 .. IdleCycles
        /\ 0 \in -1 .. Visible + Blank - 1 /\ 0 \in 0 .. LineCycles - 1 /\ 0 \in 0 .. 2
    BY SMT DEF Mmc5!LinesAssumption, Mmc5!Target
  <2>2. QED
    BY <2>1, Zenon DEF Mmc5!Init, Mmc5!TypeOK
<1>2. Mmc5!FrameEnds /\ SteadyInv
  BY Zenon DEF Mmc5!Init, Mmc5!FrameEnds, SteadyInv
<1>3. QED
  BY <1>1, <1>2 DEF Mmc5Inv

LEMMA Mmc5AccessKeeps ==
    ASSUME Mmc5!LinesAssumption, Mmc5Inv, Mmc5!Access \/ UNCHANGED Mmc5!vars
    PROVE  Mmc5Inv' /\ Mmc5!RaisedOnLine
<1>1. Mmc5!TypeOK /\ Mmc5!FrameEnds /\ SteadyInv
  BY Zenon DEF Mmc5Inv
<1> DEFINE AccessEffect ==
      /\ UNCHANGED <<in_frame, need_in_frame, scanline_counter, line, cycle, raised>>
      /\ irq_pending' \in {irq_pending, FALSE}
      /\ steady' = FALSE \/ UNCHANGED <<steady, rendering, irq_target, ppu_idle>>
      /\ ppu_idle' \in {ppu_idle, IdleCycles}
      /\ irq_target' = irq_target \/ irq_target' \in Mmc5!Target
      /\ irq_enable' = irq_enable \/ irq_enable' \in BOOLEAN
      /\ rendering' = rendering \/ rendering' \in BOOLEAN
      /\ steady' = FALSE \/ steady' = steady
<1>2. AccessEffect
  <2>1. ASSUME NEW val \in Mmc5!Target, Mmc5!WriteTarget(val) PROVE AccessEffect
    BY <2>1, Zenon DEF Mmc5!WriteTarget, Mmc5!detector, Mmc5!beam
  <2>2. ASSUME NEW on \in BOOLEAN, Mmc5!WriteEnable(on) PROVE AccessEffect
    BY <2>2, Zenon DEF Mmc5!WriteEnable, Mmc5!detector, Mmc5!beam
  <2>3. ASSUME NEW on \in BOOLEAN, Mmc5!WriteMask(on) PROVE AccessEffect
    BY <2>3, Zenon DEF Mmc5!WriteMask, Mmc5!detector, Mmc5!beam
  <2>4. ASSUME Mmc5!ReadStatus PROVE AccessEffect
    BY <2>4, Zenon DEF Mmc5!ReadStatus, Mmc5!detector, Mmc5!beam
  <2>5. ASSUME Mmc5!ReadData PROVE AccessEffect
    BY <2>5, Zenon DEF Mmc5!ReadData, Mmc5!beam
  <2>6. ASSUME UNCHANGED Mmc5!vars PROVE AccessEffect
    BY <2>6, Zenon DEF Mmc5!vars, Mmc5!detector, Mmc5!beam
  <2>7. QED
    BY <2>1, <2>2, <2>3, <2>4, <2>5, <2>6, Zenon DEF Mmc5!Access
<1>3. irq_target' \in Mmc5!Target /\ irq_enable' \in BOOLEAN /\ irq_pending' \in BOOLEAN
      /\ rendering' \in BOOLEAN /\ steady' \in BOOLEAN
  BY <1>1, <1>2, Zenon DEF Mmc5!TypeOK
<1>4. ppu_idle' \in 0 .. IdleCycles /\ (ppu_idle > 0 => ppu_idle' > 0)
  BY <1>1, <1>2, SMT DEF Mmc5!TypeOK, Mmc5!LinesAssumption
<1>5. Mmc5!TypeOK'
  BY <1>1, <1>2, <1>3, <1>4, Zenon DEF Mmc5!TypeOK
<1>6. Mmc5!FrameEnds'
  BY <1>1, <1>2, <1>4, Zenon DEF Mmc5!FrameEnds
<1>7. SteadyInv'
  <2>1. SUFFICES ASSUME steady' PROVE SteadyInv'
    BY Zenon DEF SteadyInv
  <2>2. UNCHANGED <<steady, rendering, irq_target, ppu_idle>>
    BY <1>2, <2>1, Zenon
  <2>3. QED
    BY <1>1, <1>2, <2>2, Zenon
          DEF SteadyInv, InBlank, InPicture, LineCount, SinceNotice
<1>8. Mmc5!RaisedOnLine
  <2>1. irq_pending' => irq_pending
    BY <1>2, Zenon
  <2>2. line' = line
    BY <1>2, Zenon
  <2>3. QED
    BY <2>1, <2>2, Zenon DEF Mmc5!RaisedOnLine
<1>9. QED
  BY <1>5, <1>6, <1>7, <1>8, Zenon DEF Mmc5Inv

LEMMA Mmc5Keeps ==
    ASSUME Mmc5!LinesAssumption, Mmc5Inv, [Mmc5!Next]_(Mmc5!vars)
    PROVE  Mmc5Inv' /\ Mmc5!RaisedOnLine
BY Mmc5TickKeeps, Mmc5AccessKeeps, Zenon DEF Mmc5!Next

-----------------------------------------------------------------------------
(* Banks: the registers of every board.                                     *)

Byte == 0 .. 255
PageNumber == 0 .. 511
UpperHalf == 128 .. 255 \cup 384 .. 511
ChrNumber == 0 .. 1023

\* Whatever a window computes from them, a board's registers hold these.
Fields ==
    CASE board = "Unrom" -> [bank_select |-> 0 .. Bank!Larger(Bank!Prg16, 1) - 1]
      [] board = "Cnrom" -> [bank_select |-> 0 .. Bank!Larger(chr_pages \div 8, 1) - 1]
      [] board = "Axrom" -> [prg_bank |-> 0 .. 15, mirroring |-> 0 .. 1]
      [] board = "Mmc1"  -> [shift_register |-> 0 .. 31, write_count |-> 0 .. 4, control |-> 0 .. 31,
                             chr_bank_0 |-> 0 .. 31, chr_bank_1 |-> 0 .. 31, prg_bank |-> 0 .. 31]
      [] board = "Mmc2"  -> [prg_bank |-> 0 .. 15, chr_bank_0_l |-> 0 .. 31, chr_bank_0_r |-> 0 .. 31,
                             chr_bank_1_l |-> 0 .. 31, chr_bank_1_r |-> 0 .. 31,
                             latch_0 |-> BOOLEAN, latch_1 |-> BOOLEAN, mirroring |-> 0 .. 1]
      [] board = "Mmc3"  -> [registers |-> [0 .. 7 -> Byte], bank_select |-> 0 .. 7,
                             prg_mode |-> BOOLEAN, chr_mode |-> BOOLEAN, mirroring |-> 0 .. 1]
      [] board = "Vrc6"  -> [prg_bank_16k |-> 0 .. 15, prg_bank_8k |-> 0 .. 31,
                             chr_banks |-> [0 .. 7 -> Byte], mirroring |-> 0 .. 3]
      [] board = "Fme7"  -> [command |-> 0 .. 12, chr_banks |-> [0 .. 7 -> Byte],
                             prg_banks |-> [0 .. 3 -> 0 .. 63], prg_ram_enable |-> BOOLEAN,
                             prg_ram_select |-> BOOLEAN, mirroring |-> 0 .. 3]
      [] board = "Mmc5"  -> [prg_mode |-> 0 .. 3, chr_mode |-> 0 .. 3, prg_ram_bank |-> 0 .. 7,
                             prg_bank_8000 |-> PageNumber, prg_bank_a000 |-> PageNumber,
                             prg_bank_c000 |-> PageNumber, prg_bank_e000 |-> UpperHalf,
                             chr_banks_a |-> [0 .. 7 -> ChrNumber],
                             chr_banks_b |-> [0 .. 3 -> ChrNumber], chr_high |-> 0 .. 3,
                             last_written_chr_set_b |-> BOOLEAN, in_frame |-> BOOLEAN,
                             tall_sprites_shown |-> BOOLEAN,
                             exram_mode |-> 0 .. 3, exram_bank |-> 0 .. 63]

\* r has the fields of t, and in each a value that t allows.
Typed(r, t) ==
    /\ r = [f \in DOMAIN t |-> r[f]]
    /\ \A f \in DOMAIN t : r[f] \in t[f]

SizesInv ==
    /\ board \in Bank!Boards
    /\ prg_pages \in 0 .. 510 /\ (board # "Mmc5" => prg_pages % 2 = 0)
    /\ chr_pages \in 0 .. 2040 /\ chr_pages % 8 = 0

RegInv == IF board = "Nrom" THEN DOMAIN reg = {} ELSE Typed(reg, Fields)

\* A state holds values that the fields allow.
SlotInv ==
    slot # <<>> /\ board # "Nrom" =>
        /\ DOMAIN slot = IF board = "Mmc5" THEN Bank!SavedByMmc5 ELSE DOMAIN Fields
        /\ \A f \in DOMAIN slot : slot[f] \in Fields[f]

LEMMA TypedExcept ==
    ASSUME NEW r, NEW t, NEW f \in DOMAIN t, NEW v \in t[f], Typed(r, t)
    PROVE  Typed([r EXCEPT ![f] = v], t)
  BY DEF Typed

LEMMA TypedMerge ==
    ASSUME NEW r, NEW s, NEW t, Typed(r, t), \A f \in DOMAIN s : s[f] \in t[f]
    PROVE  Typed([f \in DOMAIN r |-> IF f \in DOMAIN s THEN s[f] ELSE r[f]], t)
  BY DEF Typed

LEMMA PageNumbers ==
    ASSUME SizesInv
    PROVE  /\ prg_pages \in Nat /\ Bank!Prg16 \in Nat
           /\ board # "Mmc5" => prg_pages = 2 * Bank!Prg16
           /\ chr_pages \in Nat /\ chr_pages = 4 * Bank!Chr4 /\ chr_pages = 8 * (chr_pages \div 8)
           /\ chr_pages # 0 => Bank!Chr4 \in Nat \ {0} /\ chr_pages \div 8 \in Nat \ {0}
           /\ Bank!Larger(Bank!Prg16, 1) \in Nat \ {0}
           /\ Bank!Larger(chr_pages \div 8, 1) \in Nat \ {0}
  BY DEF SizesInv, Bank!Prg16, Bank!Chr4, Bank!Larger

LEMMA HighBit ==
    ASSUME NEW n \in 0 .. 511
    PROVE  /\ Bank!Bit(n, 7) <=> n \in UpperHalf
           /\ Bank!WithBit7(n) \in UpperHalf /\ Bank!WithBit7(n) \in PageNumber
<1>1. Bank!Place(7) = 128
  BY DEF Bank!Place
<1>2. Bank!Bit(n, 7) <=> (n \div 128) % 2 = 1
  BY <1>1 DEF Bank!Bit
<1>3. Bank!Bit(n, 7) <=> n \in UpperHalf
  BY <1>2 DEF UpperHalf
<1>4. QED
  BY <1>3 DEF Bank!WithBit7, UpperHalf, PageNumber

LEMMA RegInit ==
    ASSUME NEW b, NEW prg, NEW chr, Bank!Start(b, prg, chr), SizesInv
    PROVE  RegInv
<1>1. SizesInv
  OBVIOUS
<1>2. reg = Bank!NewReg(board, prg_pages) /\ board \in Bank!Boards
  BY Zenon DEF Bank!Start, SizesInv
<1>3. CASE board = "Nrom"
  <2>1. reg = <<>>
    BY <1>2, <1>3 DEF Bank!NewReg
  <2>2. DOMAIN reg = {}
    BY <2>1
  <2>3. QED
    BY <1>3, <2>2 DEF RegInv
<1>4. CASE board = "Unrom"
  <2>1. reg = Bank!NewLatch
    BY <1>2, <1>4 DEF Bank!NewReg
  <2>2. Fields = [bank_select |-> 0 .. Bank!Larger(Bank!Prg16, 1) - 1]
    BY <1>4 DEF Fields
  <2>3. Bank!Larger(Bank!Prg16, 1) \in Nat \ {0}
    BY <1>1, PageNumbers
  <2>4. Typed(reg, Fields)
    BY <2>1, <2>2, <2>3 DEF Typed, Bank!NewLatch
  <2>5. QED
    BY <1>4, <2>4 DEF RegInv
<1>5. CASE board = "Cnrom"
  <2>1. reg = Bank!NewLatch
    BY <1>2, <1>5 DEF Bank!NewReg
  <2>2. Fields = [bank_select |-> 0 .. Bank!Larger(chr_pages \div 8, 1) - 1]
    BY <1>5 DEF Fields
  <2>3. Bank!Larger(chr_pages \div 8, 1) \in Nat \ {0}
    BY <1>1, PageNumbers
  <2>4. Typed(reg, Fields)
    BY <2>1, <2>2, <2>3 DEF Typed, Bank!NewLatch
  <2>5. QED
    BY <1>5, <2>4 DEF RegInv
<1>6. CASE board = "Axrom"
  <2>1. reg = Bank!NewAxrom
    BY <1>2, <1>6 DEF Bank!NewReg
  <2>2. Fields = [prg_bank |-> 0 .. 15, mirroring |-> 0 .. 1]
    BY <1>6 DEF Fields
  <2>3. Typed(reg, Fields)
    BY <2>1, <2>2 DEF Typed, Bank!NewAxrom
  <2>4. QED
    BY <1>6, <2>3 DEF RegInv
<1>7. CASE board = "Mmc1"
  <2>1. reg = Bank!NewMmc1
    BY <1>2, <1>7 DEF Bank!NewReg
  <2>2. Fields = [shift_register |-> 0 .. 31, write_count |-> 0 .. 4, control |-> 0 .. 31,
                   chr_bank_0 |-> 0 .. 31, chr_bank_1 |-> 0 .. 31, prg_bank |-> 0 .. 31]
    BY <1>7 DEF Fields
  <2>3. Typed(reg, Fields)
    BY <2>1, <2>2 DEF Typed, Bank!NewMmc1
  <2>4. QED
    BY <1>7, <2>3 DEF RegInv
<1>8. CASE board = "Mmc2"
  <2>1. reg = Bank!NewMmc2
    BY <1>2, <1>8 DEF Bank!NewReg
  <2>2. Fields = [prg_bank |-> 0 .. 15, chr_bank_0_l |-> 0 .. 31, chr_bank_0_r |-> 0 .. 31,
                   chr_bank_1_l |-> 0 .. 31, chr_bank_1_r |-> 0 .. 31,
                   latch_0 |-> BOOLEAN, latch_1 |-> BOOLEAN, mirroring |-> 0 .. 1]
    BY <1>8 DEF Fields
  <2>3. reg = [f \in DOMAIN Fields |-> reg[f]]
    BY <2>1, <2>2 DEF Bank!NewMmc2
  <2>4. DOMAIN Fields = {"prg_bank", "chr_bank_0_l", "chr_bank_0_r", "chr_bank_1_l",
                         "chr_bank_1_r", "latch_0", "latch_1", "mirroring"}
    BY <2>2
  <2>5. /\ reg.prg_bank \in Fields.prg_bank /\ reg.chr_bank_0_l \in Fields.chr_bank_0_l
        /\ reg.chr_bank_0_r \in Fields.chr_bank_0_r /\ reg.chr_bank_1_l \in Fields.chr_bank_1_l
        /\ reg.chr_bank_1_r \in Fields.chr_bank_1_r /\ reg.mirroring \in Fields.mirroring
    BY <2>1, <2>2 DEF Bank!NewMmc2
  <2>6. /\ reg.latch_0 \in Fields.latch_0 /\ reg.latch_1 \in Fields.latch_1
    <3>1. /\ Fields.latch_0 = BOOLEAN
          /\ Fields.latch_1 = BOOLEAN
      BY <2>2
    <3>2. /\ reg.latch_0 = TRUE
          /\ reg.latch_1 = TRUE
      BY <2>1 DEF Bank!NewMmc2
    <3>3. QED
      BY <3>1, <3>2, Zenon
  <2>7. Typed(reg, Fields)
    BY <2>3, <2>4, <2>5, <2>6, Zenon DEF Typed
  <2>8. QED
    BY <1>8, <2>7 DEF RegInv
<1>9. CASE board = "Mmc3"
  <2>1. reg = Bank!NewMmc3
    BY <1>2, <1>9 DEF Bank!NewReg
  <2>2. Fields = [registers |-> [0 .. 7 -> Byte], bank_select |-> 0 .. 7,
                   prg_mode |-> BOOLEAN, chr_mode |-> BOOLEAN, mirroring |-> 0 .. 1]
    BY <1>9 DEF Fields
  <2>3. reg = [f \in DOMAIN Fields |-> reg[f]]
    BY <2>1, <2>2 DEF Bank!NewMmc3
  <2>4. DOMAIN Fields = {"registers", "bank_select", "prg_mode", "chr_mode",
                         "mirroring"}
    BY <2>2
  <2>5. /\ reg.registers \in Fields.registers /\ reg.bank_select \in Fields.bank_select
        /\ reg.mirroring \in Fields.mirroring
    BY <2>1, <2>2 DEF Bank!NewMmc3, Bank!Zeros, Byte
  <2>6. /\ reg.prg_mode \in Fields.prg_mode /\ reg.chr_mode \in Fields.chr_mode
    <3>1. /\ Fields.prg_mode = BOOLEAN
          /\ Fields.chr_mode = BOOLEAN
      BY <2>2
    <3>2. /\ reg.prg_mode = FALSE
          /\ reg.chr_mode = FALSE
      BY <2>1 DEF Bank!NewMmc3
    <3>3. QED
      BY <3>1, <3>2, Zenon
  <2>7. Typed(reg, Fields)
    BY <2>3, <2>4, <2>5, <2>6, Zenon DEF Typed
  <2>8. QED
    BY <1>9, <2>7 DEF RegInv
<1>10. CASE board = "Vrc6"
  <2>1. reg = Bank!NewVrc6
    BY <1>2, <1>10 DEF Bank!NewReg
  <2>2. Fields = [prg_bank_16k |-> 0 .. 15, prg_bank_8k |-> 0 .. 31,
                   chr_banks |-> [0 .. 7 -> Byte], mirroring |-> 0 .. 3]
    BY <1>10 DEF Fields
  <2>3. Typed(reg, Fields)
    BY <2>1, <2>2 DEF Typed, Bank!NewVrc6, Bank!Zeros, Byte
  <2>4. QED
    BY <1>10, <2>3 DEF RegInv
<1>11. CASE board = "Fme7"
  <2>1. reg = Bank!NewFme7
    BY <1>2, <1>11 DEF Bank!NewReg
  <2>2. Fields = [command |-> 0 .. 12, chr_banks |-> [0 .. 7 -> Byte],
                   prg_banks |-> [0 .. 3 -> 0 .. 63], prg_ram_enable |-> BOOLEAN,
                   prg_ram_select |-> BOOLEAN, mirroring |-> 0 .. 3]
    BY <1>11 DEF Fields
  <2>3. reg = [f \in DOMAIN Fields |-> reg[f]]
    BY <2>1, <2>2 DEF Bank!NewFme7
  <2>4. DOMAIN Fields = {"command", "chr_banks", "prg_banks", "prg_ram_enable",
                         "prg_ram_select", "mirroring"}
    BY <2>2
  <2>5. /\ reg.command \in Fields.command /\ reg.chr_banks \in Fields.chr_banks
        /\ reg.prg_banks \in Fields.prg_banks /\ reg.mirroring \in Fields.mirroring
    BY <2>1, <2>2 DEF Bank!NewFme7, Bank!Zeros, Bank!Minus, Byte
  <2>6. /\ reg.prg_ram_enable \in Fields.prg_ram_enable /\ reg.prg_ram_select \in Fields.prg_ram_select
    <3>1. /\ Fields.prg_ram_enable = BOOLEAN
          /\ Fields.prg_ram_select = BOOLEAN
      BY <2>2
    <3>2. /\ reg.prg_ram_enable = FALSE
          /\ reg.prg_ram_select = FALSE
      BY <2>1 DEF Bank!NewFme7
    <3>3. QED
      BY <3>1, <3>2, Zenon
  <2>7. Typed(reg, Fields)
    BY <2>3, <2>4, <2>5, <2>6, Zenon DEF Typed
  <2>8. QED
    BY <1>11, <2>7 DEF RegInv
<1>12. CASE board = "Mmc5"
  <2>1. reg = Bank!NewMmc5(prg_pages)
    BY <1>2, <1>12 DEF Bank!NewReg
  <2>2. Fields = [prg_mode |-> 0 .. 3, chr_mode |-> 0 .. 3, prg_ram_bank |-> 0 .. 7,
                   prg_bank_8000 |-> PageNumber, prg_bank_a000 |-> PageNumber,
                   prg_bank_c000 |-> PageNumber, prg_bank_e000 |-> UpperHalf,
                   chr_banks_a |-> [0 .. 7 -> ChrNumber],
                   chr_banks_b |-> [0 .. 3 -> ChrNumber], chr_high |-> 0 .. 3,
                   last_written_chr_set_b |-> BOOLEAN, in_frame |-> BOOLEAN,
                   tall_sprites_shown |-> BOOLEAN,
                   exram_mode |-> 0 .. 3, exram_bank |-> 0 .. 63]
    BY <1>12 DEF Fields
  <2>3. /\ Bank!WithBit7(Bank!Minus(prg_pages, 1)) \in UpperHalf
        /\ Bank!WithBit7(Bank!Minus(prg_pages, 1)) \in PageNumber
    <3>1. Bank!Minus(prg_pages, 1) \in 0 .. 509
      BY <1>1 DEF SizesInv, Bank!Minus
    <3>2. QED
      BY <3>1, HighBit
  <2>4. reg = [f \in DOMAIN Fields |-> reg[f]]
    BY <2>1, <2>2 DEF Bank!NewMmc5
  <2>5. DOMAIN Fields = {"prg_mode", "chr_mode", "prg_ram_bank", "prg_bank_8000",
                         "prg_bank_a000", "prg_bank_c000", "prg_bank_e000",
                         "chr_banks_a", "chr_banks_b", "chr_high",
                         "last_written_chr_set_b", "in_frame", "tall_sprites_shown",
                         "exram_mode", "exram_bank"}
    BY <2>2, SMTT(30)
  <2>6. /\ reg.prg_mode \in Fields.prg_mode /\ reg.chr_mode \in Fields.chr_mode
        /\ reg.prg_ram_bank \in Fields.prg_ram_bank /\ reg.prg_bank_8000 \in Fields.prg_bank_8000
        /\ reg.prg_bank_a000 \in Fields.prg_bank_a000 /\ reg.prg_bank_c000 \in Fields.prg_bank_c000
        /\ reg.prg_bank_e000 \in Fields.prg_bank_e000 /\ reg.chr_banks_a \in Fields.chr_banks_a
        /\ reg.chr_banks_b \in Fields.chr_banks_b /\ reg.chr_high \in Fields.chr_high
        /\ reg.exram_mode \in Fields.exram_mode /\ reg.exram_bank \in Fields.exram_bank
    BY <2>1, <2>2, <2>3 DEF Bank!NewMmc5, Bank!Zeros, ChrNumber
  <2>7. /\ reg.last_written_chr_set_b \in Fields.last_written_chr_set_b /\ reg.in_frame \in Fields.in_frame
        /\ reg.tall_sprites_shown \in Fields.tall_sprites_shown
    <3>1. /\ Fields.last_written_chr_set_b = BOOLEAN
          /\ Fields.in_frame = BOOLEAN
          /\ Fields.tall_sprites_shown = BOOLEAN
      BY <2>2
    <3>2. /\ reg.last_written_chr_set_b = FALSE
          /\ reg.in_frame = FALSE
          /\ reg.tall_sprites_shown = FALSE
      BY <2>1 DEF Bank!NewMmc5
    <3>3. QED
      BY <3>1, <3>2, Zenon
  <2>8. Typed(reg, Fields)
    BY <2>4, <2>5, <2>6, <2>7, Zenon DEF Typed
  <2>9. QED
    BY <1>12, <2>8 DEF RegInv
<1>13. QED
  BY <1>2, <1>3, <1>4, <1>5, <1>6, <1>7, <1>8, <1>9, <1>10, <1>11, <1>12
     DEF Bank!Boards

(* What the program writes stays in its field.                              *)

LEMMA FieldsFixed ==
    ASSUME UNCHANGED <<board, prg_pages, chr_pages>>
    PROVE  Fields' = Fields
  BY DEF Fields, Bank!Prg16, Bank!Larger

LEMMA OneField ==
    ASSUME RegInv, board # "Nrom", NEW f \in DOMAIN Fields, NEW v \in Fields[f]
    PROVE  Typed([reg EXCEPT ![f] = v], Fields)
  BY TypedExcept, Zenon DEF RegInv

LEMMA BecomeKeeps ==
    ASSUME NEW r, Bank!Become(r), board # "Nrom", Typed(r, Fields)
    PROVE  RegInv'
<1>1. UNCHANGED <<board, prg_pages, chr_pages>> /\ reg' = r
  BY DEF Bank!Become
<1>2. QED
  BY <1>1, FieldsFixed DEF RegInv

LEMMA ByteValues ==
    ASSUME NEW val \in Values
    PROVE  val \in Byte /\ val \in Nat
  BY BoardsAssumption DEF Bank!SizesAssumption, Byte

LEMMA LatchBanks ==
    ASSUME SizesInv, RegInv, NEW val \in Values, Bank!WriteUnrom(val) \/ Bank!WriteCnrom(val)
    PROVE  RegInv'
<1>1. CASE Bank!WriteUnrom(val)
  <2>1. PICK v : v = IF Bank!Prg16 = 0 THEN reg.bank_select ELSE val % Bank!Prg16
    OBVIOUS
  <2>2. board = "Unrom" /\ Bank!Become([reg EXCEPT !.bank_select = v])
    BY <1>1, <2>1 DEF Bank!WriteUnrom, Bank!Plain
  <2>3. "bank_select" \in DOMAIN Fields
        /\ Fields["bank_select"] = 0 .. Bank!Larger(Bank!Prg16, 1) - 1
    BY <2>2 DEF Fields
  <2>4. v \in Fields["bank_select"]
    <3>1. reg.bank_select \in Fields["bank_select"]
      BY <2>2, <2>3 DEF RegInv, Typed
    <3>2. Bank!Prg16 # 0 => val % Bank!Prg16 \in 0 .. Bank!Larger(Bank!Prg16, 1) - 1
      BY PageNumbers, ByteValues DEF Bank!Larger
    <3>3. QED
      BY <2>1, <2>3, <3>1, <3>2, Zenon
  <2>5. Typed([reg EXCEPT !["bank_select"] = v], Fields)
    BY <2>2, <2>3, <2>4, OneField, Zenon
  <2>6. QED
    BY <2>2, <2>5, BecomeKeeps
<1>2. CASE Bank!WriteCnrom(val)
  <2> DEFINE n == Bank!Larger(chr_pages \div 8, 1)
  <2>1. board = "Cnrom" /\ Bank!Become([reg EXCEPT !.bank_select = val % n])
    BY <1>2 DEF Bank!WriteCnrom, Bank!Plain
  <2>2. n \in Nat \ {0}
    BY PageNumbers
  <2>3. "bank_select" \in DOMAIN Fields /\ Fields["bank_select"] = 0 .. n - 1
    BY <2>1 DEF Fields
  <2> HIDE DEF n
  <2>4. val % n \in 0 .. n - 1
    BY <2>2, ByteValues
  <2>5. Typed([reg EXCEPT !["bank_select"] = val % n], Fields)
    BY <2>1, <2>3, <2>4, OneField, Zenon
  <2>6. QED
    BY <2>1, <2>5, BecomeKeeps
<1>3. QED
  BY <1>1, <1>2

LEMMA AxromBanks ==
    ASSUME SizesInv, RegInv, NEW val \in Values, Bank!WriteAxrom(val)
    PROVE  RegInv'
<1>1. board = "Axrom" /\ UNCHANGED <<board, prg_pages, chr_pages>>
      /\ reg' = [reg EXCEPT !.prg_bank = val % (IF prg_pages > 32 THEN 16 ELSE 8),
                            !.mirroring = IF Bank!Bit(val, 4) THEN 1 ELSE 0]
  BY DEF Bank!WriteAxrom, Bank!Plain, Bank!Become
<1>2. Fields = [prg_bank |-> 0 .. 15, mirroring |-> 0 .. 1] /\ Fields' = Fields
  BY <1>1 DEF Fields
<1>3. Typed(reg, Fields)
  BY <1>1 DEF RegInv
<1>4. val \in 0 .. 255
  BY BoardsAssumption DEF Bank!SizesAssumption
<1>5. "prg_bank" \in DOMAIN Fields /\ val % (IF prg_pages > 32 THEN 16 ELSE 8) \in Fields["prg_bank"]
  BY <1>2, <1>4
<1>6. "mirroring" \in DOMAIN Fields /\ (IF Bank!Bit(val, 4) THEN 1 ELSE 0) \in Fields["mirroring"]
  BY <1>2
<1>7. Typed(reg', Fields)
  BY <1>1, <1>3, <1>5, <1>6, TypedExcept
<1>8. QED
  BY <1>1, <1>2, <1>7 DEF RegInv

LEMMA Mmc2Banks ==
    ASSUME RegInv, board = "Mmc2",
           (\E val \in Values : Bank!WriteMmc2(val)) \/ Bank!ChrReadMmc2
    PROVE  RegInv'
<1>1. /\ DOMAIN Fields = {"prg_bank", "chr_bank_0_l", "chr_bank_0_r", "chr_bank_1_l",
                         "chr_bank_1_r", "latch_0", "latch_1", "mirroring"}
      /\ Fields.prg_bank = 0 .. 15 /\ Fields.mirroring = 0 .. 1
      /\ \A half \in {"chr_bank_0_l", "chr_bank_0_r", "chr_bank_1_l", "chr_bank_1_r"} :
            Fields[half] = 0 .. 31
      /\ Fields.latch_0 = BOOLEAN /\ Fields.latch_1 = BOOLEAN
  BY DEF Fields
<1>2. ASSUME NEW val \in Values, Bank!WriteMmc2(val) PROVE RegInv'
  <2>1. val % 16 \in 0 .. 15 /\ val % 32 \in 0 .. 31 /\ val % 2 \in 0 .. 1
    BY ByteValues
  <2>2. Typed([reg EXCEPT !["prg_bank"] = val % 16], Fields)
    BY <1>1, <2>1, OneField
  <2>3. \A half \in {"chr_bank_0_l", "chr_bank_0_r", "chr_bank_1_l", "chr_bank_1_r"} :
          Typed([reg EXCEPT ![half] = val % 32], Fields)
    BY <1>1, <2>1, OneField
  <2>4. Typed([reg EXCEPT !["mirroring"] = val % 2], Fields)
    BY <1>1, <2>1, OneField
  <2>5. QED
    BY <1>2, <2>2, <2>3, <2>4, BecomeKeeps DEF Bank!WriteMmc2, Bank!Plain
<1>3. ASSUME Bank!ChrReadMmc2 PROVE RegInv'
  <2>1. \A right \in BOOLEAN : /\ Typed([reg EXCEPT !["latch_0"] = right], Fields)
                               /\ Typed([reg EXCEPT !["latch_1"] = right], Fields)
    BY <1>1, OneField
  <2>2. QED
    BY <1>3, <2>1, BecomeKeeps DEF Bank!ChrReadMmc2, Bank!Plain
<1>4. QED
  BY <1>2, <1>3

Bits    == {0, 1}
Weights == {1, 2, 4, 8, 16}

\* The power of two that belongs to a bit of the shift register.
LEMMA Places ==
    /\ Bank!Place(0) = 1 /\ Bank!Place(1) = 2 /\ Bank!Place(2) = 4 /\ Bank!Place(3) = 8
    /\ Bank!Place(4) = 16
  BY DEF Bank!Place

LEMMA BitInPlace ==
    ASSUME NEW s \in 0 .. 31, NEW bit \in Bits, NEW n \in Weights,
           NEW old, (s \div n) % 2 = 1 => old = n, (s \div n) % 2 # 1 => old = 0
    PROVE  (s - old) + bit * n \in 0 .. 31 /\ ((s - old) + bit * n) % (2 * n) = (s % n) + bit * n
<1> DEFINE T(k) == s - (IF (s \div k) % 2 = 1 THEN k ELSE 0) + bit * k
<1>1. T(1) \in 0 .. 31 /\ T(1) % 2 = (s % 1) + bit * 1
  BY DEF Bits
<1>2. T(2) \in 0 .. 31 /\ T(2) % 4 = (s % 2) + bit * 2
  BY DEF Bits
<1>3. T(4) \in 0 .. 31 /\ T(4) % 8 = (s % 4) + bit * 4
  BY DEF Bits
<1>4. T(8) \in 0 .. 31 /\ T(8) % 16 = (s % 8) + bit * 8
  BY DEF Bits
<1>5. T(16) \in 0 .. 31 /\ T(16) % 32 = (s % 16) + bit * 16
  BY DEF Bits
<1>6. 2 * 1 = 2 /\ 2 * 2 = 4 /\ 2 * 4 = 8 /\ 2 * 8 = 16 /\ 2 * 16 = 32
  OBVIOUS
<1> HIDE DEF T
<1>7. \A k \in Weights : T(k) \in 0 .. 31 /\ T(k) % (2 * k) = (s % k) + bit * k
  BY <1>1, <1>2, <1>3, <1>4, <1>5, <1>6 DEF Weights
<1>8. QED
  <2>1. T(n) = (s - old) + bit * n
    BY DEF T, Weights
  <2>2. QED
    BY <1>7, <2>1, Zenon

\* A bit takes its place, and leaves those below alone.
LEMMA ShiftedBit ==
    ASSUME reg.shift_register \in 0 .. 31, reg.write_count \in 0 .. 4, NEW bit \in Bits,
           NEW place, place = Bank!Place(reg.write_count)
    PROVE  /\ place \in Weights
           /\ Bank!Shifted(bit) \in 0 .. 31
           /\ Bank!Shifted(bit) % (2 * place) = (reg.shift_register % place) + bit * place
<1>1. place \in Weights
  BY Places DEF Weights
<1>2. PICK s \in 0 .. 31 : s = reg.shift_register
  OBVIOUS
<1>3. PICK old : old = IF (s \div place) % 2 = 1 THEN place ELSE 0
  OBVIOUS
<1>4. Bank!Shifted(bit) = (s - old) + bit * place
  BY <1>2, <1>3, Zenon DEF Bank!Shifted, Bank!Bit
<1>5. ((s \div place) % 2 = 1 => old = place) /\ ((s \div place) % 2 # 1 => old = 0)
  BY <1>3, Zenon
<1>6. /\ (s - old) + bit * place \in 0 .. 31
      /\ ((s - old) + bit * place) % (2 * place) = (s % place) + bit * place
  BY <1>1, <1>2, <1>5, BitInPlace, ZenonT(60)
<1>7. QED
  BY <1>1, <1>2, <1>4, <1>6, Zenon

LEMMA Mmc1Fields ==
    ASSUME board = "Mmc1"
    PROVE  /\ DOMAIN Fields = {"shift_register", "write_count", "control",
                               "chr_bank_0", "chr_bank_1", "prg_bank"}
           /\ Fields.write_count = 0 .. 4
           /\ \A f \in {"shift_register", "control", "chr_bank_0", "chr_bank_1", "prg_bank"} :
                 Fields[f] = 0 .. 31
  BY DEF Fields

LEMMA Mmc1Banks ==
    ASSUME RegInv, board = "Mmc1", Bank!WriteMmc1
    PROVE  RegInv'
<1>1. /\ DOMAIN Fields = {"shift_register", "write_count", "control",
                          "chr_bank_0", "chr_bank_1", "prg_bank"}
      /\ Fields.write_count = 0 .. 4
      /\ \A f \in {"shift_register", "control", "chr_bank_0", "chr_bank_1", "prg_bank"} :
            Fields[f] = 0 .. 31
  BY Mmc1Fields
<1>2. Typed(reg, Fields)
  BY DEF RegInv
<1>3. reg.shift_register \in 0 .. 31 /\ reg.write_count \in 0 .. 4 /\ reg.control \in 0 .. 31
  BY <1>1, <1>2 DEF Typed
<1>4. "write_count" \in DOMAIN Fields /\ 0 \in Fields["write_count"]
  BY <1>1
<1>5. CASE Bank!ResetMmc1
  <2>1. reg.control - ((reg.control \div 4) % 4) * 4 + 12 \in 0 .. 31
    BY <1>3
  <2>2. Typed([reg EXCEPT !.shift_register = 16, !.write_count = 0,
                          !.control = @ - ((@ \div 4) % 4) * 4 + 12], Fields)
    <3>1. Typed([reg EXCEPT !.shift_register = 16], Fields)
      BY <1>1, <1>2, TypedExcept
    <3>2. Typed([reg EXCEPT !.shift_register = 16, !.write_count = 0], Fields)
      BY <1>4, <3>1, TypedExcept, Zenon
    <3>3. PICK r : r = [reg EXCEPT !.shift_register = 16, !.write_count = 0]
      OBVIOUS
    <3>4. r.control = reg.control /\ Typed(r, Fields)
      BY <1>1, <1>2, <3>2, <3>3 DEF Typed
    <3>5. Typed([r EXCEPT !.control = @ - ((@ \div 4) % 4) * 4 + 12], Fields)
      BY <1>1, <2>1, <3>4, TypedExcept
    <3>6. QED
      BY <3>3, <3>5, Zenon
  <2>3. QED
    BY <1>5, <2>2, BecomeKeeps DEF Bank!ResetMmc1
<1>6. ASSUME NEW bit \in {0, 1}, Bank!ShiftMmc1(bit) PROVE RegInv'
  <2>1. Bank!Shifted(bit) \in 0 .. 31 /\ reg.write_count + 1 \in 0 .. 4
    <3>1. Bank!Shifted(bit) \in 0 .. 31
      BY <1>3, ShiftedBit, Zenon DEF Bits
    <3>2. QED
      BY <1>3, <1>6, <3>1 DEF Bank!ShiftMmc1
  <2>2. Typed([reg EXCEPT !.shift_register = Bank!Shifted(bit)], Fields)
    BY <1>1, <1>2, <2>1, TypedExcept
  <2>3. Typed([reg EXCEPT !.shift_register = Bank!Shifted(bit), !.write_count = @ + 1], Fields)
    BY <1>1, <2>1, <2>2, TypedExcept
  <2>4. QED
    BY <1>6, <2>3, BecomeKeeps DEF Bank!ShiftMmc1
<1>7. ASSUME NEW bit \in {0, 1}, NEW g \in {"control", "chr_bank_0", "chr_bank_1", "prg_bank"},
             Bank!FillMmc1(bit, g)
      PROVE  RegInv'
  <2>1. Bank!Shifted(bit) % 32 \in 0 .. 31
    BY <1>3, ShiftedBit DEF Bits
  <2>2. PICK r : r = [reg EXCEPT ![g] = Bank!Shifted(bit) % 32]
    OBVIOUS
  <2>3. Typed(r, Fields)
    BY <1>1, <1>2, <2>1, <2>2, TypedExcept
  <2>4. Typed([r EXCEPT !.shift_register = 0], Fields)
    BY <1>1, <2>3, TypedExcept
  <2>5. Typed([r EXCEPT !.shift_register = 0, !.write_count = 0], Fields)
    BY <1>4, <2>4, TypedExcept, Zenon
  <2>6. Typed([reg EXCEPT ![g] = Bank!Shifted(bit) % 32, !.shift_register = 0, !.write_count = 0],
              Fields)
    BY <2>2, <2>5, Zenon
  <2>7. QED
    BY <1>7, <2>6, BecomeKeeps DEF Bank!FillMmc1
<1>8. QED
  BY <1>5, <1>6, <1>7, Zenon DEF Bank!WriteMmc1

LEMMA Mmc3Banks ==
    ASSUME RegInv, board = "Mmc3", NEW val \in Values, Bank!WriteMmc3(val)
    PROVE  RegInv'
<1>1. /\ DOMAIN Fields = {"registers", "bank_select", "prg_mode", "chr_mode", "mirroring"}
      /\ Fields.registers = [0 .. 7 -> Byte] /\ Fields.bank_select = 0 .. 7
      /\ Fields.prg_mode = BOOLEAN /\ Fields.chr_mode = BOOLEAN /\ Fields.mirroring = 0 .. 1
  BY DEF Fields
<1>2. Typed(reg, Fields)
  BY DEF RegInv
<1>3. ASSUME NEW prg \in BOOLEAN, NEW chr \in BOOLEAN, NEW i \in ChrIndexes
      PROVE  Typed([reg EXCEPT !.bank_select = i, !.prg_mode = prg, !.chr_mode = chr], Fields)
  <2>1. i \in 0 .. 7
    BY BoardsAssumption DEF Bank!SizesAssumption
  <2>2. Typed([reg EXCEPT !.bank_select = i], Fields)
    BY <1>1, <1>2, <2>1, TypedExcept
  <2>3. Typed([reg EXCEPT !.bank_select = i, !.prg_mode = prg], Fields)
    BY <1>1, <2>2, TypedExcept
  <2>4. QED
    BY <1>1, <2>3, TypedExcept
<1>4. Typed([reg EXCEPT !.registers[reg.bank_select] = val], Fields)
  <2>1. reg.registers \in [0 .. 7 -> Byte]
    BY <1>1, <1>2 DEF Typed
  <2>2. [reg.registers EXCEPT ![reg.bank_select] = val] \in [0 .. 7 -> Byte]
    BY <2>1, ByteValues
  <2>3. QED
    BY <1>1, <1>2, <2>2, TypedExcept
<1>5. Typed([reg EXCEPT !.mirroring = val % 2], Fields)
  <2>1. val % 2 \in 0 .. 1
    BY ByteValues
  <2>2. QED
    BY <1>1, <1>2, <2>1, TypedExcept
<1>6. QED
  BY <1>3, <1>4, <1>5, BecomeKeeps DEF Bank!WriteMmc3, Bank!Plain

LEMMA Vrc6Banks ==
    ASSUME RegInv, board = "Vrc6", NEW val \in Values, Bank!WriteVrc6(val)
    PROVE  RegInv'
<1>1. /\ DOMAIN Fields = {"prg_bank_16k", "prg_bank_8k", "chr_banks", "mirroring"}
      /\ Fields.prg_bank_16k = 0 .. 15 /\ Fields.prg_bank_8k = 0 .. 31
      /\ Fields.chr_banks = [0 .. 7 -> Byte] /\ Fields.mirroring = 0 .. 3
  BY DEF Fields
<1>2. Typed(reg, Fields)
  BY DEF RegInv
<1>3. val % 16 \in 0 .. 15 /\ val % 32 \in 0 .. 31 /\ (val \div 4) % 4 \in 0 .. 3
  BY ByteValues
<1>4. /\ Typed([reg EXCEPT !.prg_bank_16k = val % 16], Fields)
      /\ Typed([reg EXCEPT !.prg_bank_8k = val % 32], Fields)
      /\ Typed([reg EXCEPT !.mirroring = (val \div 4) % 4], Fields)
  BY <1>1, <1>2, <1>3, TypedExcept
<1>5. \A i \in ChrIndexes : Typed([reg EXCEPT !.chr_banks[i] = val], Fields)
  <2>1. reg.chr_banks \in [0 .. 7 -> Byte]
    BY <1>1, <1>2 DEF Typed
  <2>2. \A i \in ChrIndexes : [reg.chr_banks EXCEPT ![i] = val] \in [0 .. 7 -> Byte]
    BY <2>1, ByteValues
  <2>3. QED
    BY <1>1, <1>2, <2>2, TypedExcept
<1>6. QED
  BY <1>4, <1>5, BecomeKeeps DEF Bank!WriteVrc6, Bank!Plain

LEMMA Fme7Banks ==
    ASSUME RegInv, board = "Fme7", NEW val \in Values, Bank!WriteFme7(val)
    PROVE  RegInv'
<1>1. /\ DOMAIN Fields = {"command", "chr_banks", "prg_banks", "prg_ram_enable",
                          "prg_ram_select", "mirroring"}
      /\ Fields.command = 0 .. 12 /\ Fields.chr_banks = [0 .. 7 -> Byte]
      /\ Fields.prg_banks = [0 .. 3 -> 0 .. 63] /\ Fields.mirroring = 0 .. 3
      /\ Fields.prg_ram_enable = BOOLEAN /\ Fields.prg_ram_select = BOOLEAN
  BY DEF Fields
<1>2. Typed(reg, Fields)
  BY DEF RegInv
<1>3. /\ reg.command \in 0 .. 12 /\ reg.chr_banks \in [0 .. 7 -> Byte]
      /\ reg.prg_banks \in [0 .. 3 -> 0 .. 63]
  BY <1>1, <1>2 DEF Typed
<1>4. val % 64 \in 0 .. 63 /\ val % 4 \in 0 .. 3
  BY ByteValues
<1>5. \A command \in ChrIndexes \cup 8 .. 12 : Typed([reg EXCEPT !.command = command], Fields)
  <2>1. ChrIndexes \cup 8 .. 12 \subseteq 0 .. 12
    BY BoardsAssumption DEF Bank!SizesAssumption
  <2>2. QED
    BY <1>1, <1>2, <2>1, TypedExcept
<1>6. reg.command < 8 => Typed([reg EXCEPT !.chr_banks[reg.command] = val], Fields)
  <2>1. [reg.chr_banks EXCEPT ![reg.command] = val] \in [0 .. 7 -> Byte]
    BY <1>3, ByteValues
  <2>2. QED
    BY <1>1, <1>2, <2>1, TypedExcept
<1>7. \A i \in 0 .. 3 : Typed([reg EXCEPT !.prg_banks[i] = val % 64], Fields)
  <2>1. \A i \in 0 .. 3 : [reg.prg_banks EXCEPT ![i] = val % 64] \in [0 .. 3 -> 0 .. 63]
    BY <1>3, <1>4
  <2>2. QED
    BY <1>1, <1>2, <2>1, TypedExcept
<1>8. Typed([reg EXCEPT !.prg_ram_enable = Bank!Bit(val, 7), !.prg_ram_select = Bank!Bit(val, 6),
                        !.prg_banks[0] = val % 64], Fields)
  <2>1. Bank!Bit(val, 7) \in BOOLEAN /\ Bank!Bit(val, 6) \in BOOLEAN
    BY Zenon DEF Bank!Bit
  <2>2. PICK r : r = [reg EXCEPT !.prg_ram_enable = Bank!Bit(val, 7)]
    OBVIOUS
  <2>3. Typed(r, Fields)
    BY <1>1, <1>2, <2>1, <2>2, TypedExcept, Zenon
  <2>4. PICK s : s = [r EXCEPT !.prg_ram_select = Bank!Bit(val, 6)]
    OBVIOUS
  <2>5. Typed(s, Fields)
    BY <1>1, <2>1, <2>3, <2>4, TypedExcept, Zenon
  <2>6. s.prg_banks \in [0 .. 3 -> 0 .. 63]
    BY <1>1, <2>5 DEF Typed
  <2>7. [s.prg_banks EXCEPT ![0] = val % 64] \in [0 .. 3 -> 0 .. 63]
    BY <1>4, <2>6
  <2>8. Typed([s EXCEPT !.prg_banks[0] = val % 64], Fields)
    BY <1>1, <2>5, <2>7, TypedExcept
  <2>9. QED
    BY <2>2, <2>4, <2>8, Zenon
<1>9. Typed([reg EXCEPT !.mirroring = val % 4], Fields)
  BY <1>1, <1>2, <1>4, TypedExcept
<1>10. reg.command \in 9 .. 11 => reg.command - 8 \in 0 .. 3
  BY <1>3
<1>11. QED
  BY <1>5, <1>6, <1>7, <1>8, <1>9, <1>10, BecomeKeeps DEF Bank!WriteFme7, Bank!Plain

Modes5 == {"prg_mode", "chr_mode", "chr_high", "exram_mode"}
Pages5 == {"prg_bank_8000", "prg_bank_a000", "prg_bank_c000"}
Flags5 == {"last_written_chr_set_b", "in_frame", "tall_sprites_shown"}

LEMMA Mmc5Fields ==
    ASSUME board = "Mmc5"
    PROVE  /\ \A f \in Modes5 : f \in DOMAIN Fields /\ Fields[f] = 0 .. 3
           /\ \A f \in Pages5 : f \in DOMAIN Fields /\ Fields[f] = PageNumber
           /\ \A f \in Flags5 : f \in DOMAIN Fields /\ Fields[f] = BOOLEAN
           /\ "prg_ram_bank" \in DOMAIN Fields /\ Fields["prg_ram_bank"] = 0 .. 7
           /\ "prg_bank_e000" \in DOMAIN Fields /\ Fields["prg_bank_e000"] = UpperHalf
           /\ "chr_banks_a" \in DOMAIN Fields /\ Fields["chr_banks_a"] = [0 .. 7 -> ChrNumber]
           /\ "chr_banks_b" \in DOMAIN Fields /\ Fields["chr_banks_b"] = [0 .. 3 -> ChrNumber]
           /\ "exram_bank" \in DOMAIN Fields /\ Fields["exram_bank"] = 0 .. 63
<1> DEFINE T == [prg_mode |-> 0 .. 3, chr_mode |-> 0 .. 3, prg_ram_bank |-> 0 .. 7,
                 prg_bank_8000 |-> PageNumber, prg_bank_a000 |-> PageNumber,
                 prg_bank_c000 |-> PageNumber, prg_bank_e000 |-> UpperHalf,
                 chr_banks_a |-> [0 .. 7 -> ChrNumber],
                 chr_banks_b |-> [0 .. 3 -> ChrNumber], chr_high |-> 0 .. 3,
                 last_written_chr_set_b |-> BOOLEAN, in_frame |-> BOOLEAN,
                 tall_sprites_shown |-> BOOLEAN,
                 exram_mode |-> 0 .. 3, exram_bank |-> 0 .. 63]
<1>1. Fields = T
  BY DEF Fields
<1>2. \A f \in Modes5 : f \in DOMAIN T /\ T[f] = 0 .. 3
  BY DEF Modes5
<1>3. \A f \in Pages5 : f \in DOMAIN T /\ T[f] = PageNumber
  BY DEF Pages5
<1>4. \A f \in Flags5 : f \in DOMAIN T /\ T[f] = BOOLEAN
  BY DEF Flags5
<1>5. /\ "prg_ram_bank" \in DOMAIN T /\ T["prg_ram_bank"] = 0 .. 7
      /\ "prg_bank_e000" \in DOMAIN T /\ T["prg_bank_e000"] = UpperHalf
      /\ "chr_banks_a" \in DOMAIN T /\ T["chr_banks_a"] = [0 .. 7 -> ChrNumber]
      /\ "chr_banks_b" \in DOMAIN T /\ T["chr_banks_b"] = [0 .. 3 -> ChrNumber]
      /\ "exram_bank" \in DOMAIN T /\ T["exram_bank"] = 0 .. 63
  OBVIOUS
<1> HIDE DEF T
<1>6. QED
  BY <1>1, <1>2, <1>3, <1>4, <1>5

\* A write to one of Mmc5's fields.
LEMMA Mmc5Field ==
    ASSUME RegInv, board = "Mmc5", NEW f \in DOMAIN Fields, NEW v \in Fields[f],
           Bank!Plain("Mmc5", [reg EXCEPT ![f] = v])
    PROVE  RegInv'
<1>1. Typed([reg EXCEPT ![f] = v], Fields)
  BY OneField, Zenon
<1>2. Bank!Become([reg EXCEPT ![f] = v])
  BY Zenon DEF Bank!Plain
<1>3. QED
  BY <1>1, <1>2, BecomeKeeps

LEMMA Mmc5Banks ==
    ASSUME RegInv, board = "Mmc5", NEW val \in Values, Bank!WriteMmc5(val)
    PROVE  RegInv'
<1>1. Typed(reg, Fields)
  BY DEF RegInv
<1>2. /\ val \in Byte /\ val % 4 \in 0 .. 3 /\ val % 64 \in 0 .. 63 /\ val % 8 \in 0 .. 7
      /\ val \in PageNumber /\ (IF val < 128 THEN val + 128 ELSE val) \in UpperHalf
  BY ByteValues DEF Byte, PageNumber, UpperHalf
<1>3. /\ "prg_mode" \in Modes5 /\ "chr_mode" \in Modes5 /\ "exram_mode" \in Modes5
      /\ "chr_high" \in Modes5
      /\ "last_written_chr_set_b" \in Flags5 /\ "in_frame" \in Flags5
      /\ "tall_sprites_shown" \in Flags5
  BY DEF Modes5, Flags5
<1>4. \A f \in Modes5 : f \in DOMAIN Fields /\ Fields[f] = 0 .. 3
  BY Mmc5Fields
<1>5. \A f \in Pages5 : f \in DOMAIN Fields /\ Fields[f] = PageNumber
  BY Mmc5Fields
<1>6. \A f \in Flags5 : f \in DOMAIN Fields /\ Fields[f] = BOOLEAN
  BY Mmc5Fields
<1>7. /\ "chr_banks_a" \in DOMAIN Fields /\ Fields["chr_banks_a"] = [0 .. 7 -> ChrNumber]
      /\ "chr_banks_b" \in DOMAIN Fields /\ Fields["chr_banks_b"] = [0 .. 3 -> ChrNumber]
      /\ "exram_bank" \in DOMAIN Fields /\ Fields["exram_bank"] = 0 .. 63
      /\ "prg_ram_bank" \in DOMAIN Fields /\ Fields["prg_ram_bank"] = 0 .. 7
      /\ "prg_bank_e000" \in DOMAIN Fields /\ Fields["prg_bank_e000"] = UpperHalf
  BY Mmc5Fields
<1>8. ASSUME NEW i \in ChrIndexes,
             Bank!Plain("Mmc5", [reg EXCEPT !.chr_banks_a[i] = val + 256 * reg.chr_high,
                                            !.last_written_chr_set_b = FALSE])
      PROVE  RegInv'
  <2>1. reg.chr_banks_a \in [0 .. 7 -> ChrNumber] /\ reg.chr_high \in 0 .. 3
    BY <1>1, <1>3, <1>4, <1>7 DEF Typed
  <2>2. val + 256 * reg.chr_high \in ChrNumber
    <3>1. val \in 0 .. 255 /\ reg.chr_high \in 0 .. 3
      BY <1>2, <2>1, Zenon DEF Byte
    <3>2. QED
      BY <3>1 DEF ChrNumber
  <2>3. PICK v : v = [reg.chr_banks_a EXCEPT ![i] = val + 256 * reg.chr_high]
    OBVIOUS
  <2>4. v \in [0 .. 7 -> ChrNumber]
    BY <2>1, <2>2, <2>3, Zenon
  <2>5. PICK r : r = [reg EXCEPT !.chr_banks_a = v]
    OBVIOUS
  <2>6. Typed(r, Fields)
    BY <1>1, <1>7, <2>4, <2>5, TypedExcept, Zenon
  <2>7. Typed([r EXCEPT !.last_written_chr_set_b = FALSE], Fields)
    BY <1>3, <1>6, <2>6, TypedExcept, Zenon
  <2>8. [reg EXCEPT !.chr_banks_a[i] = val + 256 * reg.chr_high,
                    !.last_written_chr_set_b = FALSE] = [r EXCEPT !.last_written_chr_set_b = FALSE]
    BY <2>3, <2>5, Zenon
  <2>9. QED
    BY <1>8, <2>7, <2>8, BecomeKeeps, Zenon DEF Bank!Plain
<1>9. ASSUME NEW i \in ChrIndexes \cap 0 .. 3,
             Bank!Plain("Mmc5", [reg EXCEPT !.chr_banks_b[i] = val + 256 * reg.chr_high,
                                            !.last_written_chr_set_b = TRUE])
      PROVE  RegInv'
  <2>1. reg.chr_banks_b \in [0 .. 3 -> ChrNumber] /\ reg.chr_high \in 0 .. 3
    BY <1>1, <1>3, <1>4, <1>7 DEF Typed
  <2>2. val + 256 * reg.chr_high \in ChrNumber
    <3>1. val \in 0 .. 255 /\ reg.chr_high \in 0 .. 3
      BY <1>2, <2>1, Zenon DEF Byte
    <3>2. QED
      BY <3>1, SMTT(30) DEF ChrNumber
  <2>3. PICK v : v = [reg.chr_banks_b EXCEPT ![i] = val + 256 * reg.chr_high]
    OBVIOUS
  <2>4. v \in [0 .. 3 -> ChrNumber]
    BY <2>1, <2>2, <2>3
  <2>5. PICK r : r = [reg EXCEPT !.chr_banks_b = v]
    OBVIOUS
  <2>6. Typed(r, Fields)
    BY <1>1, <1>7, <2>4, <2>5, TypedExcept, Zenon
  <2>7. Typed([r EXCEPT !.last_written_chr_set_b = TRUE], Fields)
    BY <1>3, <1>6, <2>6, TypedExcept, Zenon
  <2>8. [reg EXCEPT !.chr_banks_b[i] = val + 256 * reg.chr_high,
                    !.last_written_chr_set_b = TRUE] = [r EXCEPT !.last_written_chr_set_b = TRUE]
    BY <2>3, <2>5, Zenon
  <2>9. QED
    BY <1>9, <2>7, <2>8, BecomeKeeps, Zenon DEF Bank!Plain
<1>10. ASSUME NEW f \in Modes5, Bank!Plain("Mmc5", [reg EXCEPT ![f] = val % 4]) PROVE RegInv'
  BY <1>2, <1>4, <1>10, Mmc5Field, Zenon
<1>11. ASSUME NEW f \in Pages5, Bank!Plain("Mmc5", [reg EXCEPT ![f] = val]) PROVE RegInv'
  <2>1. val \in Fields[f] /\ f \in DOMAIN Fields
    BY <1>2, <1>5
  <2>2. QED
    BY <1>11, <2>1, Mmc5Field, Zenon
<1>12. ASSUME NEW f \in Flags5, NEW on \in BOOLEAN, Bank!Plain("Mmc5", [reg EXCEPT ![f] = on])
       PROVE RegInv'
  BY <1>6, <1>12, Mmc5Field, Zenon
<1>13. ASSUME NEW f \in DOMAIN Fields, NEW v \in Fields[f], Bank!Plain("Mmc5", [reg EXCEPT ![f] = v])
       PROVE  RegInv'
  BY <1>13, Mmc5Field, Zenon
<1>14. /\ Bank!Plain("Mmc5", [reg EXCEPT !.exram_bank = val % 64]) => RegInv'
       /\ Bank!Plain("Mmc5", [reg EXCEPT !.prg_ram_bank = val % 8]) => RegInv'
  <2>1. val % 64 \in Fields["exram_bank"] /\ val % 8 \in Fields["prg_ram_bank"]
    BY <1>2, <1>7
  <2>2. "exram_bank" \in DOMAIN Fields /\ "prg_ram_bank" \in DOMAIN Fields
    BY <1>7
  <2>3. QED
    BY <1>13, <2>1, <2>2, Zenon
<1>15. Bank!Plain("Mmc5", [reg EXCEPT !.prg_bank_e000 = IF val < 128 THEN val + 128 ELSE val])
         => RegInv'
  <2>1. (IF val < 128 THEN val + 128 ELSE val) \in Fields["prg_bank_e000"]
    BY <1>2, <1>7
  <2>2. "prg_bank_e000" \in DOMAIN Fields
    BY <1>7
  <2>3. QED
    BY <1>13, <2>1, <2>2, Zenon
<1>16. CASE \E f \in Modes5 : Bank!Plain("Mmc5", [reg EXCEPT ![f] = val % 4])
  BY <1>10, <1>16, Zenon
<1>17. CASE \E bank \in Pages5 : Bank!Plain("Mmc5", [reg EXCEPT ![bank] = val])
  BY <1>11, <1>17, Zenon
<1>18. CASE \E on \in BOOLEAN : \E f \in Flags5 : Bank!Plain("Mmc5", [reg EXCEPT ![f] = on])
  BY <1>12, <1>18, Zenon
<1>19. QED
  BY <1>3, <1>8, <1>9, <1>14, <1>15, <1>16, <1>17, <1>18, ZenonT(60)
     DEF Bank!WriteMmc5, Pages5

LEMMA WriteKeepsReg ==
    ASSUME SizesInv, RegInv, Bank!Write
    PROVE  RegInv'
<1>1. ASSUME NEW val \in Values, Bank!WriteAxrom(val) PROVE RegInv'
  BY <1>1, AxromBanks, Zenon
<1>2. ASSUME NEW val \in Values, Bank!WriteUnrom(val) \/ Bank!WriteCnrom(val) PROVE RegInv'
  BY <1>2, LatchBanks, Zenon
<1>3. Bank!WriteMmc1 => board = "Mmc1"
  BY DEF Bank!WriteMmc1, Bank!ResetMmc1, Bank!ShiftMmc1, Bank!FillMmc1
<1>4. Bank!WriteMmc1 => RegInv'
  BY <1>3, Mmc1Banks, Zenon
<1>5. QED
  BY <1>1, <1>2, <1>4, Mmc2Banks, Mmc3Banks, Vrc6Banks, Fme7Banks, Mmc5Banks, Zenon
     DEF Bank!Write

LEMMA SizesInit ==
    ASSUME Bank!Init
    PROVE  SizesInv
<1>1. PICK b \in Bank!Boards, rom \in RomSizes :
        (b # "Mmc5" => rom[1] % 2 = 0) /\ Bank!Start(b, rom[1], rom[2])
  BY Zenon DEF Bank!Init
<1>2. board = b /\ prg_pages = rom[1] /\ chr_pages = rom[2]
  BY <1>1, Zenon DEF Bank!Start
<1>3. rom \in (0 .. 510) \X {8 * n : n \in 0 .. 255}
  BY <1>1, BoardsAssumption DEF Bank!SizesAssumption
<1>4. rom[1] \in 0 .. 510 /\ rom[2] \in {8 * n : n \in 0 .. 255}
  BY <1>3
<1>5. rom[2] \in 0 .. 2040 /\ rom[2] % 8 = 0
  BY <1>4
<1>6. QED
  BY <1>1, <1>2, <1>4, <1>5 DEF SizesInv

\* What is written leaves the saved state alone.
LEMMA WriteKeepsSizes ==
    ASSUME Bank!Write
    PROVE  UNCHANGED <<board, prg_pages, chr_pages, slot, seen>>
<1>1. \A r : Bank!Become(r) => UNCHANGED <<board, prg_pages, chr_pages, slot, seen>>
  BY Zenon DEF Bank!Become
<1>2. \A b, r : Bank!Plain(b, r) => UNCHANGED <<board, prg_pages, chr_pages, slot, seen>>
  BY <1>1, Zenon DEF Bank!Plain
<1>3. Bank!WriteMmc1 => UNCHANGED <<board, prg_pages, chr_pages, slot, seen>>
  BY <1>1, Zenon DEF Bank!WriteMmc1, Bank!ResetMmc1, Bank!ShiftMmc1, Bank!FillMmc1
<1>4. Bank!ChrReadMmc2 => UNCHANGED <<board, prg_pages, chr_pages, slot, seen>>
  BY <1>2, Zenon DEF Bank!ChrReadMmc2
<1>5. ASSUME NEW val \in Values
      PROVE  /\ Bank!WriteUnrom(val) \/ Bank!WriteCnrom(val) \/ Bank!WriteAxrom(val)
                  => UNCHANGED <<board, prg_pages, chr_pages, slot, seen>>
             /\ Bank!WriteMmc2(val) => UNCHANGED <<board, prg_pages, chr_pages, slot, seen>>
             /\ Bank!WriteMmc3(val) => UNCHANGED <<board, prg_pages, chr_pages, slot, seen>>
             /\ Bank!WriteVrc6(val) => UNCHANGED <<board, prg_pages, chr_pages, slot, seen>>
             /\ Bank!WriteFme7(val) => UNCHANGED <<board, prg_pages, chr_pages, slot, seen>>
             /\ Bank!WriteMmc5(val) => UNCHANGED <<board, prg_pages, chr_pages, slot, seen>>
  <2>1. Bank!WriteUnrom(val) \/ Bank!WriteCnrom(val) \/ Bank!WriteAxrom(val)
          => UNCHANGED <<board, prg_pages, chr_pages, slot, seen>>
    BY <1>2, Zenon DEF Bank!WriteUnrom, Bank!WriteCnrom, Bank!WriteAxrom
  <2>2. Bank!WriteMmc2(val) => UNCHANGED <<board, prg_pages, chr_pages, slot, seen>>
    BY <1>2, Zenon DEF Bank!WriteMmc2
  <2>3. Bank!WriteMmc3(val) => UNCHANGED <<board, prg_pages, chr_pages, slot, seen>>
    BY <1>2, Zenon DEF Bank!WriteMmc3
  <2>4. Bank!WriteVrc6(val) => UNCHANGED <<board, prg_pages, chr_pages, slot, seen>>
    BY <1>2, Zenon DEF Bank!WriteVrc6
  <2>5. Bank!WriteFme7(val) => UNCHANGED <<board, prg_pages, chr_pages, slot, seen>>
    BY <1>2, Zenon DEF Bank!WriteFme7
  <2>6. Bank!WriteMmc5(val) => UNCHANGED <<board, prg_pages, chr_pages, slot, seen>>
    BY <1>2, ZenonT(60) DEF Bank!WriteMmc5
  <2>7. QED
    BY <2>1, <2>2, <2>3, <2>4, <2>5, <2>6, Zenon
<1>6. QED
  BY <1>3, <1>4, <1>5, Zenon DEF Bank!Write

BanksInv == SizesInv /\ RegInv /\ SlotInv

LEMMA BanksInit ==
    ASSUME Bank!Init
    PROVE  BanksInv
<1>1. PICK b, prg, chr : Bank!Start(b, prg, chr)
  BY Zenon DEF Bank!Init
<1>2. SlotInv
  BY <1>1, Zenon DEF Bank!Start, SlotInv
<1>3. QED
  BY <1>1, <1>2, SizesInit, RegInit, Zenon DEF BanksInv

LEMMA SavedFieldsTyped ==
    ASSUME RegInv, board # "Nrom"
    PROVE  /\ Bank!SavedFields = IF board = "Mmc5" THEN Bank!SavedByMmc5 ELSE DOMAIN Fields
           /\ Bank!SavedFields \subseteq DOMAIN Fields
           /\ \A f \in Bank!SavedFields : reg[f] \in Fields[f]
<1>1. Typed(reg, Fields)
  BY DEF RegInv
<1>2. DOMAIN reg = DOMAIN Fields
  BY <1>1 DEF Typed
<1>3. board = "Mmc5" => Bank!SavedByMmc5 \subseteq DOMAIN Fields
  BY DEF Fields, Bank!SavedByMmc5
<1>4. Bank!SavedFields = IF board = "Mmc5" THEN Bank!SavedByMmc5 ELSE DOMAIN Fields
  BY <1>2, Zenon DEF Bank!SavedFields
<1>5. Bank!SavedFields \subseteq DOMAIN Fields
  BY <1>3, <1>4, Zenon
<1>6. QED
  BY <1>1, <1>4, <1>5, Zenon DEF Typed

LEMMA BanksKeep ==
    ASSUME BanksInv, [Bank!Next]_(Bank!vars)
    PROVE  BanksInv'
<1> USE DEF BanksInv
<1>1. CASE Bank!Write
  <2>1. UNCHANGED <<board, prg_pages, chr_pages, slot>>
    BY <1>1, WriteKeepsSizes
  <2>2. SizesInv' /\ SlotInv'
    BY <2>1, FieldsFixed DEF SizesInv, SlotInv, Bank!SavedByMmc5
  <2>3. QED
    BY <1>1, <2>2, WriteKeepsReg
<1>2. CASE Bank!SaveState
  <2>1. UNCHANGED <<board, prg_pages, chr_pages, reg>>
        /\ slot' = [f \in Bank!SavedFields |-> reg[f]]
    BY <1>2 DEF Bank!SaveState
  <2>2. SizesInv' /\ RegInv' /\ Fields' = Fields
    BY <2>1, FieldsFixed DEF SizesInv, RegInv, Typed
  <2>3. SlotInv'
    BY <2>1, <2>2, SavedFieldsTyped, Zenon DEF SlotInv, Bank!SavedByMmc5
  <2>4. QED
    BY <2>2, <2>3
<1>3. CASE Bank!LoadState
  <2>1. UNCHANGED <<board, prg_pages, chr_pages, slot>> /\ slot # <<>>
        /\ reg' = [f \in DOMAIN reg |-> IF f \in DOMAIN slot THEN slot[f] ELSE reg[f]]
    BY <1>3 DEF Bank!LoadState
  <2>2. SizesInv' /\ SlotInv' /\ Fields' = Fields
    BY <2>1, FieldsFixed DEF SizesInv, SlotInv, Bank!SavedByMmc5
  <2>3. RegInv'
    <3>1. CASE board = "Nrom"
      BY <2>1, <3>1 DEF RegInv
    <3>2. CASE board # "Nrom"
      <4>1. Typed(reg, Fields) /\ \A f \in DOMAIN slot : slot[f] \in Fields[f]
        BY <2>1, <3>2, Zenon DEF RegInv, SlotInv
      <4>2. Typed(reg', Fields)
        BY <2>1, <4>1, TypedMerge, Zenon
      <4>3. QED
        BY <2>1, <2>2, <3>2, <4>2, Zenon DEF RegInv
    <3>3. QED
      BY <3>1, <3>2
  <2>4. QED
    BY <2>2, <2>3
<1>4. CASE UNCHANGED Bank!vars
  BY <1>4, FieldsFixed DEF Bank!vars, SizesInv, RegInv, SlotInv, Typed, Bank!SavedByMmc5
<1>5. QED
  BY <1>1, <1>2, <1>3, <1>4 DEF Bank!Next

(* The windows.                                                             *)

LEMMA Cell ==
    ASSUME NEW S, NEW T, NEW a \in [S -> T], NEW i \in S
    PROVE  a[i] \in T
  OBVIOUS

LEMMA Remainder ==
    ASSUME NEW x \in Int, NEW n \in Nat \ {0}
    PROVE  x % n \in 0 .. n - 1
  OBVIOUS

\* A page of the ROM, in whatever mode the board is; nothing, if there is none.
PrgInside == \A w \in 0 .. 3 : /\ Bank!PrgPage(w) \in Bank!Nothing .. prg_pages - 1
                               /\ Bank!PrgPage(w) = Bank!Nothing => prg_pages < 4
ChrInside == \A w \in 0 .. 7, s \in BOOLEAN : Bank!ChrPage(w, s) \in 0 .. chr_pages - 1
LastStays == Bank!PrgPage(3) = prg_pages - 1

\* The two halves of InsideRom.
PrgNamed == \A w \in 0 .. 3 :
               /\ Bank!PrgPage(w) \in Bank!Nothing .. Bank!LastPrg(w) <=> ~Bank!PrgFails(w)
               /\ Bank!PrgPage(w) = Bank!Nothing => prg_pages < 4
ChrNamed == \A w \in 0 .. 7, s \in BOOLEAN :
               /\ Bank!ChrPage(w, s) \in Bank!Nothing .. Bank!LastChr <=> ~Bank!ChrFails
               /\ Bank!ChrPage(w, s) = Bank!Nothing => chr_pages = 0

LEMMA LastPage ==
    ASSUME SizesInv, prg_pages > 0
    PROVE  /\ (prg_pages - 1) % prg_pages = prg_pages - 1
           /\ Bank!Minus(prg_pages, 1) = prg_pages - 1
           /\ Bank!Wrapped(Bank!Minus(prg_pages, 1)) = prg_pages - 1
<1>1. prg_pages \in 1 .. 510
  BY DEF SizesInv
<1>2. (prg_pages - 1) % prg_pages = prg_pages - 1
  BY <1>1
<1>3. Bank!Minus(prg_pages, 1) = prg_pages - 1
  BY <1>1 DEF Bank!Minus
<1>4. Bank!Wrapped(prg_pages - 1) = prg_pages - 1
  BY <1>1, <1>2 DEF Bank!Wrapped
<1>5. QED
  BY <1>2, <1>3, <1>4

LEMMA WrappedPage ==
    ASSUME SizesInv, NEW page \in Int
    PROVE  /\ Bank!Wrapped(page) \in Bank!Nothing .. prg_pages - 1
           /\ Bank!Wrapped(page) = Bank!Nothing => prg_pages < 4
<1>1. prg_pages \in Nat
  BY PageNumbers
<1>2. CASE prg_pages = 0
  BY <1>2 DEF Bank!Wrapped, Bank!Nothing
<1>3. CASE prg_pages # 0
  <2>1. page % prg_pages \in 0 .. prg_pages - 1
    BY <1>1, <1>3, Remainder
  <2>2. QED
    BY <1>1, <1>3, <2>1 DEF Bank!Wrapped, Bank!Nothing
<1>4. QED
  BY <1>2, <1>3

\* Only Mmc5 shows RAM.
LEMMA NoRam ==
    ASSUME board # "Mmc5", NEW w
    PROVE  ~Bank!ShowsRam(w) /\ Bank!LastPrg(w) = prg_pages - 1
  BY Zenon DEF Bank!ShowsRam, Bank!LastPrg

LEMMA NeverFails ==
    ASSUME board \in {"Axrom", "Mmc2", "Mmc3", "Vrc6", "Fme7"}, PrgInside
    PROVE  PrgNamed
<1>1. \A w : ~Bank!PrgFails(w)
  BY DEF Bank!PrgFails
<1>2. \A w : Bank!LastPrg(w) = prg_pages - 1
  BY NoRam
<1>3. QED
  BY <1>1, <1>2, Zenon DEF PrgInside, PrgNamed

LEMMA Halves ==
    ASSUME SizesInv, board # "Mmc5", NEW bank \in 0 .. Bank!Prg16 - 1, NEW w \in 0 .. 3
    PROVE  /\ Bank!InHalf(bank, w) \in 0 .. prg_pages - 1
           /\ Bank!InHalf(Bank!Prg16 - 1, 3) = prg_pages - 1
<1>1. prg_pages = 2 * Bank!Prg16 /\ Bank!Prg16 \in Nat /\ prg_pages \in Nat
  BY PageNumbers
<1>2. QED
  BY <1>1 DEF Bank!InHalf

LEMMA Quarters ==
    ASSUME SizesInv, chr_pages # 0, NEW bank \in Nat, NEW w \in 0 .. 7
    PROVE  Bank!InQuarter(bank, w) \in 0 .. chr_pages - 1
<1>1. chr_pages = 4 * Bank!Chr4 /\ Bank!Chr4 \in Nat \ {0} /\ chr_pages \in Nat \ {0}
  BY PageNumbers
<1>2. bank % Bank!Chr4 \in Nat
  BY <1>1
<1>3. 4 * (bank % Bank!Chr4) + (w % 4) \in Int
  BY <1>2
<1>4. QED
  BY <1>1, <1>3, Remainder DEF Bank!InQuarter

\* CHR ROM that the board finds, or RAM.
LEMMA NamedChr ==
    ASSUME SizesInv, RegInv,
           ~Bank!ChrIsRam /\ chr_pages # 0 => ChrInside
    PROVE  ChrNamed
<1> SUFFICES ASSUME NEW w \in 0 .. 7, NEW s \in BOOLEAN
             PROVE  /\ Bank!ChrPage(w, s) \in Bank!Nothing .. Bank!LastChr <=> ~Bank!ChrFails
                    /\ Bank!ChrPage(w, s) = Bank!Nothing => chr_pages = 0
  BY DEF ChrNamed
<1>1. chr_pages \in Nat
  BY PageNumbers
<1>2. CASE Bank!ChrIsRam
  <2>1. Bank!ChrPage(w, s) = w /\ Bank!LastChr = 7
    BY <1>2, Zenon DEF Bank!ChrPage, Bank!LastChr
  <2>2. ~Bank!ChrFails
    BY <1>2 DEF Bank!ChrIsRam, Bank!ChrFails
  <2>3. QED
    BY <2>1, <2>2 DEF Bank!Nothing
<1>3. CASE ~Bank!ChrIsRam /\ chr_pages # 0
  <2>1. Bank!ChrPage(w, s) \in 0 .. chr_pages - 1 /\ Bank!LastChr = chr_pages - 1
    BY <1>3, Zenon DEF ChrInside, Bank!LastChr
  <2>2. ~Bank!ChrFails
    BY <1>3 DEF Bank!ChrFails
  <2>3. QED
    BY <1>1, <2>1, <2>2 DEF Bank!Nothing
<1>4. CASE ~Bank!ChrIsRam /\ chr_pages = 0
  <2>1. Bank!LastChr = -1 /\ board \in {"Cnrom", "Mmc2"}
    BY <1>4 DEF Bank!ChrIsRam, Bank!LastChr
  <2>2. CASE board = "Mmc2"
    <3>1. Bank!ChrPage(w, s) = Bank!Nothing
      BY <1>4, <2>2 DEF Bank!ChrPage, Bank!Mmc2Chr
    <3>2. QED
      BY <1>4, <2>1, <2>2, <3>1 DEF Bank!ChrFails, Bank!Nothing
  <2>3. CASE board = "Cnrom"
    <3>1. Bank!ChrPage(w, s) = 8 * reg.bank_select + w
      BY <1>4, <2>3 DEF Bank!ChrPage, Bank!CnromChr
    <3>2. reg.bank_select \in 0 .. Bank!Larger(chr_pages \div 8, 1) - 1
      BY <2>3 DEF RegInv, Fields, Typed
    <3>3. reg.bank_select \in Nat
      BY <3>2, PageNumbers
    <3>4. QED
      BY <1>4, <2>1, <2>3, <3>1, <3>3 DEF Bank!ChrFails, Bank!Nothing
  <2>4. QED
    BY <2>1, <2>2, <2>3
<1>5. QED
  BY <1>2, <1>3, <1>4

LEMMA FixedInside ==
    ASSUME SizesInv, board \in {"Nrom", "Cnrom"}
    PROVE  PrgNamed
<1> SUFFICES ASSUME NEW w \in 0 .. 3
             PROVE  /\ Bank!PrgPage(w) \in Bank!Nothing .. Bank!LastPrg(w) <=> ~Bank!PrgFails(w)
                    /\ Bank!PrgPage(w) = Bank!Nothing => prg_pages < 4
  BY DEF PrgNamed
<1>1. Bank!PrgPage(w) = Bank!NromPrg(w) /\ prg_pages \in Nat
  BY PageNumbers DEF Bank!PrgPage
<1>2. Bank!LastPrg(w) = prg_pages - 1
  BY NoRam
<1>3. Bank!PrgFails(w) <=> prg_pages = 0
  BY DEF Bank!PrgFails
<1>4. CASE prg_pages = 0
  BY <1>1, <1>2, <1>3, <1>4 DEF Bank!NromPrg, Bank!Nothing
<1>5. CASE prg_pages # 0
  <2>1. w % prg_pages \in 0 .. prg_pages - 1
    BY <1>1, <1>5, Remainder
  <2>2. QED
    BY <1>1, <1>2, <1>3, <1>5, <2>1 DEF Bank!NromPrg, Bank!Nothing
<1>6. QED
  BY <1>4, <1>5

LEMMA CnromInside ==
    ASSUME SizesInv, RegInv, board = "Cnrom", chr_pages # 0
    PROVE  ChrInside
<1>1. reg.bank_select \in 0 .. Bank!Larger(chr_pages \div 8, 1) - 1
  BY DEF RegInv, Fields, Typed
<1>2. chr_pages = 8 * (chr_pages \div 8) /\ chr_pages \div 8 \in Nat \ {0}
  BY PageNumbers
<1>3. Bank!Larger(chr_pages \div 8, 1) = chr_pages \div 8
  BY <1>2 DEF Bank!Larger
<1>4. ~Bank!ChrIsRam
  BY DEF Bank!ChrIsRam
<1>5. \A w, s : Bank!ChrPage(w, s) = 8 * reg.bank_select + w
  BY <1>4 DEF Bank!ChrPage, Bank!CnromChr
<1>6. QED
  BY <1>1, <1>2, <1>3, <1>5 DEF ChrInside

LEMMA UnromInside ==
    ASSUME SizesInv, RegInv, board = "Unrom"
    PROVE  PrgNamed /\ (prg_pages > 0 => LastStays)
<1>1. \A w : Bank!PrgPage(w) = Bank!UnromPrg(w) /\ Bank!LastPrg(w) = prg_pages - 1
  BY NoRam DEF Bank!PrgPage
<1>2. \A w : Bank!PrgFails(w) <=> prg_pages = 0
  BY DEF Bank!PrgFails
<1>3. reg.bank_select \in 0 .. Bank!Larger(Bank!Prg16, 1) - 1
  BY DEF RegInv, Fields, Typed
<1>4. prg_pages = 2 * Bank!Prg16 /\ Bank!Prg16 \in Nat
  BY PageNumbers
<1>5. CASE prg_pages = 0
  <2>1. reg.bank_select = 0 /\ Bank!Minus(Bank!Prg16, 1) = 0
    BY <1>3, <1>4, <1>5 DEF Bank!Larger, Bank!Minus
  <2>2. \A w \in 0 .. 3 : Bank!PrgPage(w) = w % 2
    BY <1>1, <2>1 DEF Bank!UnromPrg, Bank!InHalf
  <2>3. QED
    BY <1>1, <1>2, <1>5, <2>2 DEF PrgNamed, Bank!Nothing
<1>6. CASE prg_pages # 0
  <2>1. /\ reg.bank_select \in 0 .. Bank!Prg16 - 1
        /\ Bank!Minus(Bank!Prg16, 1) = Bank!Prg16 - 1 /\ Bank!Prg16 - 1 \in 0 .. Bank!Prg16 - 1
    BY <1>3, <1>4, <1>6 DEF Bank!Larger, Bank!Minus
  <2>2. ASSUME NEW w \in 0 .. 3 PROVE Bank!PrgPage(w) \in 0 .. prg_pages - 1
    <3>1. /\ Bank!InHalf(reg.bank_select, w) \in 0 .. prg_pages - 1
          /\ Bank!InHalf(Bank!Prg16 - 1, w) \in 0 .. prg_pages - 1
      BY <2>1, Halves
    <3>2. QED
      BY <1>1, <2>1, <3>1 DEF Bank!UnromPrg
  <2>3. PrgNamed
    BY <1>1, <1>2, <1>4, <1>6, <2>2 DEF PrgNamed, Bank!Nothing
  <2>4. Bank!InHalf(Bank!Prg16 - 1, 3) = prg_pages - 1
    BY <2>1, Halves
  <2>5. LastStays
    BY <1>1, <2>1, <2>4 DEF LastStays, Bank!UnromPrg
  <2>6. QED
    BY <2>3, <2>5
<1>7. QED
  BY <1>5, <1>6

LEMMA AxromInside ==
    ASSUME SizesInv, RegInv, board = "Axrom"
    PROVE  PrgNamed
<1>1. reg.prg_bank \in 0 .. 15 /\ prg_pages \in Nat
  BY PageNumbers DEF RegInv, Fields, Typed
<1>2. \A w : Bank!PrgPage(w) = Bank!AxromPrg(w)
  BY DEF Bank!PrgPage
<1>3. CASE prg_pages < 4
  BY <1>1, <1>2, <1>3, NeverFails DEF PrgInside, Bank!AxromPrg, Bank!Nothing
<1>4. CASE ~(prg_pages < 4)
  <2>1. prg_pages \div 4 \in Nat \ {0} /\ 4 * (prg_pages \div 4) <= prg_pages
    BY <1>1, <1>4
  <2>2. PICK bank : bank = reg.prg_bank % (prg_pages \div 4)
    OBVIOUS
  <2>3. bank \in 0 .. prg_pages \div 4 - 1
    <3>1. reg.prg_bank \in Int
      BY <1>1
    <3>2. QED
      BY <2>1, <2>2, <3>1, Remainder, Zenon
  <2>4. \A w \in 0 .. 3 : 4 * bank + w \in 0 .. prg_pages - 1
    BY <1>1, <2>1, <2>3
  <2>5. \A w : Bank!PrgPage(w) = 4 * bank + w
    BY <1>2, <1>4, <2>2 DEF Bank!AxromPrg
  <2>6. PrgInside
    BY <1>1, <2>4, <2>5 DEF PrgInside, Bank!Nothing
  <2>7. QED
    BY <2>6, NeverFails
<1>5. QED
  BY <1>3, <1>4

\* An even number of banks has no unit that begins with the last.
LEMMA EvenBank ==
    ASSUME NEW s \in 0 .. 15, NEW n \in 1 .. 255
    PROVE  /\ Bank!Even(s) % n \in 0 .. n - 1
           /\ n % 2 = 0 => Bank!Even(s) % n # n - 1
<1>1. PICK e : e = Bank!Even(s)
  OBVIOUS
<1>2. e \in {0, 2, 4, 6, 8, 10, 12, 14}
  BY <1>1 DEF Bank!Even
<1>3. e % n \in 0 .. n - 1
  BY <1>2
<1>4. ASSUME n % 2 = 0 PROVE e % n # n - 1
  <2>1. CASE n > 14
    <3>1. e % n = e
      BY <1>2, <2>1
    <3>2. QED
      BY <1>2, <1>4, <2>1, <3>1
  <2>2. CASE n <= 14
    <3>1. n \in {2, 4, 6, 8, 10, 12, 14}
      BY <1>4, <2>2
    <3>2. QED
      BY <1>2, <3>1
  <2>3. QED
    BY <2>1, <2>2
<1>5. QED
  BY <1>1, <1>3, <1>4

LEMMA Mmc1Inside ==
    ASSUME SizesInv, RegInv, board = "Mmc1"
    PROVE  PrgNamed /\ (prg_pages > 0 /\ Bank!Mmc1Mode = 3 => LastStays)
<1> DEFINE n == Bank!Prg16
           select == reg.prg_bank % 16
<1>1. reg.prg_bank \in 0 .. 31 /\ reg.control \in 0 .. 31
  BY DEF RegInv, Fields, Typed
<1>2. prg_pages = 2 * n /\ n \in 0 .. 255 /\ prg_pages \in Nat
  BY PageNumbers DEF SizesInv
<1>3. select \in 0 .. 15 /\ Bank!Mmc1Mode \in 0 .. 3
  BY <1>1 DEF Bank!Mmc1Mode
<1>4. \A w : Bank!PrgPage(w) = Bank!Mmc1Prg(w) /\ Bank!LastPrg(w) = prg_pages - 1
  BY NoRam DEF Bank!PrgPage
<1>5. \A w : Bank!PrgFails(w) <=> w >= 2 /\ n % 2 = 1 /\ Bank!Mmc1Mode < 2 /\ Bank!Mmc1Unit = n - 1
  BY DEF Bank!PrgFails
<1>6. CASE n = 0
  <2>1. \A w : Bank!PrgPage(w) = Bank!Nothing
    BY <1>4, <1>6 DEF Bank!Mmc1Prg
  <2>2. \A w : ~Bank!PrgFails(w)
    BY <1>5, <1>6
  <2>3. QED
    BY <1>2, <1>4, <1>6, <2>1, <2>2 DEF PrgNamed, Bank!Nothing
<1>7. CASE n # 0 /\ Bank!Mmc1Mode < 2
  <2>1. Bank!Mmc1Unit \in 0 .. n - 1 /\ (n % 2 = 0 => Bank!Mmc1Unit # n - 1)
    <3>1. n \in 1 .. 255
      BY <1>2, <1>7
    <3>2. QED
      BY <1>3, <3>1, EvenBank, Zenon DEF Bank!Mmc1Unit
  <2>2. \A w : Bank!PrgPage(w) = 2 * Bank!Mmc1Unit + w
    BY <1>2, <1>4, <1>7 DEF Bank!Mmc1Prg
  <2>3. n % 2 \in {0, 1}
    BY <1>2
  <2>4. PrgNamed
    <3> SUFFICES ASSUME NEW w \in 0 .. 3
                 PROVE  /\ Bank!PrgPage(w) \in Bank!Nothing .. Bank!LastPrg(w)
                             <=> ~Bank!PrgFails(w)
                        /\ Bank!PrgPage(w) = Bank!Nothing => prg_pages < 4
      BY DEF PrgNamed
    <3>1. PICK unit : unit = Bank!Mmc1Unit
      OBVIOUS
    <3>2. 2 * unit + w \in -1 .. prg_pages - 1 <=> ~(w >= 2 /\ unit = n - 1)
      BY <1>2, <2>1, <3>1
    <3>3. Bank!PrgFails(w) <=> w >= 2 /\ unit = n - 1
      BY <1>5, <1>7, <2>1, <2>3, <3>1
    <3>4. 2 * unit + w # -1
      BY <2>1, <3>1
    <3>5. QED
      BY <1>4, <2>2, <3>1, <3>2, <3>3, <3>4 DEF Bank!Nothing
  <2>5. QED
    BY <1>7, <2>4
<1>8. CASE n # 0 /\ ~(Bank!Mmc1Mode < 2)
  <2>1. PICK bank : bank = Bank!Mmc1Bank
    OBVIOUS
  <2>2. bank \in 0 .. n - 1 /\ n - 1 \in 0 .. n - 1 /\ 0 \in 0 .. n - 1
    <3>1. n \in Nat \ {0} /\ select \in Int
      BY <1>2, <1>3, <1>8
    <3>2. bank \in 0 .. n - 1
      BY <2>1, <3>1, Remainder, Zenon DEF Bank!Mmc1Bank
    <3>3. QED
      BY <3>1, <3>2
  <2>3. ASSUME NEW w \in 0 .. 3
        PROVE  /\ Bank!PrgPage(w) \in 0 .. prg_pages - 1
               /\ Bank!Mmc1Mode = 3 /\ w = 3 => Bank!PrgPage(w) = prg_pages - 1
    <3>1. PICK half \in 0 .. n - 1 :
            /\ Bank!Mmc1Prg(w) = Bank!Wrapped(Bank!InHalf(half, w))
            /\ Bank!Mmc1Mode = 3 /\ w = 3 => half = n - 1
      <4>1. CASE Bank!Mmc1Mode = 2
        <5>1. Bank!Mmc1Prg(w) = Bank!Wrapped(Bank!InHalf(IF w < 2 THEN 0 ELSE bank, w))
          BY <1>2, <1>8, <2>1, <4>1 DEF Bank!Mmc1Prg
        <5>2. QED
          BY <2>2, <4>1, <5>1
      <4>2. CASE Bank!Mmc1Mode = 3
        <5>1. Bank!Mmc1Prg(w) = Bank!Wrapped(Bank!InHalf(IF w < 2 THEN bank ELSE n - 1, w))
          BY <1>2, <1>8, <2>1, <4>2 DEF Bank!Mmc1Prg
        <5>2. QED
          BY <2>2, <4>2, <5>1
      <4>3. QED
        BY <1>3, <1>8, <4>1, <4>2
    <3>2. PICK page : page = Bank!InHalf(half, w)
      OBVIOUS
    <3>3. page \in 0 .. prg_pages - 1 /\ (half = n - 1 /\ w = 3 => page = prg_pages - 1)
      BY <3>2, Halves
    <3>4. Bank!Wrapped(page) = page
      BY <1>2, <1>8, <3>3 DEF Bank!Wrapped
    <3>5. QED
      BY <1>4, <3>1, <3>2, <3>3, <3>4
  <2>4. \A w : ~Bank!PrgFails(w)
    BY <1>5, <1>8
  <2>5. PrgNamed
    BY <1>2, <1>4, <2>3, <2>4 DEF PrgNamed, Bank!Nothing
  <2>6. QED
    BY <2>3, <2>5 DEF LastStays
<1>9. QED
  BY <1>2, <1>6, <1>7, <1>8

LEMMA Mmc1ChrInside ==
    ASSUME SizesInv, RegInv, board = "Mmc1", chr_pages # 0
    PROVE  ChrInside
<1>1. reg.chr_bank_0 \in 0 .. 31 /\ reg.chr_bank_1 \in 0 .. 31
  BY DEF RegInv, Fields, Typed
<1> SUFFICES ASSUME NEW w \in 0 .. 7, NEW s \in BOOLEAN
             PROVE  Bank!ChrPage(w, s) \in 0 .. chr_pages - 1
  BY DEF ChrInside
<1>2. Bank!ChrPage(w, s) = Bank!Mmc1Chr(w)
  BY DEF Bank!ChrPage, Bank!ChrIsRam
<1>3. CASE Bank!Bit(reg.control, 4)
  <2>1. Bank!Mmc1Chr(w) = Bank!InQuarter(IF w < 4 THEN reg.chr_bank_0 ELSE reg.chr_bank_1, w)
    BY <1>3, Zenon DEF Bank!Mmc1Chr
  <2>2. (IF w < 4 THEN reg.chr_bank_0 ELSE reg.chr_bank_1) \in Nat
    BY <1>1
  <2>3. QED
    BY <1>2, <2>1, <2>2, Quarters
<1>4. CASE ~Bank!Bit(reg.control, 4)
  <2>1. Bank!Chr4 \in Nat \ {0} /\ chr_pages \in Nat \ {0}
    BY PageNumbers
  <2>2. Bank!Larger(Bank!Chr4 \div 2, 1) \in Nat \ {0}
    BY <2>1 DEF Bank!Larger
  <2>3. Bank!Even(reg.chr_bank_0) % Bank!Larger(Bank!Chr4 \div 2, 1) \in Nat
    BY <1>1, <2>2 DEF Bank!Even
  <2>4. PICK x : x = 8 * (Bank!Even(reg.chr_bank_0) % Bank!Larger(Bank!Chr4 \div 2, 1)) + w
    OBVIOUS
  <2>5. Bank!Mmc1Chr(w) = x % chr_pages
    BY <1>4, <2>4, Zenon DEF Bank!Mmc1Chr
  <2>6. x \in Int
    BY <2>3, <2>4
  <2>7. QED
    BY <1>2, <2>1, <2>5, <2>6, Remainder
<1>5. QED
  BY <1>3, <1>4

LEMMA Mmc2Inside ==
    ASSUME SizesInv, RegInv, board = "Mmc2"
    PROVE  /\ PrgNamed /\ (prg_pages > 0 => LastStays)
           /\ chr_pages # 0 => ChrInside
<1>1. /\ reg.prg_bank \in 0 .. 15
      /\ reg.chr_bank_0_l \in Nat /\ reg.chr_bank_0_r \in Nat
      /\ reg.chr_bank_1_l \in Nat /\ reg.chr_bank_1_r \in Nat
  BY DEF RegInv, Fields, Typed
<1>2. \A w : Bank!PrgPage(w) = Bank!Mmc2Prg(w) /\ prg_pages \in Nat
  BY PageNumbers DEF Bank!PrgPage
<1>3. PrgNamed
  <2>1. \A w \in 0 .. 3 : (IF w = 0 THEN reg.prg_bank ELSE Bank!Minus(prg_pages, 4 - w)) \in Int
    BY <1>1, <1>2 DEF Bank!Minus
  <2>2. PrgInside
    BY <1>2, <2>1, WrappedPage DEF PrgInside, Bank!Mmc2Prg
  <2>3. QED
    BY <2>2, NeverFails
<1>4. prg_pages > 0 => LastStays
  BY <1>2, LastPage DEF LastStays, Bank!Mmc2Prg
<1>5. ASSUME chr_pages # 0, NEW w \in 0 .. 7, NEW s \in BOOLEAN
      PROVE  Bank!ChrPage(w, s) \in 0 .. chr_pages - 1
  <2>1. Bank!ChrPage(w, s) = Bank!Mmc2Chr(w)
    BY <1>5 DEF Bank!ChrPage, Bank!ChrIsRam
  <2>2. PICK bank \in Nat : Bank!Mmc2Chr(w) = Bank!InQuarter(bank, w)
    BY <1>1, <1>5, Zenon DEF Bank!Mmc2Chr
  <2>3. QED
    BY <1>5, <2>1, <2>2, Quarters
<1>6. QED
  BY <1>3, <1>4, <1>5 DEF ChrInside

LEMMA Mmc3Inside ==
    ASSUME SizesInv, RegInv, board = "Mmc3"
    PROVE  /\ PrgNamed /\ (prg_pages > 0 => LastStays)
           /\ chr_pages # 0 => ChrInside
<1>1. prg_pages \in Nat
  BY PageNumbers
<1>2. reg.registers \in [0 .. 7 -> Byte]
  <2>1. "registers" \in DOMAIN Fields /\ Fields["registers"] = [0 .. 7 -> Byte]
    BY DEF Fields
  <2>2. QED
    BY <2>1 DEF RegInv, Typed
<1>3. \A i \in 0 .. 7 : reg.registers[i] \in Int
  <2>1. \A i \in 0 .. 7 : reg.registers[i] \in Byte
    BY <1>2, Cell, Zenon
  <2>2. Byte \subseteq Int
    BY DEF Byte
  <2>3. QED
    BY <2>1, <2>2, Zenon
<1>4. \A w : Bank!PrgPage(w) = Bank!Mmc3Prg(w)
  BY DEF Bank!PrgPage
<1>5. ASSUME NEW w \in 0 .. 3
      PROVE  \E bank \in Int : Bank!Mmc3Prg(w) = Bank!Wrapped(bank)
  <2>1. reg.registers[6] \in Int /\ reg.registers[7] \in Int
        /\ Bank!Minus(prg_pages, 1) \in Int /\ Bank!Minus(prg_pages, 2) \in Int
    BY <1>1, <1>3 DEF Bank!Minus
  <2>2. PICK swapped : swapped = IF reg.prg_mode THEN 2 ELSE 0
    OBVIOUS
  <2>3. PICK bank : bank = CASE w = 3 -> Bank!Minus(prg_pages, 1)
                             [] w = 1 -> reg.registers[7]
                             [] w = swapped -> reg.registers[6]
                             [] OTHER -> Bank!Minus(prg_pages, 2)
    OBVIOUS
  <2>4. bank \in Int
    BY <2>1, <2>3
  <2>5. Bank!Mmc3Prg(w) = Bank!Wrapped(bank)
    BY <2>2, <2>3, Zenon DEF Bank!Mmc3Prg
  <2>6. QED
    BY <2>4, <2>5
<1>6. PrgNamed
  <2>1. PrgInside
    BY <1>4, <1>5, WrappedPage DEF PrgInside
  <2>2. QED
    BY <2>1, NeverFails
<1>7. prg_pages > 0 => LastStays
  <2>1. Bank!Mmc3Prg(3) = Bank!Wrapped(Bank!Minus(prg_pages, 1))
    BY DEF Bank!Mmc3Prg
  <2>2. QED
    BY <1>4, <2>1, LastPage DEF LastStays
<1>8. ASSUME chr_pages # 0, NEW w \in 0 .. 7, NEW s \in BOOLEAN
      PROVE  Bank!ChrPage(w, s) \in 0 .. chr_pages - 1
  <2>1. Bank!ChrPage(w, s) = Bank!Mmc3Chr(w)
    BY <1>8 DEF Bank!ChrPage, Bank!ChrIsRam
  <2>2. PICK v : v = IF reg.chr_mode THEN (w + 4) % 8 ELSE w
    OBVIOUS
  <2>3. (w + 4) % 8 \in 0 .. 7
    OBVIOUS
  <2>4. v \in 0 .. 7
    BY <2>2, <2>3, Zenon
  <2>5. Bank!Mmc3Chr(w) =
          (IF v < 4 THEN Bank!Even(reg.registers[v \div 2]) + (v % 2) ELSE reg.registers[v - 2])
            % chr_pages
    BY <2>2, Zenon DEF Bank!Mmc3Chr
  <2>6. v < 4 => v \div 2 \in 0 .. 7
    BY <2>4
  <2>7. ~(v < 4) => v - 2 \in 0 .. 7
    BY <2>4
  <2>8. (IF v < 4 THEN Bank!Even(reg.registers[v \div 2]) + (v % 2) ELSE reg.registers[v - 2]) \in Int
    BY <1>3, <2>4, <2>6, <2>7 DEF Bank!Even
  <2>9. chr_pages \in Nat \ {0}
    BY <1>8, PageNumbers
  <2>10. QED
    BY <2>1, <2>5, <2>8, <2>9, Remainder
<1>9. QED
  BY <1>6, <1>7, <1>8 DEF ChrInside

LEMMA BankedChr ==
    ASSUME SizesInv, board \in {"Vrc6", "Fme7"}, reg.chr_banks \in [0 .. 7 -> Byte], chr_pages # 0
    PROVE  ChrInside
<1>1. \A w \in 0 .. 7 : reg.chr_banks[w] \in Int
  BY SMTT(30) DEF Byte
<1>2. chr_pages \in Nat \ {0}
  BY PageNumbers
<1>3. \A w, s : Bank!ChrPage(w, s) = reg.chr_banks[w] % chr_pages
  BY DEF Bank!ChrPage, Bank!ChrIsRam
<1>4. QED
  BY <1>1, <1>2, <1>3, Remainder DEF ChrInside

LEMMA Vrc6Inside ==
    ASSUME SizesInv, RegInv, board = "Vrc6"
    PROVE  /\ PrgNamed /\ (prg_pages > 0 => LastStays)
           /\ chr_pages # 0 => ChrInside
<1>1. reg.prg_bank_16k \in 0 .. 15 /\ reg.prg_bank_8k \in 0 .. 31 /\ reg.chr_banks \in [0 .. 7 -> Byte]
  BY DEF RegInv, Fields, Typed
<1>2. \A w : Bank!PrgPage(w) = Bank!Vrc6Prg(w)
  BY DEF Bank!PrgPage
<1>3. prg_pages \in Nat /\ prg_pages = 2 * Bank!Prg16 /\ Bank!Prg16 \in Nat
  BY PageNumbers
<1>4. CASE prg_pages = 0
  <2>1. \A w : Bank!PrgPage(w) = Bank!Nothing
    BY <1>2, <1>4 DEF Bank!Vrc6Prg
  <2>2. PrgInside
    BY <1>4, <2>1 DEF PrgInside, Bank!Nothing
  <2>3. QED
    BY <1>1, <1>4, <2>2, NeverFails, BankedChr
<1>5. CASE prg_pages # 0
  <2>1. reg.prg_bank_16k % Bank!Prg16 \in 0 .. Bank!Prg16 - 1
        /\ reg.prg_bank_8k % prg_pages \in 0 .. prg_pages - 1
    <3>1. reg.prg_bank_16k \in Int /\ reg.prg_bank_8k \in Int
          /\ Bank!Prg16 \in Nat \ {0} /\ prg_pages \in Nat \ {0}
      BY <1>1, <1>3, <1>5
    <3>2. QED
      BY <3>1, Remainder, Zenon
  <2>2. \A w \in 0 .. 3 : Bank!InHalf(reg.prg_bank_16k % Bank!Prg16, w) \in 0 .. prg_pages - 1
    BY <2>1, Halves
  <2>3. \A w \in 0 .. 3 : Bank!PrgPage(w) \in 0 .. prg_pages - 1
    BY <1>2, <1>3, <1>5, <2>1, <2>2 DEF Bank!Vrc6Prg
  <2>4. PrgInside
    BY <1>3, <1>5, <2>3 DEF PrgInside, Bank!Nothing
  <2>5. LastStays
    BY <1>2, <1>3, <1>5 DEF LastStays, Bank!Vrc6Prg
  <2>6. QED
    BY <1>1, <2>4, <2>5, NeverFails, BankedChr
<1>6. QED
  BY <1>4, <1>5

LEMMA Fme7Inside ==
    ASSUME SizesInv, RegInv, board = "Fme7"
    PROVE  /\ PrgNamed /\ (prg_pages > 0 => LastStays)
           /\ chr_pages # 0 => ChrInside
<1>1. reg.prg_banks \in [0 .. 3 -> 0 .. 63] /\ reg.chr_banks \in [0 .. 7 -> Byte]
  BY DEF RegInv, Fields, Typed
<1>2. \A w : Bank!PrgPage(w) = Bank!Fme7Prg(w) /\ prg_pages \in Nat
  BY PageNumbers DEF Bank!PrgPage
<1>3. PrgInside
  <2>1. \A w \in 0 .. 3 :
           (IF w = 3 THEN Bank!Minus(prg_pages, 1) ELSE reg.prg_banks[w + 1]) \in Int
    BY <1>1, <1>2 DEF Bank!Minus
  <2>2. QED
    BY <1>2, <2>1, WrappedPage DEF PrgInside, Bank!Fme7Prg
<1>4. prg_pages > 0 => LastStays
  BY <1>2, LastPage DEF LastStays, Bank!Fme7Prg
<1>5. QED
  BY <1>1, <1>3, <1>4, NeverFails, BankedChr

LEMMA Mmc5Typed ==
    ASSUME RegInv, board = "Mmc5"
    PROVE  /\ reg.prg_mode \in 0 .. 3 /\ reg.chr_mode \in 0 .. 3 /\ reg.chr_high \in 0 .. 3
           /\ reg.prg_bank_8000 \in 0 .. 511 /\ reg.prg_bank_a000 \in 0 .. 511
           /\ reg.prg_bank_c000 \in 0 .. 511 /\ reg.prg_bank_e000 \in UpperHalf
           /\ reg.exram_bank \in 0 .. 63
<1>1. \A f \in DOMAIN Fields : reg[f] \in Fields[f]
  BY DEF RegInv, Typed
<1>2. "prg_mode" \in Modes5 /\ "chr_mode" \in Modes5 /\ "chr_high" \in Modes5
  BY DEF Modes5
<1>3. "prg_bank_8000" \in Pages5 /\ "prg_bank_a000" \in Pages5 /\ "prg_bank_c000" \in Pages5
  BY DEF Pages5
<1>4. reg.prg_mode \in 0 .. 3 /\ reg.chr_mode \in 0 .. 3 /\ reg.chr_high \in 0 .. 3
  BY <1>1, <1>2, Mmc5Fields
<1>5. /\ reg.prg_bank_8000 \in 0 .. 511 /\ reg.prg_bank_a000 \in 0 .. 511
      /\ reg.prg_bank_c000 \in 0 .. 511
  BY <1>1, <1>3, Mmc5Fields DEF PageNumber
<1>6. reg.prg_bank_e000 \in UpperHalf /\ reg.exram_bank \in 0 .. 63
  BY <1>1, Mmc5Fields
<1>7. QED
  BY <1>4, <1>5, <1>6

LEMMA Mmc5ChrTyped ==
    ASSUME RegInv, board = "Mmc5"
    PROVE  /\ \A i \in 0 .. 7 : reg.chr_banks_a[i] \in Int
           /\ \A i \in 0 .. 3 : reg.chr_banks_b[i] \in Int
<1>1. \A f \in DOMAIN Fields : reg[f] \in Fields[f]
  BY DEF RegInv, Typed
<1>2. PICK a : a = reg.chr_banks_a
  OBVIOUS
<1>3. PICK b : b = reg.chr_banks_b
  OBVIOUS
<1>4. "chr_banks_a" \in DOMAIN Fields /\ "chr_banks_b" \in DOMAIN Fields
  BY Mmc5Fields
<1>5. a \in Fields["chr_banks_a"] /\ b \in Fields["chr_banks_b"]
  BY <1>1, <1>2, <1>3, <1>4, Zenon
<1>6. a \in [0 .. 7 -> ChrNumber] /\ b \in [0 .. 3 -> ChrNumber]
  BY <1>5, Mmc5Fields
<1>7. ASSUME NEW i \in 0 .. 7 PROVE reg.chr_banks_a[i] \in Int
  <2>1. a[i] \in ChrNumber
    BY <1>6
  <2>2. a[i] \in Int
    BY <2>1, SMTT(30) DEF ChrNumber
  <2>3. QED
    BY <1>2, <2>2
<1>8. ASSUME NEW i \in 0 .. 3 PROVE reg.chr_banks_b[i] \in Int
  <2>1. b[i] \in ChrNumber
    BY <1>6
  <2>2. b[i] \in Int
    BY <2>1, SMTT(30) DEF ChrNumber
  <2>3. QED
    BY <1>3, <2>2
<1>9. QED
  BY <1>7, <1>8, Zenon

\* Each window has a page number of its own; the last one's has bit 7 in every
\* mode, for the modes touch the lower bits alone.
LEMMA Mmc5BankNumber ==
    ASSUME RegInv, board = "Mmc5"
    PROVE  /\ \A w \in 0 .. 3 : Bank!Mmc5Bank(w) \in 0 .. 511
           /\ Bank!Mmc5Bank(3) \in UpperHalf
<1> DEFINE e == reg.prg_bank_e000
<1>1. /\ reg.prg_mode \in 0 .. 3
      /\ reg.prg_bank_8000 \in 0 .. 511 /\ reg.prg_bank_a000 \in 0 .. 511
      /\ reg.prg_bank_c000 \in 0 .. 511 /\ e \in UpperHalf /\ e \in 0 .. 511
  BY Mmc5Typed DEF UpperHalf
<1>2. \A w \in 0 .. 3 : e - (e % 4) + w \in 0 .. 511 /\ e - (e % 4) + 3 \in UpperHalf
  BY <1>1 DEF UpperHalf
<1>3. /\ Bank!Even(reg.prg_bank_a000) + 0 \in 0 .. 511
      /\ Bank!Even(reg.prg_bank_a000) + 1 \in 0 .. 511
  BY <1>1 DEF Bank!Even
<1>4. Bank!Even(e) \in 0 .. 511 /\ Bank!Even(e) + 1 \in 0 .. 511 /\ Bank!Even(e) + 1 \in UpperHalf
  BY <1>1 DEF Bank!Even, UpperHalf
<1>5. Bank!WithBit7(e) = e
  BY <1>1, HighBit DEF Bank!WithBit7
<1>6. CASE reg.prg_mode = 0
  <2>1. \A w \in 0 .. 3 : Bank!Mmc5Bank(w) = e - (e % 4) + w
    BY <1>6 DEF Bank!Mmc5Bank
  <2>2. QED
    BY <1>2, <2>1
<1>7. CASE reg.prg_mode = 1
  <2>1. /\ Bank!Mmc5Bank(0) = Bank!Even(reg.prg_bank_a000) + 0
        /\ Bank!Mmc5Bank(1) = Bank!Even(reg.prg_bank_a000) + 1
        /\ Bank!Mmc5Bank(2) = Bank!Even(e) + 2 - 2
        /\ Bank!Mmc5Bank(3) = Bank!Even(e) + 3 - 2
    BY <1>7 DEF Bank!Mmc5Bank
  <2>2. /\ Bank!Mmc5Bank(0) \in 0 .. 511 /\ Bank!Mmc5Bank(1) \in 0 .. 511
    BY <1>3, <2>1, Zenon
  <2>3. PICK x : x = Bank!Even(e)
    OBVIOUS
  <2>4. Bank!Mmc5Bank(2) = x /\ Bank!Mmc5Bank(3) = x + 1
    BY <1>4, <2>1, <2>3
  <2>5. QED
    BY <1>4, <2>2, <2>3, <2>4
<1>8. CASE reg.prg_mode = 2
  <2>1. /\ Bank!Mmc5Bank(0) = Bank!Even(reg.prg_bank_a000) + 0
        /\ Bank!Mmc5Bank(1) = Bank!Even(reg.prg_bank_a000) + 1
        /\ Bank!Mmc5Bank(2) = reg.prg_bank_c000
        /\ Bank!Mmc5Bank(3) = e
    BY <1>5, <1>8 DEF Bank!Mmc5Bank
  <2>2. /\ Bank!Mmc5Bank(0) \in 0 .. 511 /\ Bank!Mmc5Bank(1) \in 0 .. 511
    BY <1>3, <2>1, Zenon
  <2>3. QED
    BY <1>1, <2>1, <2>2
<1>9. CASE reg.prg_mode = 3
  <2>1. /\ Bank!Mmc5Bank(0) = reg.prg_bank_8000
        /\ Bank!Mmc5Bank(1) = reg.prg_bank_a000
        /\ Bank!Mmc5Bank(2) = reg.prg_bank_c000
        /\ Bank!Mmc5Bank(3) = e
    BY <1>5, <1>9 DEF Bank!Mmc5Bank
  <2>2. QED
    BY <1>1, <2>1
<1>10. QED
  BY <1>1, <1>6, <1>7, <1>8, <1>9

LEMMA Mmc5PrgInside ==
    ASSUME SizesInv, RegInv, board = "Mmc5"
    PROVE  PrgNamed /\ ~Bank!ShowsRam(3)
<1>1. ~Bank!ShowsRam(3)
  BY Mmc5BankNumber, HighBit DEF Bank!ShowsRam
<1>2. prg_pages \in Nat
  BY PageNumbers
<1>3. ASSUME NEW w \in 0 .. 3
      PROVE  /\ Bank!PrgPage(w) \in Bank!Nothing .. Bank!LastPrg(w)
             /\ Bank!PrgPage(w) = Bank!Nothing => prg_pages < 4
  <2>1. Bank!PrgPage(w) = Bank!Mmc5Prg(w)
    BY DEF Bank!PrgPage
  <2>2. PICK x : x = Bank!Mmc5Bank(w)
    OBVIOUS
  <2>3. x \in Int
    BY <2>2, Mmc5BankNumber
  <2>4. CASE Bank!ShowsRam(w)
    <3>1. Bank!Mmc5Prg(w) = x % 8 /\ Bank!LastPrg(w) = 7
      BY <2>2, <2>4, Zenon DEF Bank!Mmc5Prg, Bank!LastPrg
    <3>2. x % 8 \in 0 .. 7
      BY <2>3
    <3>3. QED
      BY <2>1, <3>1, <3>2 DEF Bank!Nothing
  <2>5. CASE ~Bank!ShowsRam(w)
    <3>1. Bank!Mmc5Prg(w) = Bank!Wrapped(x % 128) /\ Bank!LastPrg(w) = prg_pages - 1
      BY <2>2, <2>5, Zenon DEF Bank!Mmc5Prg, Bank!LastPrg
    <3>2. (x % 128) \in Int
      BY <2>3
    <3>3. QED
      BY <2>1, <3>1, <3>2, WrappedPage
  <2>6. QED
    BY <2>4, <2>5
<1>4. \A w : ~Bank!PrgFails(w)
  BY DEF Bank!PrgFails
<1>5. QED
  BY <1>1, <1>3, <1>4, Zenon DEF PrgNamed

LEMMA Mmc5ChrInside ==
    ASSUME SizesInv, RegInv, board = "Mmc5", chr_pages # 0
    PROVE  ChrInside
<1>1. reg.chr_mode \in 0 .. 3 /\ reg.chr_high \in 0 .. 3 /\ reg.exram_bank \in 0 .. 63
  BY Mmc5Typed
<1>2. chr_pages \in Nat \ {0}
  BY PageNumbers
<1> SUFFICES ASSUME NEW w \in 0 .. 7, NEW s \in BOOLEAN
             PROVE  Bank!ChrPage(w, s) \in 0 .. chr_pages - 1
  BY DEF ChrInside
<1>3. Bank!ChrPage(w, s) = Bank!Mmc5Chr(w, s)
  BY DEF Bank!ChrPage, Bank!ChrIsRam
<1>4. PICK b : b = Bank!UsesSetB(s)
  OBVIOUS
<1>5. PICK v : v = IF b THEN w % 4 ELSE w
  OBVIOUS
<1>6. PICK size : size = Bank!Place(3 - reg.chr_mode)
  OBVIOUS
<1>7. PICK i : i = (v \div size) * size + size - 1
  OBVIOUS
<1>8. v \in 0 .. 7
  <2>1. w % 4 \in 0 .. 7
    OBVIOUS
  <2>2. QED
    BY <1>5, <2>1, Zenon
<1>9. size \in {1, 2, 4, 8}
  <2>1. reg.chr_mode \in 0 .. 3
    BY <1>1
  <2>2. PICK n \in 0 .. 3 : n = 3 - reg.chr_mode
    BY <2>1
  <2>3. Bank!Place(n) \in {1, 2, 4, 8}
    BY <2>2 DEF Bank!Place
  <2>4. QED
    BY <1>6, <2>2, <2>3, Zenon
<1>10. i \in 0 .. 7
  BY <1>7, <1>8, <1>9
<1>11. PICK base : base = IF b THEN reg.chr_banks_b[IF i > 3 THEN 3 ELSE i] ELSE reg.chr_banks_a[i]
  OBVIOUS
<1>12. base \in Int
  <2>1. reg.chr_banks_a[i] \in Int
    BY <1>10, Mmc5ChrTyped, Zenon
  <2>2. PICK k : k = IF i > 3 THEN 3 ELSE i
    OBVIOUS
  <2>3. k \in 0 .. 3
    BY <1>10, <2>2
  <2>4. \A n \in 0 .. 3 : reg.chr_banks_b[n] \in Int
    BY Mmc5ChrTyped, Zenon
  <2>5. reg.chr_banks_b[k] \in Int
    BY <2>3, <2>4, Zenon
  <2>6. QED
    BY <1>11, <2>1, <2>2, <2>5, Zenon
<1>13. PICK own : own = base * size + (v % size)
  OBVIOUS
<1>14. PICK extended : extended = 4 * (64 * reg.chr_high + reg.exram_bank) + (w % 4)
  OBVIOUS
<1>15. own \in Int /\ extended \in Int
  <2>1. v % size \in Int
    BY <1>8, <1>9
  <2>2. base * size \in Int
    BY <1>9, <1>12
  <2>3. own \in Int
    BY <1>13, <2>1, <2>2
  <2>4. reg.chr_high \in 0 .. 3 /\ reg.exram_bank \in 0 .. 63
    BY <1>1
  <2>5. extended \in Int
    BY <1>14, <2>4
  <2>6. QED
    BY <2>3, <2>5
<1>16. Bank!Mmc5Chr(w, s) =
         (IF ~s /\ reg.exram_mode = 1 THEN extended ELSE own) % chr_pages
  BY <1>4, <1>5, <1>6, <1>7, <1>11, <1>13, <1>14, Zenon DEF Bank!Mmc5Chr
<1>17. PICK bank : bank = IF ~s /\ reg.exram_mode = 1 THEN extended ELSE own
  OBVIOUS
<1>18. bank \in Int
  BY <1>15, <1>17, Zenon
<1>19. Bank!Mmc5Chr(w, s) = bank % chr_pages
  BY <1>16, <1>17, Zenon
<1>20. QED
  BY <1>2, <1>3, <1>18, <1>19, Remainder

LEMMA BanksInside ==
    ASSUME BanksInv
    PROVE  Bank!InsideRom /\ Bank!VectorsStay
<1>1. board \in Bank!Boards /\ SizesInv /\ RegInv
  BY DEF BanksInv, SizesInv
<1>2. PrgNamed
  BY <1>1, FixedInside, UnromInside, AxromInside, Mmc1Inside, Mmc2Inside, Mmc3Inside, Vrc6Inside,
     Fme7Inside, Mmc5PrgInside DEF Bank!Boards
<1>3. ChrNamed
  <2>1. ASSUME board = "Nrom", chr_pages # 0 PROVE ~Bank!ChrIsRam => ChrInside
    <3>1. \A w, s : ~Bank!ChrIsRam => Bank!ChrPage(w, s) = w
      BY <2>1 DEF Bank!ChrPage
    <3>2. chr_pages \in Nat /\ chr_pages > 7
      BY <1>1, <2>1 DEF SizesInv
    <3>3. QED
      BY <3>1, <3>2 DEF ChrInside
  <2>2. board \in {"Unrom", "Axrom"} => Bank!ChrIsRam
    BY DEF Bank!ChrIsRam
  <2>3. ~Bank!ChrIsRam /\ chr_pages # 0 => ChrInside
    BY <1>1, <2>1, <2>2, CnromInside, Mmc1ChrInside, Mmc2Inside, Mmc3Inside, Vrc6Inside,
       Fme7Inside, Mmc5ChrInside DEF Bank!Boards
  <2>4. QED
    BY <1>1, <2>3, NamedChr
<1>4. Bank!InsideRom
  BY <1>2, <1>3, Zenon DEF Bank!InsideRom, PrgNamed, ChrNamed
<1>5. prg_pages > 0 =>
        /\ board \in {"Unrom", "Mmc2", "Mmc3", "Vrc6", "Fme7"} => LastStays
        /\ board = "Mmc1" /\ Bank!Mmc1Mode = 3 => LastStays
  BY <1>1, UnromInside, Mmc1Inside, Mmc2Inside, Mmc3Inside, Vrc6Inside, Fme7Inside
<1>6. ~Bank!ShowsRam(3)
  BY <1>1, NoRam, Mmc5PrgInside
<1>7. Bank!VectorsStay
  BY <1>5, <1>6, Zenon DEF Bank!VectorsStay, LastStays
<1>8. QED
  BY <1>4, <1>7

(* The shift register of Mmc1.                                              *)

\* What the first n bits of a history amount to, the first one lowest.
FirstBits(sent, n) ==
    (IF n >= 1 THEN sent[1] ELSE 0) + (IF n >= 2 THEN 2 * sent[2] ELSE 0)
      + (IF n >= 3 THEN 4 * sent[3] ELSE 0) + (IF n >= 4 THEN 8 * sent[4] ELSE 0)
      + (IF n >= 5 THEN 16 * sent[5] ELSE 0)

\* The shift register holds the bits sent since the last reset or register.
Holds(sent, count, shift) ==
    /\ sent \in Seq(Bits)
    /\ Len(sent) = count \/ (Len(sent) = 5 /\ count = 0)
    /\ shift % Bank!Place(count) = FirstBits(sent, count)

BitsInv ==
    board = "Mmc1" =>
       /\ Holds(bits, reg.write_count, reg.shift_register)
       /\ slot # <<>> => Holds(seen[2], slot.write_count, slot.shift_register)

LEMMA AppendBit ==
    ASSUME NEW sent \in Seq(Bits), NEW n \in 0 .. 4, Len(sent) = n, NEW bit \in Bits
    PROVE  /\ Append(sent, bit) \in Seq(Bits) /\ Len(Append(sent, bit)) = n + 1
           /\ FirstBits(Append(sent, bit), n + 1) = FirstBits(sent, n) + bit * Bank!Place(n)
<1>1. PICK longer : longer = Append(sent, bit)
  OBVIOUS
<1>2. /\ longer \in Seq(Bits) /\ Len(longer) = n + 1 /\ longer[n + 1] = bit
      /\ \A i \in 1 .. n : longer[i] = sent[i]
  BY <1>1
<1>3. bit \in 0 .. 1
  BY DEF Bits
<1>4. \A i \in 1 .. n : sent[i] \in 0 .. 1
  BY DEF Bits
<1>5. FirstBits(longer, n + 1) = FirstBits(sent, n) + bit * Bank!Place(n)
  <2>1. CASE n = 0
    BY <1>2, <1>3, <2>1, Places DEF FirstBits
  <2>2. CASE n = 1
    BY <1>2, <1>3, <1>4, <2>2, Places DEF FirstBits
  <2>3. CASE n = 2
    BY <1>2, <1>3, <1>4, <2>3, Places DEF FirstBits
  <2>4. CASE n = 3
    BY <1>2, <1>3, <1>4, <2>4, Places DEF FirstBits
  <2>5. CASE n = 4
    BY <1>2, <1>3, <1>4, <2>5, Places DEF FirstBits
  <2>6. QED
    BY <2>1, <2>2, <2>3, <2>4, <2>5
<1>6. QED
  BY <1>1, <1>2, <1>5

LEMMA SentBits ==
    ASSUME NEW sent \in Seq(Bits), NEW n \in 0 .. 5, Len(sent) = n
    PROVE  \A i \in 1 .. n : sent[i] \in 0 .. 1
  BY DEF Bits

LEMMA FiveBits ==
    ASSUME NEW sent \in Seq(Bits), Len(sent) = 5
    PROVE  FirstBits(sent, 5) = sent[1] + 2 * sent[2] + 4 * sent[3] + 8 * sent[4] + 16 * sent[5]
<1>1. 5 \in 0 .. 5
  OBVIOUS
<1>2. \A i \in 1 .. 5 : sent[i] \in 0 .. 1
  BY <1>1, SentBits, Zenon
<1>3. QED
  BY <1>2 DEF FirstBits

LEMMA Mmc1Typed ==
    ASSUME RegInv, board = "Mmc1"
    PROVE  /\ reg.shift_register \in 0 .. 31 /\ reg.write_count \in 0 .. 4
           /\ DOMAIN reg = {"shift_register", "write_count", "control",
                            "chr_bank_0", "chr_bank_1", "prg_bank"}
  BY Mmc1Fields DEF RegInv, Typed

LEMMA OnlyMmc1 ==
    ASSUME board = "Mmc1", Bank!Write
    PROVE  Bank!WriteMmc1
  BY Zenon DEF Bank!Write, Bank!WriteUnrom, Bank!WriteCnrom, Bank!WriteAxrom, Bank!Plain

\* Both the register and its history take the bit.
LEMMA BitSent ==
    ASSUME RegInv, BitsInv, board = "Mmc1", NEW bit \in Bits,
           NEW sent, sent = IF Len(bits) = 5 THEN <<>> ELSE bits
    PROVE  /\ sent \in Seq(Bits) /\ Len(sent) = reg.write_count
           /\ Append(sent, bit) \in Seq(Bits) /\ Len(Append(sent, bit)) = reg.write_count + 1
           /\ Bank!Shifted(bit) \in 0 .. 31
           /\ Bank!Shifted(bit) % (2 * Bank!Place(reg.write_count))
                = FirstBits(Append(sent, bit), reg.write_count + 1)
<1>1. reg.shift_register \in 0 .. 31 /\ reg.write_count \in 0 .. 4
  BY Mmc1Typed
<1>2. PICK count \in 0 .. 4 : count = reg.write_count
  BY <1>1
<1>3. Holds(bits, count, reg.shift_register)
  BY <1>2, Zenon DEF BitsInv
<1>4. bits \in Seq(Bits) /\ (Len(bits) = count \/ (Len(bits) = 5 /\ count = 0))
  BY <1>3, Zenon DEF Holds
<1>5. sent \in Seq(Bits) /\ Len(sent) = count
  <2>1. CASE Len(bits) = 5
    BY <1>4, <2>1
  <2>2. CASE Len(bits) # 5
    BY <1>4, <2>2
  <2>3. QED
    BY <2>1, <2>2
<1>6. FirstBits(sent, count) = FirstBits(bits, count)
  <2>1. CASE Len(bits) = 5
    BY <1>2, <1>4, <2>1 DEF FirstBits
  <2>2. CASE Len(bits) # 5
    BY <2>2
  <2>3. QED
    BY <2>1, <2>2
<1>7. reg.shift_register % Bank!Place(count) = FirstBits(sent, count)
  BY <1>3, <1>6, Zenon DEF Holds
<1>8. /\ Append(sent, bit) \in Seq(Bits) /\ Len(Append(sent, bit)) = count + 1
      /\ FirstBits(Append(sent, bit), count + 1) = FirstBits(sent, count) + bit * Bank!Place(count)
  BY <1>5, AppendBit, Zenon
<1>9. /\ Bank!Shifted(bit) \in 0 .. 31
      /\ Bank!Shifted(bit) % (2 * Bank!Place(reg.write_count))
           = (reg.shift_register % Bank!Place(reg.write_count)) + bit * Bank!Place(reg.write_count)
  BY <1>1, ShiftedBit, Zenon
<1>10. QED
  BY <1>2, <1>5, <1>7, <1>8, <1>9, Zenon

LEMMA DoublePlace ==
    ASSUME NEW n \in 0 .. 3
    PROVE  2 * Bank!Place(n) = Bank!Place(n + 1)
<1>1. 2 * 1 = 2 /\ 2 * 2 = 4 /\ 2 * 4 = 8 /\ 2 * 8 = 16
  OBVIOUS
<1>2. (0 + 1 = 1 /\ 1 + 1 = 2 /\ 2 + 1 = 3 /\ 3 + 1 = 4) /\ (n = 0 \/ n = 1 \/ n = 2 \/ n = 3)
  OBVIOUS
<1>3. QED
  BY <1>1, <1>2, Places, Zenon

LEMMA BitsInit ==
    ASSUME Bank!Init
    PROVE  BitsInv
<1>1. slot = <<>> /\ bits = <<>> /\ \E prg : reg = Bank!NewReg(board, prg)
  BY Zenon DEF Bank!Init, Bank!Start
<1>2. ASSUME board = "Mmc1" PROVE Holds(bits, reg.write_count, reg.shift_register)
  <2>1. reg = Bank!NewMmc1
    BY <1>1, <1>2 DEF Bank!NewReg
  <2>2. reg.write_count = 0 /\ reg.shift_register = 16
    BY <2>1 DEF Bank!NewMmc1
  <2>3. Holds(<<>>, 0, 16)
    BY Places DEF Holds, FirstBits
  <2>4. QED
    BY <1>1, <2>2, <2>3, Zenon
<1>3. QED
  BY <1>1, <1>2, Zenon DEF BitsInv

LEMMA ResetKeepsBits ==
    ASSUME RegInv, board = "Mmc1", Bank!ResetMmc1
    PROVE  Holds(bits, reg.write_count, reg.shift_register)' /\ last' = "none"
<1>1. bits' = <<>> /\ last' = "none"
      /\ reg' = [reg EXCEPT !.shift_register = 16, !.write_count = 0,
                            !.control = @ - ((@ \div 4) % 4) * 4 + 12]
  BY DEF Bank!ResetMmc1, Bank!Become
<1>2. DOMAIN reg = {"shift_register", "write_count", "control",
                    "chr_bank_0", "chr_bank_1", "prg_bank"}
  BY Mmc1Typed
<1>3. reg'.write_count = 0 /\ reg'.shift_register = 16
  BY <1>1, <1>2
<1>4. Holds(<<>>, 0, 16)
  BY Places DEF Holds, FirstBits
<1>5. Holds(bits', reg'.write_count, reg'.shift_register)
  BY <1>1, <1>3, <1>4, Zenon
<1>6. QED
  BY <1>1, <1>5 DEF Holds, FirstBits, Bank!Place

LEMMA ShiftKeepsBits ==
    ASSUME RegInv, BitsInv, NEW bit \in Bits, Bank!ShiftMmc1(bit)
    PROVE  Holds(bits, reg.write_count, reg.shift_register)' /\ last' = "none"
<1>1. /\ board = "Mmc1" /\ reg.write_count < 4 /\ last' = "none"
      /\ reg' = [reg EXCEPT !.shift_register = Bank!Shifted(bit), !.write_count = @ + 1]
      /\ bits' = Append(IF Len(bits) = 5 THEN <<>> ELSE bits, bit)
  BY DEF Bank!ShiftMmc1, Bank!Become
<1>2. DOMAIN reg = {"shift_register", "write_count", "control",
                    "chr_bank_0", "chr_bank_1", "prg_bank"}
  BY <1>1, Mmc1Typed
<1>3. PICK count \in 0 .. 3 : count = reg.write_count
  BY <1>1, Mmc1Typed
<1>4. PICK sent : sent = IF Len(bits) = 5 THEN <<>> ELSE bits
  OBVIOUS
<1>5. /\ bits' = Append(sent, bit) /\ bits' \in Seq(Bits) /\ Len(bits') = count + 1
      /\ Bank!Shifted(bit) % (2 * Bank!Place(count)) = FirstBits(bits', count + 1)
  BY <1>1, <1>3, <1>4, BitSent, Zenon
<1>6. Holds(bits', count + 1, Bank!Shifted(bit))
  BY <1>5, DoublePlace, Zenon DEF Holds
<1>7. reg'.write_count = reg.write_count + 1 /\ reg'.shift_register = Bank!Shifted(bit)
  BY <1>1, <1>2
<1>8. Holds(bits', reg'.write_count, reg'.shift_register)
  BY <1>3, <1>6, <1>7, Zenon
<1>9. QED
  BY <1>1, <1>8 DEF Holds, FirstBits, Bank!Place

LEMMA FillKeepsBits ==
    ASSUME RegInv, BitsInv, NEW bit \in Bits,
           NEW g \in {"control", "chr_bank_0", "chr_bank_1", "prg_bank"},
           Bank!FillMmc1(bit, g)
    PROVE  Holds(bits, reg.write_count, reg.shift_register)' /\ Bank!TakesFiveBits
<1>1. /\ board = "Mmc1" /\ reg.write_count = 4 /\ last' = g
      /\ reg' = [reg EXCEPT ![g] = Bank!Shifted(bit) % 32, !.shift_register = 0, !.write_count = 0]
      /\ bits' = Append(bits, bit)
  BY DEF Bank!FillMmc1, Bank!Become
<1>2. DOMAIN reg = {"shift_register", "write_count", "control",
                    "chr_bank_0", "chr_bank_1", "prg_bank"}
  BY <1>1, Mmc1Typed
<1>3. Len(bits) = 4
  <2>1. Holds(bits, 4, reg.shift_register)
    BY <1>1, Zenon DEF BitsInv
  <2>2. QED
    BY <2>1 DEF Holds
<1>4. bits = IF Len(bits) = 5 THEN <<>> ELSE bits
  BY <1>3
<1>5. /\ bits' \in Seq(Bits) /\ Len(bits') = reg.write_count + 1
      /\ Bank!Shifted(bit) % (2 * Bank!Place(reg.write_count))
           = FirstBits(bits', reg.write_count + 1)
  BY <1>1, <1>4, BitSent, Zenon
<1>6. 4 + 1 = 5 /\ 2 * 16 = 32
  OBVIOUS
<1>7. Len(bits') = 5 /\ Bank!Shifted(bit) % 32 = FirstBits(bits', 5)
  BY <1>1, <1>5, <1>6, Places, Zenon
<1>8. reg'.write_count = 0 /\ reg'.shift_register = 0 /\ reg'[g] = Bank!Shifted(bit) % 32
  BY <1>1, <1>2
<1>9. Holds(bits', 0, 0)
  BY <1>5, <1>7, Places, SMTT(30) DEF Holds, FirstBits
<1>10. Holds(bits, reg.write_count, reg.shift_register)'
  <2>1. Holds(bits', reg'.write_count, reg'.shift_register)
    BY <1>8, <1>9, Zenon
  <2>2. QED
    BY <2>1 DEF Holds, FirstBits, Bank!Place
<1>11. FirstBits(bits', 5) = bits'[1] + 2 * bits'[2] + 4 * bits'[3] + 8 * bits'[4] + 16 * bits'[5]
  BY <1>5, <1>7, FiveBits, Zenon
<1>12. Bank!TakesFiveBits
  BY <1>1, <1>7, <1>8, <1>11, Zenon DEF Bank!TakesFiveBits
<1>13. QED
  BY <1>10, <1>12

\* "none" and "load" name no register.
LEMMA NoRegister ==
    ASSUME SizesInv, RegInv
    PROVE  "none" \notin DOMAIN reg /\ "load" \notin DOMAIN reg
<1>1. CASE board = "Nrom"
  BY <1>1 DEF RegInv
<1>2. CASE board # "Nrom"
  <2>1. DOMAIN reg = DOMAIN Fields
    BY <1>2 DEF RegInv, Typed
  <2>2. "none" \notin DOMAIN Fields /\ "load" \notin DOMAIN Fields
    <3>1. board \in {"Unrom", "Cnrom", "Axrom", "Mmc1", "Mmc2", "Mmc3", "Mmc5", "Vrc6", "Fme7"}
      BY <1>2 DEF SizesInv, Bank!Boards
    <3>2. CASE board = "Mmc5"
      BY <3>2 DEF Fields
    <3>3. CASE board \in {"Unrom", "Cnrom", "Axrom", "Vrc6"}
      BY <3>3 DEF Fields
    <3>4. CASE board \in {"Mmc1", "Mmc2", "Mmc3", "Fme7"}
      BY <3>4 DEF Fields
    <3>5. QED
      BY <3>1, <3>2, <3>3, <3>4
  <2>3. QED
    BY <2>1, <2>2
<1>3. QED
  BY <1>1, <1>2

LEMMA OthersSetNone ==
    ASSUME Bank!Write, board # "Mmc1"
    PROVE  last' = "none"
<1>1. \A b, r : Bank!Plain(b, r) => last' = "none"
  BY Zenon DEF Bank!Plain
<1>2. ~Bank!WriteMmc1
  BY Zenon DEF Bank!WriteMmc1, Bank!ResetMmc1, Bank!ShiftMmc1, Bank!FillMmc1
<1>3. Bank!ChrReadMmc2 => last' = "none"
  BY <1>1, Zenon DEF Bank!ChrReadMmc2
<1>4. ASSUME NEW val \in Values
      PROVE  /\ Bank!WriteUnrom(val) \/ Bank!WriteCnrom(val) \/ Bank!WriteAxrom(val) => last' = "none"
             /\ Bank!WriteMmc2(val) => last' = "none"
             /\ Bank!WriteMmc3(val) => last' = "none"
             /\ Bank!WriteVrc6(val) => last' = "none"
             /\ Bank!WriteFme7(val) => last' = "none"
             /\ Bank!WriteMmc5(val) => last' = "none"
  <2>1. Bank!WriteUnrom(val) \/ Bank!WriteCnrom(val) \/ Bank!WriteAxrom(val) => last' = "none"
    BY <1>1, Zenon DEF Bank!WriteUnrom, Bank!WriteCnrom, Bank!WriteAxrom
  <2>2. Bank!WriteMmc2(val) => last' = "none"
    BY <1>1, Zenon DEF Bank!WriteMmc2
  <2>3. Bank!WriteMmc3(val) => last' = "none"
    BY <1>1, Zenon DEF Bank!WriteMmc3
  <2>4. Bank!WriteVrc6(val) => last' = "none"
    BY <1>1, Zenon DEF Bank!WriteVrc6
  <2>5. Bank!WriteFme7(val) => last' = "none"
    BY <1>1, Zenon DEF Bank!WriteFme7
  <2>6. Bank!WriteMmc5(val) => last' = "none"
    BY <1>1, Zenon DEF Bank!WriteMmc5
  <2>7. QED
    BY <2>1, <2>2, <2>3, <2>4, <2>5, <2>6, Zenon
<1>5. QED
  BY <1>2, <1>3, <1>4, Zenon DEF Bank!Write

LEMMA WriteTakesFiveBits ==
    ASSUME BanksInv, BitsInv, Bank!Write
    PROVE  BitsInv' /\ Bank!TakesFiveBits
<1>1. UNCHANGED <<board, prg_pages, chr_pages, slot, seen>> /\ SizesInv' /\ RegInv'
  BY WriteKeepsSizes, BanksKeep, Zenon DEF BanksInv, Bank!Next
<1>2. "none" \notin DOMAIN reg
  BY NoRegister DEF BanksInv
<1>3. CASE board = "Mmc1"
  <2>1. Bank!WriteMmc1 /\ RegInv
    BY <1>3, OnlyMmc1, Zenon DEF BanksInv
  <2>2. Holds(bits, reg.write_count, reg.shift_register)'
    <3>1. CASE Bank!ResetMmc1
      BY <1>3, <2>1, <3>1, ResetKeepsBits
    <3>2. ASSUME NEW bit \in Bits, Bank!ShiftMmc1(bit)
          PROVE  Holds(bits, reg.write_count, reg.shift_register)'
      BY <2>1, <3>2, ShiftKeepsBits
    <3>3. ASSUME NEW bit \in Bits, NEW g \in {"control", "chr_bank_0", "chr_bank_1", "prg_bank"},
                 Bank!FillMmc1(bit, g)
          PROVE  Holds(bits, reg.write_count, reg.shift_register)'
      BY <2>1, <3>3, FillKeepsBits
    <3>4. QED
      BY <2>1, <3>1, <3>2, <3>3, Zenon DEF Bank!WriteMmc1, Bits
  <2>3. Bank!TakesFiveBits
    <3>1. last' = "none" => Bank!TakesFiveBits
      BY <1>2, Zenon DEF Bank!TakesFiveBits
    <3>2. Bank!ResetMmc1 => last' = "none"
      BY Zenon DEF Bank!ResetMmc1
    <3>3. \A bit \in Bits : Bank!ShiftMmc1(bit) => last' = "none"
      BY Zenon DEF Bank!ShiftMmc1
    <3>4. ASSUME NEW bit \in Bits, NEW g \in {"control", "chr_bank_0", "chr_bank_1", "prg_bank"},
                 Bank!FillMmc1(bit, g)
          PROVE  Bank!TakesFiveBits
      BY <2>1, <3>4, FillKeepsBits
    <3>5. QED
      BY <2>1, <3>1, <3>2, <3>3, <3>4, Zenon DEF Bank!WriteMmc1, Bits
  <2>4. slot' # <<>> => Holds(seen[2], slot.write_count, slot.shift_register)'
    BY <1>1, <1>3 DEF BitsInv, Holds, FirstBits, Bank!Place
  <2>5. QED
    BY <2>2, <2>3, <2>4 DEF BitsInv
<1>4. CASE board # "Mmc1"
  <2>1. last' = "none"
    BY <1>4, OthersSetNone
  <2>2. Bank!TakesFiveBits
    BY <1>2, <2>1, Zenon DEF Bank!TakesFiveBits
  <2>3. BitsInv'
    BY <1>1, <1>4 DEF BitsInv
  <2>4. QED
    BY <2>2, <2>3
<1>5. QED
  BY <1>3, <1>4

LEMMA BitsKeep ==
    ASSUME BanksInv, BitsInv, [Bank!Next]_(Bank!vars)
    PROVE  BitsInv' /\ [Bank!TakesFiveBits]_(Bank!vars)
<1>1. SizesInv /\ RegInv
  BY DEF BanksInv
<1>2. "none" \notin DOMAIN reg /\ "load" \notin DOMAIN reg
  BY <1>1, NoRegister
<1>3. CASE Bank!Write
  BY <1>3, WriteTakesFiveBits
<1>4. CASE Bank!SaveState
  <2>1. /\ UNCHANGED <<board, reg, bits>> /\ last' = "none"
        /\ slot' = [f \in Bank!SavedFields |-> reg[f]] /\ seen' = <<Bank!View, bits>>
    BY <1>4 DEF Bank!SaveState
  <2>2. Bank!TakesFiveBits
    BY <1>2, <2>1, Zenon DEF Bank!TakesFiveBits
  <2>3. ASSUME board = "Mmc1" PROVE BitsInv'
    <3>1. Bank!SavedFields = DOMAIN reg
      BY <2>3 DEF Bank!SavedFields
    <3>2. "write_count" \in DOMAIN reg /\ "shift_register" \in DOMAIN reg
      BY <1>1, <2>3, Mmc1Typed
    <3>3. slot'.write_count = reg.write_count /\ slot'.shift_register = reg.shift_register
      BY <2>1, <3>1, <3>2
    <3>4. seen'[2] = bits
      BY <2>1
    <3>5. Holds(bits, reg.write_count, reg.shift_register)
      BY <2>3, Zenon DEF BitsInv
    <3>6. Holds(seen'[2], slot'.write_count, slot'.shift_register)
      BY <3>3, <3>4, <3>5, Zenon
    <3>7. Holds(bits', reg'.write_count, reg'.shift_register)
      BY <2>1, <3>5, Zenon
    <3>8. QED
      BY <3>6, <3>7 DEF BitsInv, Holds, FirstBits, Bank!Place
  <2>4. board # "Mmc1" => BitsInv'
    BY <2>1 DEF BitsInv
  <2>5. QED
    BY <2>2, <2>3, <2>4
<1>5. CASE Bank!LoadState
  <2>1. /\ UNCHANGED <<board, slot, seen>> /\ last' = "load" /\ slot # <<>> /\ bits' = seen[2]
        /\ reg' = [f \in DOMAIN reg |-> IF f \in DOMAIN slot THEN slot[f] ELSE reg[f]]
    BY <1>5 DEF Bank!LoadState
  <2>2. Bank!TakesFiveBits
    BY <1>2, <2>1, Zenon DEF Bank!TakesFiveBits
  <2>3. ASSUME board = "Mmc1" PROVE BitsInv'
    <3>1. DOMAIN slot = DOMAIN Fields
      BY <2>1, <2>3 DEF BanksInv, SlotInv
    <3>2. "write_count" \in DOMAIN reg /\ "shift_register" \in DOMAIN reg
      BY <1>1, <2>3, Mmc1Typed
    <3>3. "write_count" \in DOMAIN slot /\ "shift_register" \in DOMAIN slot
      BY <2>3, <3>1, Mmc1Fields
    <3>4. reg'.write_count = slot.write_count /\ reg'.shift_register = slot.shift_register
      BY <2>1, <3>2, <3>3
    <3>5. Holds(seen[2], slot.write_count, slot.shift_register)
      BY <2>1, <2>3, Zenon DEF BitsInv
    <3>6. Holds(bits', reg'.write_count, reg'.shift_register)
      BY <2>1, <3>4, <3>5, Zenon
    <3>7. Holds(seen'[2], slot'.write_count, slot'.shift_register)
      BY <2>1, <3>5, Zenon
    <3>8. QED
      BY <3>6, <3>7 DEF BitsInv, Holds, FirstBits, Bank!Place
  <2>4. board # "Mmc1" => BitsInv'
    BY <2>1 DEF BitsInv
  <2>5. QED
    BY <2>2, <2>3, <2>4
<1>6. CASE UNCHANGED Bank!vars
  <2>1. UNCHANGED <<board, reg, slot, bits, seen>>
    BY <1>6 DEF Bank!vars
  <2>2. QED
    BY <1>6, <2>1 DEF BitsInv, Holds, FirstBits, Bank!Place
<1>7. QED
  BY <1>3, <1>4, <1>5, <1>6 DEF Bank!Next

(* What a loaded state shows.                                               *)

\* The board with registers r, in a cartridge of these sizes.
Saved(r, b, prg, chr) ==
    INSTANCE Banks WITH reg <- r, board <- b, prg_pages <- prg, chr_pages <- chr

\* The registers after a load.
Loaded == [f \in DOMAIN reg |-> IF f \in DOMAIN slot THEN slot[f] ELSE reg[f]]

IsLoaded(r, b, p, c) == r = Loaded /\ b = board /\ p = prg_pages /\ c = chr_pages

\* A state, once loaded, shows what was seen when it was saved.
SeenInv ==
    slot # <<>> => \A r, b, p, c : IsLoaded(r, b, p, c) => Saved(r, b, p, c)!View = seen[1]

LEMMA ViewNow ==
    Bank!View = Saved(reg, board, prg_pages, chr_pages)!View
  BY Zenon
     DEF Bank!View, Saved!View, Bank!PrgPage, Saved!PrgPage, Bank!LowWindow, Saved!LowWindow,
         Bank!ChrPage, Saved!ChrPage, Bank!ShowsRam, Saved!ShowsRam, Bank!Mmc5Bank,
         Saved!Mmc5Bank, Bank!NromPrg, Saved!NromPrg, Bank!UnromPrg, Saved!UnromPrg,
         Bank!AxromPrg, Saved!AxromPrg, Bank!Mmc1Prg, Saved!Mmc1Prg, Bank!Mmc2Prg,
         Saved!Mmc2Prg, Bank!Mmc3Prg, Saved!Mmc3Prg, Bank!Vrc6Prg, Saved!Vrc6Prg, Bank!Fme7Prg,
         Saved!Fme7Prg, Bank!Mmc5Prg, Saved!Mmc5Prg, Bank!CnromChr, Saved!CnromChr,
         Bank!Mmc1Chr, Saved!Mmc1Chr, Bank!Mmc2Chr, Saved!Mmc2Chr, Bank!Mmc3Chr, Saved!Mmc3Chr,
         Bank!Mmc5Chr, Saved!Mmc5Chr, Bank!UsesSetB, Saved!UsesSetB, Bank!Prg16, Saved!Prg16,
         Bank!Chr4, Saved!Chr4, Bank!InHalf, Saved!InHalf, Bank!InQuarter, Saved!InQuarter,
         Bank!Even, Saved!Even, Bank!Larger, Saved!Larger, Bank!Minus, Saved!Minus, Bank!Place,
         Saved!Place, Bank!Bit, Saved!Bit, Bank!Nothing, Saved!Nothing, Bank!Wrapped,
         Saved!Wrapped, Bank!Mmc1Mode, Saved!Mmc1Mode, Bank!Mmc1Bank, Saved!Mmc1Bank,
         Bank!Mmc1Unit, Saved!Mmc1Unit, Bank!WithBit7, Saved!WithBit7, Bank!ChrIsRam,
         Saved!ChrIsRam

LEMMA ViewNext ==
    ASSUME NEW r, NEW b, NEW p, NEW c,
           r = reg', b = board', p = prg_pages', c = chr_pages'
    PROVE  Bank!View' = Saved(r, b, p, c)!View
  BY SMTT(60)
     DEF Bank!View, Saved!View, Bank!PrgPage, Saved!PrgPage, Bank!LowWindow, Saved!LowWindow,
         Bank!ChrPage, Saved!ChrPage, Bank!ShowsRam, Saved!ShowsRam, Bank!Mmc5Bank,
         Saved!Mmc5Bank, Bank!NromPrg, Saved!NromPrg, Bank!UnromPrg, Saved!UnromPrg,
         Bank!AxromPrg, Saved!AxromPrg, Bank!Mmc1Prg, Saved!Mmc1Prg, Bank!Mmc2Prg,
         Saved!Mmc2Prg, Bank!Mmc3Prg, Saved!Mmc3Prg, Bank!Vrc6Prg, Saved!Vrc6Prg, Bank!Fme7Prg,
         Saved!Fme7Prg, Bank!Mmc5Prg, Saved!Mmc5Prg, Bank!CnromChr, Saved!CnromChr,
         Bank!Mmc1Chr, Saved!Mmc1Chr, Bank!Mmc2Chr, Saved!Mmc2Chr, Bank!Mmc3Chr, Saved!Mmc3Chr,
         Bank!Mmc5Chr, Saved!Mmc5Chr, Bank!UsesSetB, Saved!UsesSetB, Bank!Prg16, Saved!Prg16,
         Bank!Chr4, Saved!Chr4, Bank!InHalf, Saved!InHalf, Bank!InQuarter, Saved!InQuarter,
         Bank!Even, Saved!Even, Bank!Larger, Saved!Larger, Bank!Minus, Saved!Minus, Bank!Place,
         Saved!Place, Bank!Bit, Saved!Bit, Bank!Nothing, Saved!Nothing, Bank!Wrapped,
         Saved!Wrapped, Bank!Mmc1Mode, Saved!Mmc1Mode, Bank!Mmc1Bank, Saved!Mmc1Bank,
         Bank!Mmc1Unit, Saved!Mmc1Unit, Bank!WithBit7, Saved!WithBit7, Bank!ChrIsRam,
         Saved!ChrIsRam

LEMMA SameView ==
    ASSUME NEW r, NEW s, NEW b, NEW p, NEW c, r = s
    PROVE  Saved(r, b, p, c)!View = Saved(s, b, p, c)!View
  OBVIOUS

\* No window of Mmc5 needs a register that its state leaves out.
LEMMA Mmc5View ==
    ASSUME NEW r, NEW s, NEW p, NEW c, \A f \in Bank!SavedByMmc5 : r[f] = s[f]
    PROVE  Saved(r, "Mmc5", p, c)!View = Saved(s, "Mmc5", p, c)!View
<1>1. /\ r.prg_mode = s.prg_mode /\ r.prg_ram_bank = s.prg_ram_bank
      /\ r.prg_bank_8000 = s.prg_bank_8000 /\ r.prg_bank_a000 = s.prg_bank_a000
      /\ r.prg_bank_c000 = s.prg_bank_c000 /\ r.prg_bank_e000 = s.prg_bank_e000
  BY DEF Bank!SavedByMmc5
<1>2. \A w : Saved(r, "Mmc5", p, c)!Mmc5Bank(w) = Saved(s, "Mmc5", p, c)!Mmc5Bank(w)
  BY <1>1, Zenon DEF Saved!Mmc5Bank, Saved!Even, Saved!WithBit7, Saved!Bit, Saved!Place
<1>3. \A w : Saved(r, "Mmc5", p, c)!ShowsRam(w) = Saved(s, "Mmc5", p, c)!ShowsRam(w)
  BY <1>2 DEF Saved!ShowsRam, Saved!Bit, Saved!Place
<1>4. \A w : Saved(r, "Mmc5", p, c)!PrgPage(w) = Saved(s, "Mmc5", p, c)!PrgPage(w)
  <2>1. \A w : /\ Saved(r, "Mmc5", p, c)!PrgPage(w) = Saved(r, "Mmc5", p, c)!Mmc5Prg(w)
               /\ Saved(s, "Mmc5", p, c)!PrgPage(w) = Saved(s, "Mmc5", p, c)!Mmc5Prg(w)
    BY DEF Saved!PrgPage
  <2>2. QED
    BY <1>2, <1>3, <2>1, ZenonT(60) DEF Saved!Mmc5Prg, Saved!Wrapped, Saved!Nothing
<1>5. Saved(r, "Mmc5", p, c)!LowWindow = Saved(s, "Mmc5", p, c)!LowWindow
  BY <1>1, Zenon DEF Saved!LowWindow
<1>6. QED
  BY <1>3, <1>4, <1>5, Zenon DEF Saved!View

\* Nor does any board without registers need one.
LEMMA NromView ==
    ASSUME NEW r, NEW s, NEW p, NEW c
    PROVE  Saved(r, "Nrom", p, c)!View = Saved(s, "Nrom", p, c)!View
<1>1. \A w : Saved(r, "Nrom", p, c)!ShowsRam(w) = Saved(s, "Nrom", p, c)!ShowsRam(w)
  BY DEF Saved!ShowsRam
<1>2. \A w : Saved(r, "Nrom", p, c)!PrgPage(w) = Saved(s, "Nrom", p, c)!PrgPage(w)
  BY DEF Saved!PrgPage, Saved!NromPrg
<1>3. Saved(r, "Nrom", p, c)!LowWindow = Saved(s, "Nrom", p, c)!LowWindow
  BY DEF Saved!LowWindow
<1>4. \A w, t : Saved(r, "Nrom", p, c)!ChrPage(w, t) = Saved(s, "Nrom", p, c)!ChrPage(w, t)
  BY DEF Saved!ChrPage, Saved!ChrIsRam
<1>5. QED
  BY <1>1, <1>2, <1>3, <1>4, Zenon DEF Saved!View

LEMMA WriteKeepsView ==
    ASSUME BanksInv, Bank!Write, slot # <<>>,
           NEW r, NEW s, NEW b, NEW p, NEW c, r = Loaded', s = Loaded, b = board
    PROVE  Saved(r, b, p, c)!View = Saved(s, b, p, c)!View
<1>1. /\ board' = board /\ prg_pages' = prg_pages /\ chr_pages' = chr_pages /\ slot' = slot
  BY WriteKeepsSizes
<1>2. RegInv /\ SlotInv /\ RegInv'
  BY BanksKeep DEF BanksInv, Bank!Next
<1>3. CASE board = "Nrom"
  BY <1>3, NromView, ZenonT(60)
<1>4. CASE board # "Nrom"
  <2>1. Typed(reg, Fields) /\ Typed(reg', Fields)
    BY <1>1, <1>2, <1>4, FieldsFixed DEF RegInv
  <2>2. DOMAIN reg = DOMAIN Fields /\ DOMAIN reg' = DOMAIN Fields
    BY <2>1 DEF Typed
  <2>3. DOMAIN slot = IF board = "Mmc5" THEN Bank!SavedByMmc5 ELSE DOMAIN Fields
    BY <1>2, <1>4, Zenon DEF SlotInv
  <2>4. CASE board = "Mmc5"
    <3>1. \A f \in Bank!SavedByMmc5 : f \in DOMAIN reg
      BY <2>2, <2>4 DEF Bank!SavedByMmc5, Fields
    <3>2. \A f \in Bank!SavedByMmc5 : Loaded[f] = slot[f] /\ Loaded'[f] = slot[f]
      BY <1>1, <2>2, <2>3, <2>4, <3>1 DEF Loaded
    <3>3. \A f \in Bank!SavedByMmc5 : Loaded'[f] = Loaded[f]
      BY <3>2, Zenon
    <3>4. QED
      BY <2>4, <3>3, Mmc5View
  <2>5. CASE board # "Mmc5"
    <3>1. DOMAIN slot = DOMAIN Fields
      BY <2>3, <2>5, Zenon
    <3>2. Loaded' = Loaded
      BY <1>1, <2>2, <3>1 DEF Loaded
    <3>3. QED
      BY <3>2, SameView, Zenon
  <2>6. QED
    BY <2>4, <2>5
<1>5. QED
  BY <1>3, <1>4

\* Only a load says that it was one.
LEMMA WriteIsNoLoad ==
    ASSUME Bank!Write
    PROVE  last' # "load"
<1>1. CASE board = "Mmc1"
  <2>1. Bank!WriteMmc1
    BY <1>1, OnlyMmc1
  <2>2. Bank!ResetMmc1 => last' = "none"
    BY Zenon DEF Bank!ResetMmc1
  <2>3. \A bit : Bank!ShiftMmc1(bit) => last' = "none"
    BY Zenon DEF Bank!ShiftMmc1
  <2>4. \A bit, g : Bank!FillMmc1(bit, g) => last' = g
    BY Zenon DEF Bank!FillMmc1
  <2>5. last' \in {"none", "control", "chr_bank_0", "chr_bank_1", "prg_bank"}
    BY <2>1, <2>2, <2>3, <2>4 DEF Bank!WriteMmc1
  <2>6. QED
    BY <2>5
<1>2. CASE board # "Mmc1"
  BY <1>2, OthersSetNone
<1>3. QED
  BY <1>1, <1>2

LEMMA SeenKeep ==
    ASSUME BanksInv, SeenInv, [Bank!Next]_(Bank!vars)
    PROVE  SeenInv' /\ [Bank!ShowsSaved]_(Bank!vars)
<1>1. CASE Bank!Write
  <2>1. slot' = slot /\ seen' = seen
    BY <1>1, WriteKeepsSizes
  <2>2. board' = board /\ prg_pages' = prg_pages /\ chr_pages' = chr_pages
    BY <1>1, WriteKeepsSizes
  <2>3. ASSUME slot # <<>>, NEW r, NEW b, NEW p, NEW c, IsLoaded(r, b, p, c)'
        PROVE  Saved(r, b, p, c)!View = seen[1]
    <3>1. r = Loaded' /\ b = board /\ p = prg_pages /\ c = chr_pages
      BY <2>2, <2>3, Zenon DEF IsLoaded
    <3>2. PICK s : s = Loaded
      OBVIOUS
    <3>3. Saved(r, b, p, c)!View = Saved(s, b, p, c)!View
      BY <1>1, <2>3, <3>1, <3>2, WriteKeepsView
    <3>4. Saved(s, b, p, c)!View = seen[1]
      BY <2>3, <3>1, <3>2, Zenon DEF SeenInv, IsLoaded
    <3>5. QED
      BY <3>3, <3>4, Zenon
  <2>4. SeenInv'
    BY <2>1, <2>3, Zenon DEF SeenInv
  <2>5. QED
    BY <1>1, <2>4, WriteIsNoLoad, Zenon DEF Bank!ShowsSaved
<1>2. CASE Bank!SaveState
  <2>1. /\ board' = board /\ prg_pages' = prg_pages /\ chr_pages' = chr_pages /\ reg' = reg
        /\ last' = "none" /\ slot' = [f \in Bank!SavedFields |-> reg[f]]
        /\ seen' = <<Bank!View, bits>>
    BY <1>2 DEF Bank!SaveState
  <2>2. ASSUME NEW r, NEW b, NEW p, NEW c, IsLoaded(r, b, p, c)'
        PROVE  Saved(r, b, p, c)!View = Bank!View
    <3>1. r = Loaded' /\ b = board /\ p = prg_pages /\ c = chr_pages
      BY <2>1, <2>2, Zenon DEF IsLoaded
    <3>2. PICK s : s = reg
      OBVIOUS
    <3>3. Saved(s, b, p, c)!View = Bank!View
      BY <3>1, <3>2, ViewNow, Zenon
    <3>4. CASE board = "Nrom"
      BY <3>1, <3>3, <3>4, NromView, ZenonT(60)
    <3>5. CASE board # "Nrom"
      <4>1. reg = [f \in DOMAIN Fields |-> reg[f]] /\ DOMAIN reg = DOMAIN Fields
        BY <3>5 DEF BanksInv, RegInv, Typed
      <4>2. Loaded' = [f \in DOMAIN reg |-> reg[f]]
        BY <2>1 DEF Loaded
      <4>3. r = s
        BY <3>1, <3>2, <4>1, <4>2, Zenon
      <4>4. QED
        BY <3>3, <4>3, SameView, Zenon
    <3>6. QED
      BY <3>4, <3>5
  <2>3. seen'[1] = Bank!View
    BY <2>1
  <2>4. SeenInv'
    BY <2>2, <2>3, Zenon DEF SeenInv
  <2>5. last' # "load"
    BY <2>1
  <2>6. QED
    BY <2>4, <2>5, Zenon DEF Bank!ShowsSaved
<1>3. CASE Bank!LoadState
  <2>1. /\ board' = board /\ prg_pages' = prg_pages /\ chr_pages' = chr_pages
        /\ slot' = slot /\ seen' = seen /\ slot # <<>> /\ reg' = Loaded
    BY <1>3, Zenon DEF Bank!LoadState, Loaded
  <2>2. Loaded' = Loaded
    BY <2>1 DEF Loaded
  <2>3. SeenInv'
    BY <2>1, <2>2, Zenon DEF SeenInv, IsLoaded
  <2>4. PICK r, b, p, c : r = Loaded /\ b = board /\ p = prg_pages /\ c = chr_pages
    OBVIOUS
  <2>5. Saved(r, b, p, c)!View = seen[1]
    BY <2>1, <2>4, Zenon DEF SeenInv, IsLoaded
  <2>6. r = reg' /\ b = board' /\ p = prg_pages' /\ c = chr_pages'
    BY <2>1, <2>4, Zenon
  <2>7. Bank!View' = Saved(r, b, p, c)!View
    BY <2>6, ViewNext, Zenon
  <2>8. QED
    BY <2>1, <2>3, <2>5, <2>7, Zenon DEF Bank!ShowsSaved
<1>4. CASE UNCHANGED Bank!vars
  <2>1. UNCHANGED <<board, prg_pages, chr_pages, reg, slot, seen>>
    BY <1>4 DEF Bank!vars
  <2>2. Loaded' = Loaded
    BY <2>1 DEF Loaded
  <2>3. QED
    BY <1>4, <2>1, <2>2, Zenon DEF SeenInv, IsLoaded
<1>5. QED
  BY <1>1, <1>2, <1>3, <1>4 DEF Bank!Next

-----------------------------------------------------------------------------
(* The cartridge.                                                           *)

\* A step is a step of the board in the slot.
LEMMA OneBoard ==
    ASSUME [Next]_vars
    PROVE  /\ mapper' = mapper
           /\ mapper = "Mmc3" => [Mmc3!Next]_(Mmc3!vars)
           /\ mapper = "Vrc6" => [Vrc6!Next]_(Vrc6!vars)
           /\ mapper = "Fme7" => [Fme7!Next]_(Fme7!vars)
           /\ mapper = "Mmc5" => [Mmc5!Next]_(Mmc5!vars)
           /\ mapper = "Banks" => [Bank!Next]_(Bank!vars)
<1>1. CASE UNCHANGED vars
  BY <1>1 DEF vars, counting, banks, mmc3_only, vrc6_only, mmc5_only, Mmc3!vars, Vrc6!vars,
              Vrc6!registers, Vrc6!history, Fme7!vars, Mmc5!vars, Mmc5!detector, Mmc5!beam,
              Bank!vars
<1>2. CASE Next
  <2>1. CASE mapper = "Mmc3" /\ mapper' = mapper /\ Mmc3!Next
    BY <2>1, Zenon
  <2>2. CASE mapper = "Vrc6" /\ mapper' = mapper /\ Vrc6!Next
    BY <2>2, Zenon
  <2>3. CASE mapper = "Fme7" /\ mapper' = mapper /\ Fme7!Next
    BY <2>3, Zenon
  <2>4. CASE mapper = "Mmc5" /\ mapper' = mapper /\ Mmc5!Next
    BY <2>4, Zenon
  <2>5. CASE mapper = "Banks" /\ mapper' = mapper /\ Bank!Next
    BY <2>5, Zenon
  <2>6. QED
    BY <1>2, <2>1, <2>2, <2>3, <2>4, <2>5
       DEF Next, Tick, Access, SaveOrLoad, OfMmc3, OfVrc6, OfFme7, OfMmc5, OfBanks,
           Mmc3!Next, Vrc6!Next, Fme7!Next, Mmc5!Next, Bank!Next
<1>3. QED
  BY <1>1, <1>2

CountersInv ==
    /\ mapper = "Mmc3" => Mmc3Inv
    /\ mapper = "Vrc6" => Vrc6Inv
    /\ mapper = "Fme7" => Fme7Inv
    /\ mapper = "Mmc5" => Mmc5Inv

LEMMA CountersInit ==
    ASSUME Init
    PROVE  CountersInv /\ OnBoard(Mmc3!Timer!Init, Vrc6!Timer!Init, Fme7!Timer!Init, TRUE)
<1>1. Mmc3!Init /\ Vrc6!Init /\ Fme7!Init /\ Mmc5!Init
  BY DEF Init
<1>2. Mmc3Inv /\ Vrc6Inv /\ Fme7Inv /\ Mmc5Inv
  BY <1>1, BoardsAssumption, Mmc3Init, Vrc6Init, Fme7Init, Mmc5Init
<1>3. Mmc3!Timer!Init /\ Vrc6!Timer!Init /\ Fme7!Timer!Init
  BY <1>1, BoardsAssumption, Mmc3Init, Vrc6InitImplements, Fme7Init
<1>4. QED
  BY <1>2, <1>3, Zenon DEF CountersInv, OnBoard

LEMMA CountersKeep ==
    ASSUME CountersInv, [Next]_vars
    PROVE  /\ CountersInv'
           /\ OnBoard([Mmc3!Timer!Next]_(Mmc3!Timer!vars),
                      [Vrc6!Timer!Next]_(Vrc6!Timer!vars),
                      [Fme7!Timer!Next]_(Fme7!Timer!vars), TRUE)
           /\ OnBoard(TRUE, TRUE, TRUE, Mmc5!RaisedOnLine)
<1>1. mapper' = mapper
  BY OneBoard
<1>2. ASSUME mapper = "Mmc3" PROVE Mmc3Inv' /\ [Mmc3!Timer!Next]_(Mmc3!Timer!vars)
  <2>1. Mmc3Inv /\ [Mmc3!Next]_(Mmc3!vars)
    BY <1>2, OneBoard DEF CountersInv
  <2>2. QED
    BY <2>1, BoardsAssumption, Mmc3Keeps, Mmc3Implements
<1>3. ASSUME mapper = "Vrc6" PROVE Vrc6Inv' /\ [Vrc6!Timer!Next]_(Vrc6!Timer!vars)
  <2>1. Vrc6Inv /\ [Vrc6!Next]_(Vrc6!vars)
    BY <1>3, OneBoard DEF CountersInv
  <2>2. QED
    BY <2>1, BoardsAssumption, Vrc6Keeps, Vrc6Implements
<1>4. ASSUME mapper = "Fme7" PROVE Fme7Inv' /\ [Fme7!Timer!Next]_(Fme7!Timer!vars)
  <2>1. Fme7Inv /\ [Fme7!Next]_(Fme7!vars)
    BY <1>4, OneBoard DEF CountersInv
  <2>2. QED
    BY <2>1, BoardsAssumption, Fme7Keeps, Fme7Implements
<1>5. ASSUME mapper = "Mmc5" PROVE Mmc5Inv' /\ Mmc5!RaisedOnLine
  <2>1. Mmc5Inv /\ [Mmc5!Next]_(Mmc5!vars)
    BY <1>5, OneBoard DEF CountersInv
  <2>2. QED
    BY <2>1, BoardsAssumption, Mmc5Keeps
<1>6. CountersInv'
  BY <1>1, <1>2, <1>3, <1>4, <1>5, Zenon DEF CountersInv
<1>7. OnBoard([Mmc3!Timer!Next]_(Mmc3!Timer!vars), [Vrc6!Timer!Next]_(Vrc6!Timer!vars),
              [Fme7!Timer!Next]_(Fme7!Timer!vars), TRUE)
  BY <1>2, <1>3, <1>4, Zenon DEF OnBoard
<1>8. OnBoard(TRUE, TRUE, TRUE, Mmc5!RaisedOnLine)
  BY <1>5, Zenon DEF OnBoard
<1>9. QED
  BY <1>6, <1>7, <1>8

LEMMA CountersAlways == Spec => []CountersInv
<1>1. Init => CountersInv
  BY CountersInit
<1>2. CountersInv /\ [Next]_vars => CountersInv'
  BY CountersKeep
<1>3. QED
  BY <1>1, <1>2, PTL DEF Spec

\* The registers, counters, prescaler and frame detector of the board in the
\* slot stay in their ranges.
THEOREM TypeCorrect == Spec => []OnBoard(Mmc3!TypeOK, Vrc6!TypeOK, Fme7!TypeOK, Mmc5!TypeOK)
<1>1. CountersInv => OnBoard(Mmc3!TypeOK, Vrc6!TypeOK, Fme7!TypeOK, Mmc5!TypeOK)
  BY Zenon DEF CountersInv, OnBoard, Mmc3Inv, Vrc6Inv, Fme7Inv, Mmc5Inv
<1>2. QED
  BY <1>1, CountersAlways, PTL

\* Switching Vrc6's counter off leaves no request behind.
THEOREM SwitchingOffClears == Spec => []OnBoard(TRUE, Vrc6!DisabledMeansClear, TRUE, TRUE)
<1>1. CountersInv => OnBoard(TRUE, Vrc6!DisabledMeansClear, TRUE, TRUE)
  BY Zenon DEF CountersInv, OnBoard, Vrc6Inv
<1>2. QED
  BY <1>1, CountersAlways, PTL

\* The counters of Mmc3, Vrc6 and Fme7 implement IntervalTimer: the interrupt
\* comes after exactly the clocks that the registers ask for, and Vrc6's
\* prescaler does not drift from the lines it stands for.
THEOREM CountersImplementTimer == Spec => ImplementsTimer
<1>1. Init => OnBoard(Mmc3!Timer!Init, Vrc6!Timer!Init, Fme7!Timer!Init, TRUE)
  BY CountersInit
<1>2. CountersInv /\ [Next]_vars =>
        [OnBoard([Mmc3!Timer!Next]_(Mmc3!Timer!vars), [Vrc6!Timer!Next]_(Vrc6!Timer!vars),
                 [Fme7!Timer!Next]_(Fme7!Timer!vars), TRUE)]_vars
  BY CountersKeep
<1>3. CountersInv => OnBoard(TRUE, Vrc6!NoDrift, TRUE, TRUE)
  BY Zenon DEF CountersInv, OnBoard, Vrc6Inv
<1>4. QED
  BY <1>1, <1>2, <1>3, CountersAlways, PTL DEF Spec, ImplementsTimer

\* Mmc5 interrupts a program that leaves the picture unit alone once in each
\* frame, on the line asked for, and is out of the frame when the reads stop.
THEOREM OneInterruptInEachFrame == Spec => OneInterruptPerFrame
<1>1. CountersInv => OnBoard(TRUE, TRUE, TRUE, Mmc5!FrameEnds)
  BY Zenon DEF CountersInv, OnBoard, Mmc5Inv
<1>2. CountersInv /\ [Next]_vars => [OnBoard(TRUE, TRUE, TRUE, Mmc5!RaisedOnLine)]_vars
  BY CountersKeep
<1>3. QED
  BY <1>1, <1>2, CountersAlways, PTL DEF Spec, OneInterruptPerFrame

\* A bank-switching board in the slot.
BankedInv == mapper = "Banks" => BanksInv /\ BitsInv /\ SeenInv

LEMMA BankedInit ==
    ASSUME Init
    PROVE  BankedInv
<1>1. mapper = "Banks" => Bank!Init /\ slot = <<>>
  BY Zenon DEF Init, Bank!Init, Bank!Start
<1>2. slot = <<>> => SeenInv
  BY Zenon DEF SeenInv
<1>3. QED
  BY <1>1, <1>2, BanksInit, BitsInit, Zenon DEF BankedInv

LEMMA OnlyBanksMove ==
    ASSUME mapper = "Banks", [Next]_vars, UNCHANGED Bank!vars
    PROVE  UNCHANGED vars
<1>1. CASE Next
  <2>1. UNCHANGED <<mapper, counting>>
    BY <1>1 DEF Next, Tick, Access, SaveOrLoad, OfMmc3, OfVrc6, OfFme7, OfMmc5, OfBanks
  <2>2. UNCHANGED banks
    BY DEF Bank!vars, banks
  <2>3. QED
    BY <2>1, <2>2 DEF vars
<1>2. QED
  BY <1>1

LEMMA BankedKeep ==
    ASSUME BankedInv, [Next]_vars
    PROVE  /\ BankedInv'
           /\ [mapper = "Banks" => Bank!TakesFiveBits]_vars
           /\ [mapper = "Banks" => Bank!ShowsSaved]_vars
<1>1. mapper' = mapper
  BY OneBoard
<1>2. CASE mapper = "Banks"
  <2>1. BanksInv /\ BitsInv /\ SeenInv /\ [Bank!Next]_(Bank!vars)
    BY <1>2, OneBoard DEF BankedInv
  <2>2. BanksInv' /\ BitsInv' /\ SeenInv'
    BY <2>1, BanksKeep, BitsKeep, SeenKeep, Zenon
  <2>3. [Bank!TakesFiveBits]_(Bank!vars) /\ [Bank!ShowsSaved]_(Bank!vars)
    BY <2>1, BitsKeep, SeenKeep, Zenon
  <2>4. QED
    BY <1>1, <1>2, <2>2, <2>3, OnlyBanksMove, Zenon DEF BankedInv
<1>3. CASE mapper # "Banks"
  BY <1>1, <1>3, Zenon DEF BankedInv
<1>4. QED
  BY <1>2, <1>3

LEMMA BankedAlways == Spec => []BankedInv
<1>1. Init => BankedInv
  BY BankedInit
<1>2. BankedInv /\ [Next]_vars => BankedInv'
  BY BankedKeep
<1>3. QED
  BY <1>1, <1>2, PTL DEF Spec

\* Whatever ROM sizes the header gives, 0 included, and whatever a program
\* writes to the registers of its board, in whatever mode: the windows leave
\* the ROM in the cases of PrgFails and ChrFails and in no other, one shows
\* nothing only for want of ROM, and the vectors do not move.
THEOREM WindowsInsideRom == Spec => []InsideRom
<1>1. BankedInv => InsideRom
  BY BanksInside, Zenon DEF BankedInv, InsideRom
<1>2. QED
  BY <1>1, BankedAlways, PTL

\* A register of Mmc1 takes exactly the five bits sent since the last reset or
\* register, also across a load.
THEOREM RegistersTakeFiveBits == Spec => FiveBitsMakeARegister
<1>1. BankedInv /\ [Next]_vars => [mapper = "Banks" => Bank!TakesFiveBits]_vars
  BY BankedKeep
<1>2. QED
  BY <1>1, BankedAlways, PTL DEF Spec, FiveBitsMakeARegister

\* A loaded state shows the program what it saw when the state was saved, with
\* whatever it has written since.
THEOREM LoadsShowSaved == Spec => LoadShowsSaved
<1>1. BankedInv /\ [Next]_vars => [mapper = "Banks" => Bank!ShowsSaved]_vars
  BY BankedKeep
<1>2. QED
  BY <1>1, BankedAlways, PTL DEF Spec, LoadShowsSaved

=============================================================================
