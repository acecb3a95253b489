----------------------------- MODULE Dmc_proofs -----------------------------
(***************************************************************************)
(* Proofs about Dmc, for every value of its constants that satisfies the   *)
(* assumptions of that module: its invariants, what raises the IRQ, how    *)
(* long a sample read may stall the CPU, and that it implements            *)
(* SampleReader.                                                           *)
(***************************************************************************)
EXTENDS DmcReader, TLAPS

\* RequestExact and IrqMeansDrained as predicates of the fields.
Exact(d)   == d.dma_request <=> (d.sample_buffer = NoByte /\ d.current_length > 0)
Drained(d) == d.irq_pending => d.irq_enable /\ d.current_length = 0

(***************************************************************************)
(* What the methods of the channel preserve.                               *)
(***************************************************************************)

\* check_dma makes the request exact if it was not spurious.
LEMMA CheckDmaFacts ==
    ASSUME NEW d \in DmcType
    PROVE  /\ CheckDma(d) \in DmcType
           /\ ~d.dma_request => Exact(CheckDma(d))
           /\ \A f \in {"irq_enable", "loop_flag", "current_length", "irq_pending",
                        "sample_buffer", "current_address"} : CheckDma(d)[f] = d[f]
<1>1. CheckDma(d) \in DmcType
  BY DEF CheckDma, DmcType
<1>2. ~d.dma_request => Exact(CheckDma(d))
  BY DEF CheckDma, DmcType, Exact
<1>3. QED
  BY <1>1, <1>2 DEF CheckDma, DmcType

\* Reloading the reader: the sample is started over, and if no request was
\* outstanding there is one now exactly if the buffer is empty.
LEMMA RestartFacts ==
    ASSUME NEW d \in DmcType
    PROVE  /\ Restart(d) \in DmcType
           /\ ~d.dma_request => Exact(Restart(d))
           /\ Restart(d).current_length = d.sample_length
           /\ \A f \in {"irq_enable", "loop_flag", "irq_pending", "sample_buffer"} :
                 Restart(d)[f] = d[f]
<1> DEFINE e == [d EXCEPT !.current_address = d.sample_address,
                          !.current_length  = d.sample_length]
<1>1. d.sample_address \in RomAddr /\ d.sample_length \in 0 .. AddrSpace - 1
  BY AddrAssumption DEF DmcType
<1>2. e \in DmcType
  BY <1>1 DEF DmcType
<1>3. /\ e.current_length = d.sample_length
      /\ e.dma_request = d.dma_request
      /\ \A f \in {"irq_enable", "loop_flag", "irq_pending", "sample_buffer"} : e[f] = d[f]
  BY DEF DmcType
<1>4. Restart(d) = CheckDma(e)
  BY DEF Restart
<1> HIDE DEF e
<1>5. QED
  BY <1>2, <1>3, <1>4, CheckDmaFacts

\* Playing a bit touches the level and the shift register only.
LEMMA PlayBitFacts ==
    ASSUME NEW d \in DmcType
    PROVE  /\ PlayBit(d) \in DmcType
           /\ \A f \in {"irq_enable", "loop_flag", "current_length", "irq_pending",
                        "sample_buffer", "current_address", "dma_request",
                        "bits_remaining"} : PlayBit(d)[f] = d[f]
<1> DEFINE level == IF d.shift_register % 2 # 0
                      THEN IF d.output_level + 2 <= MaxLevel
                             THEN d.output_level + 2 ELSE d.output_level
                      ELSE IF d.output_level >= 2
                             THEN d.output_level - 2 ELSE d.output_level
           e == [d EXCEPT !.output_level = level, !.shift_register = @ \div 2]
<1>1. d.output_level \in 0 .. MaxLevel /\ d.shift_register \in Byte
  BY DEF DmcType
<1>2. level \in 0 .. MaxLevel
  BY <1>1, SizeAssumption
<1>3. d.shift_register \div 2 \in Byte
  BY <1>1, SizeAssumption DEF Byte
<1>4. PlayBit(d) = IF d.silence THEN d ELSE e
  BY DEF PlayBit
<1> HIDE DEF level
<1>5. e \in DmcType
  BY <1>2, <1>3 DEF DmcType
<1>6. \A f \in {"irq_enable", "loop_flag", "current_length", "irq_pending",
                "sample_buffer", "current_address", "dma_request",
                "bits_remaining"} : e[f] = d[f]
  BY DEF DmcType
<1> HIDE DEF e
<1>7. QED
  BY <1>4, <1>5, <1>6

\* Taking a byte from the buffer requests the next one.
LEMMA NextByteFacts ==
    ASSUME NEW d \in DmcType
    PROVE  /\ NextByte(d) \in DmcType
           /\ Exact(d) => Exact(NextByte(d))
           /\ \A f \in {"irq_enable", "loop_flag", "current_length", "irq_pending",
                        "current_address"} : NextByte(d)[f] = d[f]
<1>1. CASE d.sample_buffer # NoByte
  <2> DEFINE e == [d EXCEPT !.bits_remaining = BitsPerByte,
                            !.silence        = FALSE,
                            !.shift_register = d.sample_buffer,
                            !.sample_buffer  = NoByte]
  <2>1. d.sample_buffer \in Byte /\ BitsPerByte \in 1 .. BitsPerByte
    BY <1>1, SizeAssumption DEF DmcType
  <2>2. e \in DmcType
    BY <2>1 DEF DmcType
  <2>3. /\ e.dma_request = d.dma_request
        /\ \A f \in {"irq_enable", "loop_flag", "current_length", "irq_pending",
                     "current_address"} : e[f] = d[f]
    BY DEF DmcType
  <2>4. Exact(d) => ~d.dma_request
    BY <1>1 DEF Exact
  <2>5. NextByte(d) = CheckDma(e)
    BY <1>1 DEF NextByte
  <2> HIDE DEF e
  <2>6. QED
    BY <2>2, <2>3, <2>4, <2>5, CheckDmaFacts
<1>2. CASE d.sample_buffer = NoByte
  <2> DEFINE e == [d EXCEPT !.bits_remaining = BitsPerByte, !.silence = TRUE]
  <2>1. BitsPerByte \in 1 .. BitsPerByte
    BY SizeAssumption
  <2>2. e \in DmcType
    BY <2>1 DEF DmcType
  <2>3. \A f \in {"irq_enable", "loop_flag", "current_length", "irq_pending",
                  "current_address", "sample_buffer", "dma_request"} : e[f] = d[f]
    BY DEF DmcType
  <2>4. NextByte(d) = e
    BY <1>2 DEF NextByte
  <2> HIDE DEF e
  <2>5. QED
    BY <2>2, <2>3, <2>4 DEF Exact
<1>3. QED
  BY <1>1, <1>2

\* Clocking the output unit.
LEMMA ClockOutputFacts ==
    ASSUME NEW d \in DmcType
    PROVE  /\ ClockOutput(d) \in DmcType
           /\ Exact(d) => Exact(ClockOutput(d))
           /\ \A f \in {"irq_enable", "loop_flag", "current_length", "irq_pending",
                        "current_address"} : ClockOutput(d)[f] = d[f]
<1> DEFINE p == PlayBit(d)
           e == [p EXCEPT !.bits_remaining = @ - 1]
<1>1. /\ p \in DmcType
      /\ \A f \in {"irq_enable", "loop_flag", "current_length", "irq_pending",
                   "sample_buffer", "current_address", "dma_request",
                   "bits_remaining"} : p[f] = d[f]
  BY PlayBitFacts
<1>2. Exact(d) => Exact(p)
  BY <1>1 DEF Exact
<1>3. ClockOutput(d) = IF d.bits_remaining = 1 THEN NextByte(p) ELSE e
  BY DEF ClockOutput
<1> HIDE DEF p
<1>4. CASE d.bits_remaining = 1
  BY <1>1, <1>2, <1>3, <1>4, NextByteFacts
<1>5. CASE d.bits_remaining # 1
  <2>1. p.bits_remaining - 1 \in 1 .. BitsPerByte
    <3>1. p.bits_remaining = d.bits_remaining
      BY <1>1
    <3>2. d.bits_remaining \in 1 .. BitsPerByte
      BY DEF DmcType
    <3>3. QED
      BY <1>5, <3>1, <3>2, SizeAssumption
  <2>2. e \in DmcType
    BY <1>1, <2>1 DEF DmcType
  <2>3. \A f \in {"irq_enable", "loop_flag", "current_length", "irq_pending",
                  "current_address", "sample_buffer", "dma_request"} : e[f] = p[f]
    BY <1>1 DEF DmcType
  <2> HIDE DEF e
  <2>4. QED
    BY <1>1, <1>2, <1>3, <1>5, <2>2, <2>3 DEF Exact
<1>6. QED
  BY <1>4, <1>5

\* Clocking the timer keeps the request exact and does not touch what the
\* reader and the interrupt depend on.
LEMMA ClockTimerFacts ==
    ASSUME NEW d \in DmcType
    PROVE  /\ ClockTimer(d) \in DmcType
           /\ Exact(d) => Exact(ClockTimer(d))
           /\ \A f \in {"irq_enable", "loop_flag", "current_length", "irq_pending",
                        "current_address"} : ClockTimer(d)[f] = d[f]
<1>1. CASE d.timer = 0
  <2> DEFINE e == [d EXCEPT !.timer = PeriodTable[d.rate_index]]
  <2>1. PeriodTable[d.rate_index] \in Nat
    BY TableAssumption DEF DmcType
  <2>2. e \in DmcType
    BY <2>1 DEF DmcType
  <2>3. \A f \in {"irq_enable", "loop_flag", "current_length", "irq_pending",
                  "current_address", "sample_buffer", "dma_request"} : e[f] = d[f]
    BY DEF DmcType
  <2>4. ClockTimer(d) = ClockOutput(e)
    BY <1>1 DEF ClockTimer
  <2> HIDE DEF e
  <2>5. QED
    BY <2>2, <2>3, <2>4, ClockOutputFacts DEF Exact
<1>2. CASE d.timer # 0
  <2> DEFINE e == [d EXCEPT !.timer = @ - 1]
  <2>1. d.timer - 1 \in Nat
    BY <1>2 DEF DmcType
  <2>2. e \in DmcType
    BY <2>1 DEF DmcType
  <2>3. \A f \in {"irq_enable", "loop_flag", "current_length", "irq_pending",
                  "current_address", "sample_buffer", "dma_request"} : e[f] = d[f]
    BY DEF DmcType
  <2>4. ClockTimer(d) = e
    BY <1>2 DEF ClockTimer
  <2> HIDE DEF e
  <2>5. QED
    BY <2>2, <2>3, <2>4 DEF Exact
<1>3. QED
  BY <1>1, <1>2

\* The address stays in ROM, wrapping from the top of memory to its base.
LEMMA NextAddressInRom ==
    ASSUME NEW a \in RomAddr
    PROVE  NextAddress(a) \in RomAddr
  BY AddrAssumption DEF NextAddress, RomAddr

\* A read fills the buffer and leaves no request behind.  It is the only
\* method that raises the interrupt, and it does so exactly when it ends the
\* sample.
LEMMA LoadSampleFacts ==
    ASSUME NEW d \in DmcType, d.current_length > 0, ~d.irq_pending,
           NEW byte \in Byte
    PROVE  /\ LoadSample(d, byte) \in DmcType
           /\ ~LoadSample(d, byte).dma_request
           /\ LoadSample(d, byte).sample_buffer # NoByte
           /\ LoadSample(d, byte).irq_enable = d.irq_enable
           /\ LoadSample(d, byte).irq_pending
                 <=> LoadSample(d, byte).current_length = 0 /\ d.irq_enable
<1> DEFINE e == [d EXCEPT !.dma_request     = FALSE,
                          !.sample_buffer   = byte,
                          !.current_address = NextAddress(@),
                          !.current_length  = Decrement(@)]
           r == [e EXCEPT !.irq_pending = @ \/ e.irq_enable]
<1>1. NextAddress(d.current_address) \in RomAddr
  BY NextAddressInRom DEF DmcType
<1>2. Decrement(d.current_length) \in 0 .. AddrSpace - 1
  BY AddrAssumption DEF Decrement, DmcType
<1>3. e \in DmcType
  BY <1>1, <1>2 DEF DmcType
<1>4. /\ ~e.dma_request
      /\ ~e.irq_pending
      /\ e.sample_buffer = byte
      /\ e.irq_enable = d.irq_enable
      /\ e.sample_length > 0
  BY <1>3 DEF DmcType
<1>5. byte # NoByte
  BY TableAssumption
<1>6. LoadSample(d, byte) = IF e.current_length # 0 THEN e
                            ELSE IF e.loop_flag THEN Restart(e) ELSE r
  BY DEF LoadSample
<1> HIDE DEF e
<1>7. CASE e.current_length # 0
  BY <1>3, <1>4, <1>5, <1>6, <1>7
<1>8. CASE e.current_length = 0 /\ e.loop_flag
  <2>1. /\ Restart(e) \in DmcType
        /\ Exact(Restart(e))
        /\ Restart(e).current_length = e.sample_length
        /\ Restart(e).irq_enable = e.irq_enable
        /\ Restart(e).irq_pending = e.irq_pending
        /\ Restart(e).sample_buffer = e.sample_buffer
    BY <1>3, <1>4, RestartFacts
  <2>2. e.sample_length # 0
    BY <1>3, AddrAssumption DEF DmcType
  <2>3. QED
    BY <1>4, <1>5, <1>6, <1>8, <2>1, <2>2 DEF Exact
<1>9. CASE e.current_length = 0 /\ ~e.loop_flag
  <2>1. r \in DmcType
    BY <1>3 DEF DmcType
  <2>2. /\ r.dma_request = e.dma_request
        /\ r.sample_buffer = e.sample_buffer
        /\ r.irq_enable = e.irq_enable
        /\ r.current_length = e.current_length
        /\ r.irq_pending = (e.irq_pending \/ e.irq_enable)
    BY <1>3 DEF DmcType
  <2> HIDE DEF r
  <2>3. QED
    BY <1>4, <1>5, <1>6, <1>9, <2>1, <2>2
<1>10. QED
  BY <1>7, <1>8, <1>9

\* $4010 acknowledges the interrupt it disables; the request stays exact.
LEMMA SetControlFacts ==
    ASSUME NEW d \in DmcType,
           NEW irq \in BOOLEAN, NEW loop \in BOOLEAN, NEW rate \in Rate
    PROVE  /\ SetControl(d, irq, loop, rate) \in DmcType
           /\ Exact(d) => Exact(SetControl(d, irq, loop, rate))
           /\ Drained(d) => Drained(SetControl(d, irq, loop, rate))
           /\ SetControl(d, irq, loop, rate).irq_pending => d.irq_pending
<1> DEFINE s == SetControl(d, irq, loop, rate)
<1>1. PeriodTable[rate] \in Nat
  BY TableAssumption
<1>2. s \in DmcType
  BY <1>1, ZenonT(60) DEF SetControl, DmcType
<1>3. /\ s.irq_enable = irq
      /\ s.irq_pending = (d.irq_pending /\ irq)
      /\ \A f \in {"sample_buffer", "current_length", "dma_request"} : s[f] = d[f]
  BY DEF SetControl, DmcType
<1> HIDE DEF s
<1>4. (Exact(d) => Exact(s)) /\ (Drained(d) => Drained(s)) /\ (s.irq_pending => d.irq_pending)
  BY <1>3 DEF Exact, Drained
<1>5. QED
  BY <1>2, <1>4 DEF s

\* $4015 acknowledges the interrupt.  It keeps the request exact because it
\* never runs while a request is outstanding.
LEMMA SetStatusFacts ==
    ASSUME NEW d \in DmcType, Exact(d), ~d.dma_request, NEW enable \in BOOLEAN
    PROVE  /\ SetStatus(d, enable) \in DmcType
           /\ Exact(SetStatus(d, enable))
           /\ ~SetStatus(d, enable).irq_pending
<1> DEFINE e == [d EXCEPT !.irq_pending = FALSE]
           z == [e EXCEPT !.current_length = 0]
<1>1. e \in DmcType
  BY DEF DmcType
<1>2. /\ ~e.irq_pending
      /\ \A f \in {"sample_buffer", "current_length", "dma_request"} : e[f] = d[f]
  BY DEF DmcType
<1>3. SetStatus(d, enable) = IF ~enable THEN z
                             ELSE IF e.current_length = 0 THEN Restart(e) ELSE e
  BY DEF SetStatus
<1> HIDE DEF e
<1>4. CASE ~enable
  <2>1. z \in DmcType
    BY <1>1, AddrAssumption DEF DmcType
  <2>2. /\ z.irq_pending = e.irq_pending
        /\ z.dma_request = e.dma_request
        /\ z.current_length = 0
    BY <1>1 DEF DmcType
  <2> HIDE DEF z
  <2>3. QED
    BY <1>2, <1>3, <1>4, <2>1, <2>2 DEF Exact
<1>5. CASE enable /\ e.current_length = 0
  BY <1>1, <1>2, <1>3, <1>5, RestartFacts
<1>6. CASE enable /\ e.current_length # 0
  BY <1>1, <1>2, <1>3, <1>6 DEF Exact
<1>7. QED
  BY <1>4, <1>5, <1>6

\* A byte is read from ROM whenever the bus serves a request.
LEMMA RomByte ==
    ASSUME NEW d \in DmcType
    PROVE  Rom[d.current_address] \in Byte
  BY TableAssumption DEF DmcType

(***************************************************************************)
(* The types do not depend on the handshake: they hold of a channel that   *)
(* was loaded without its request, too.                                    *)
(***************************************************************************)

LEMMA LoadSampleType ==
    ASSUME NEW d \in DmcType, NEW byte \in Byte
    PROVE  LoadSample(d, byte) \in DmcType
<1> DEFINE e == [d EXCEPT !.dma_request     = FALSE,
                          !.sample_buffer   = byte,
                          !.current_address = NextAddress(@),
                          !.current_length  = Decrement(@)]
           r == [e EXCEPT !.irq_pending = @ \/ e.irq_enable]
<1>1. NextAddress(d.current_address) \in RomAddr
  BY NextAddressInRom DEF DmcType
<1>2. Decrement(d.current_length) \in 0 .. AddrSpace - 1
  BY AddrAssumption DEF Decrement, DmcType
<1>3. e \in DmcType
  BY <1>1, <1>2 DEF DmcType
<1>4. LoadSample(d, byte) \in {e, Restart(e), r}
  BY DEF LoadSample
<1> HIDE DEF e
<1>5. r \in DmcType /\ Restart(e) \in DmcType
  BY <1>3, RestartFacts DEF DmcType
<1>6. QED
  BY <1>3, <1>4, <1>5, Zenon

LEMMA RegisterTypes ==
    ASSUME NEW d \in DmcType
    PROVE  /\ \A irq, loop \in BOOLEAN, rate \in Rate : SetControl(d, irq, loop, rate) \in DmcType
           /\ \A v \in LevelVals : [d EXCEPT !.output_level = v] \in DmcType
           /\ \A v \in RegVals :
                 /\ [d EXCEPT !.sample_address = SampleBase + v * AddrUnit] \in DmcType
                 /\ [d EXCEPT !.sample_length = v * LenUnit + 1] \in DmcType
           /\ \A enable \in BOOLEAN : SetStatus(d, enable) \in DmcType
<1>1. \A irq, loop \in BOOLEAN, rate \in Rate : SetControl(d, irq, loop, rate) \in DmcType
  BY SetControlFacts
<1>2. \A v \in LevelVals : [d EXCEPT !.output_level = v] \in DmcType
  BY SizeAssumption DEF DmcType
<1>3. ASSUME NEW v \in RegVals
      PROVE  /\ [d EXCEPT !.sample_address = SampleBase + v * AddrUnit] \in DmcType
             /\ [d EXCEPT !.sample_length = v * LenUnit + 1] \in DmcType
  <2>1. /\ SampleBase + v * AddrUnit \in RomAddr
        /\ v * LenUnit + 1 \in 1 .. AddrSpace - 1
    BY AddrAssumption
  <2>2. QED
    BY <2>1 DEF DmcType
<1>4. ASSUME NEW enable \in BOOLEAN
      PROVE  SetStatus(d, enable) \in DmcType
  <2> DEFINE e == [d EXCEPT !.irq_pending = FALSE]
             z == [e EXCEPT !.current_length = 0]
  <2>1. e \in DmcType
    BY DEF DmcType
  <2>2. SetStatus(d, enable) \in {z, Restart(e), e}
    BY DEF SetStatus
  <2> HIDE DEF e
  <2>3. z \in DmcType /\ Restart(e) \in DmcType
    BY <2>1, AddrAssumption, RestartFacts DEF DmcType
  <2>4. QED
    BY <2>1, <2>2, <2>3, Zenon
<1>5. QED
  BY <1>1, <1>2, <1>3, <1>4, Zenon

LEMMA TypeStep == TypeOK /\ [Next]_vars => TypeOK'
<1> SUFFICES ASSUME TypeOK, [Next]_vars PROVE TypeOK'
  OBVIOUS
<1>1. dmc \in DmcType
  BY DEF TypeOK
<1>2. CASE BeginAccess
  BY <1>2 DEF BeginAccess, TypeOK
<1>3. CASE Tick
  <2> DEFINE c == ClockTimer(dmc)
             l == LoadSample(c, Rom[c.current_address])
  <2>1. c \in DmcType /\ l \in DmcType
    BY <1>1, ClockTimerFacts, LoadSampleType, RomByte, Zenon
  <2>2. dmc' \in {c, l} /\ owed > 0 /\ owed' \in {owed - 1, owed - 1 + DmaTicks} /\ due' = due
    BY <1>3 DEF Tick, PlainTick, DmaTick
  <2> HIDE DEF c, l
  <2>3. dmc' \in DmcType
    BY <2>1, <2>2, Zenon
  <2>4. QED
    BY <2>2, <2>3, SizeAssumption DEF TypeOK
<1>4. CASE OtherAccess \/ RegisterWrite
  <2>1. \E d \in DmcType : Access(d)
    <3>1. CASE OtherAccess
      BY <1>1, <3>1, Zenon DEF OtherAccess
    <3>2. CASE RegisterWrite
      <4>1. ASSUME NEW irq \in BOOLEAN, NEW loop \in BOOLEAN, NEW rate \in Rate,
                   WriteControl(irq, loop, rate)
            PROVE  \E d \in DmcType : Access(d)
        BY <1>1, <4>1, RegisterTypes, Zenon DEF WriteControl
      <4>2. ASSUME NEW v \in LevelVals, WriteLevel(v)
            PROVE  \E d \in DmcType : Access(d)
        BY <1>1, <4>2, RegisterTypes, Zenon DEF WriteLevel
      <4>3. ASSUME NEW v \in RegVals, WriteAddress(v) \/ WriteLength(v)
            PROVE  \E d \in DmcType : Access(d)
        BY <1>1, <4>3, RegisterTypes, Zenon DEF WriteAddress, WriteLength
      <4>4. ASSUME NEW enable \in BOOLEAN, WriteStatus(enable)
            PROVE  \E d \in DmcType : Access(d)
        BY <1>1, <4>4, RegisterTypes, Zenon DEF WriteStatus
      <4>5. QED
        BY <3>2, <4>1, <4>2, <4>3, <4>4, Zenon DEF RegisterWrite
    <3>3. QED
      BY <1>4, <3>1, <3>2, Zenon
  <2>2. dmc' \in DmcType /\ due' = FALSE /\ owed' = 0
    BY <2>1 DEF Access
  <2>3. owed' \in Nat /\ ~(owed' > 0)
    BY <2>2
  <2>4. QED
    BY <2>2, <2>3, Zenon DEF TypeOK
<1>5. CASE UNCHANGED vars
  BY <1>5, Zenon DEF vars, TypeOK
<1>6. QED
  BY <1>2, <1>3, <1>4, <1>5 DEF Next

(***************************************************************************)
(* The inductive invariant.                                                *)
(***************************************************************************)

\* RequestExact alone is not inductive: $4015 may set current_length to 0,
\* so it must be known that no request is outstanding at an access.
IInv ==
    /\ TypeOK
    /\ RequestExact
    /\ ServedBeforeAccess
    /\ IrqMeansDrained

LEMMA InitInv == Init => IInv
<1> SUFFICES ASSUME Init PROVE IInv
  OBVIOUS
<1>1. PeriodTable[0] \in Nat
  BY TableAssumption
<1>2. NewDmc \in DmcType
  BY <1>1, SizeAssumption, AddrAssumption, TableAssumption
     DEF NewDmc, DmcType, Byte
<1>3. TypeOK
  <2>1. dmc \in DmcType /\ due \in BOOLEAN
    BY <1>2, Zenon DEF Init
  <2>2. owed = 0
    BY DEF Init
  <2>3. owed \in Nat /\ ~(owed > 0)
    BY <2>2
  <2>4. QED
    BY <2>1, <2>3, Zenon DEF TypeOK
<1>4. ~dmc.dma_request /\ dmc.current_length = 0 /\ ~dmc.irq_pending
  BY DEF Init, NewDmc
<1>5. RequestExact /\ ServedBeforeAccess /\ IrqMeansDrained
  BY <1>4 DEF RequestExact, ServedBeforeAccess, IrqMeansDrained
<1>6. QED
  BY <1>3, <1>5 DEF IInv

\* What holds of the fields d an access leaves behind is what the invariant
\* needs of them.
LEMMA AccessInv ==
    ASSUME IInv, NEW d \in DmcType, Access(d), Exact(d), Drained(d)
    PROVE  IInv'
<1>1. dmc' = d /\ due' = FALSE /\ owed' = 0
  BY DEF Access
<1>2. TypeOK'
  <2>1. dmc' \in DmcType /\ due' \in BOOLEAN
    BY <1>1, Zenon
  <2>2. owed' \in Nat /\ ~(owed' > 0)
    BY <1>1
  <2>3. QED
    BY <2>1, <2>2, Zenon DEF TypeOK
<1>3. RequestExact' /\ IrqMeansDrained'
  BY <1>1, Zenon DEF RequestExact, IrqMeansDrained, Exact, Drained
<1>4. ServedBeforeAccess'
  BY <1>1 DEF ServedBeforeAccess
<1>5. QED
  BY <1>2, <1>3, <1>4 DEF IInv

\* A cycle ends with no request outstanding.
LEMMA TickInv == IInv /\ Tick => IInv'
<1> SUFFICES ASSUME IInv, Tick PROVE IInv'
  OBVIOUS
<1> DEFINE c == ClockTimer(dmc)
<1>1. dmc \in DmcType /\ Exact(dmc) /\ Drained(dmc)
  BY DEF IInv, TypeOK, RequestExact, IrqMeansDrained, Exact, Drained
<1>2. /\ c \in DmcType
      /\ Exact(c)
      /\ \A f \in {"irq_enable", "loop_flag", "current_length", "irq_pending",
                   "current_address"} : c[f] = dmc[f]
  BY <1>1, ClockTimerFacts
<1>3. Drained(c)
  BY <1>1, <1>2 DEF Drained
<1>4. CASE PlainTick
  <2>1. dmc' = c /\ ~c.dma_request /\ owed' = owed - 1 /\ owed > 0 /\ due' = due
    BY <1>4 DEF PlainTick
  <2> HIDE DEF c
  <2>2. QED
    BY <1>2, <1>3, <2>1
       DEF IInv, TypeOK, RequestExact, ServedBeforeAccess, IrqMeansDrained, Exact, Drained
<1>5. CASE DmaTick
  <2> DEFINE l == LoadSample(c, Rom[c.current_address])
  <2>1. dmc' = l /\ c.dma_request /\ owed' = owed - 1 + DmaTicks /\ owed > 0 /\ due' = due
    BY <1>5 DEF DmaTick
  <2>2. c.current_length > 0 /\ ~c.irq_pending
    <3>1. c.current_length > 0
      BY <1>2, <2>1 DEF Exact
    <3>2. QED
      BY <1>3, <3>1 DEF Drained
  <2>3. Rom[c.current_address] \in Byte
    BY <1>2, RomByte
  <2>4. /\ l \in DmcType
        /\ ~l.dma_request
        /\ l.sample_buffer # NoByte
        /\ l.irq_enable = c.irq_enable
        /\ l.irq_pending <=> l.current_length = 0 /\ c.irq_enable
    BY <1>2, <2>2, <2>3, LoadSampleFacts
  <2> HIDE DEF c, l
  <2>5. TypeOK'
    BY <2>1, <2>4, SizeAssumption DEF IInv, TypeOK
  <2>6. QED
    BY <2>1, <2>4, <2>5
       DEF IInv, RequestExact, ServedBeforeAccess, IrqMeansDrained
<1>6. QED
  BY <1>4, <1>5 DEF Tick

\* A field that no method but one depends on may be overwritten freely.
LEMMA WriteInv == IInv /\ RegisterWrite => IInv'
<1> SUFFICES ASSUME IInv, RegisterWrite PROVE IInv'
  OBVIOUS
<1>1. dmc \in DmcType /\ Exact(dmc) /\ Drained(dmc)
  BY DEF IInv, TypeOK, RequestExact, IrqMeansDrained, Exact, Drained
<1>2. ASSUME NEW irq \in BOOLEAN, NEW loop \in BOOLEAN, NEW rate \in Rate,
             WriteControl(irq, loop, rate)
      PROVE  IInv'
  BY <1>1, <1>2, SetControlFacts, AccessInv DEF WriteControl
<1>3. ASSUME NEW v \in LevelVals, WriteLevel(v)
      PROVE  IInv'
  <2> DEFINE e == [dmc EXCEPT !.output_level = v]
  <2>1. e \in DmcType
    BY <1>1, SizeAssumption DEF DmcType
  <2>2. \A f \in {"irq_enable", "irq_pending", "sample_buffer", "current_length",
                  "dma_request"} : e[f] = dmc[f]
    BY <1>1 DEF DmcType
  <2>3. Access(e)
    BY <1>3 DEF WriteLevel
  <2> HIDE DEF e
  <2>4. QED
    BY <1>1, <2>1, <2>2, <2>3, AccessInv DEF Exact, Drained
<1>4. ASSUME NEW v \in RegVals, WriteAddress(v)
      PROVE  IInv'
  <2> DEFINE e == [dmc EXCEPT !.sample_address = SampleBase + v * AddrUnit]
  <2>1. SampleBase + v * AddrUnit \in RomAddr
    BY AddrAssumption
  <2>2. e \in DmcType
    BY <1>1, <2>1 DEF DmcType
  <2>3. \A f \in {"irq_enable", "irq_pending", "sample_buffer", "current_length",
                  "dma_request"} : e[f] = dmc[f]
    BY <1>1 DEF DmcType
  <2>4. Access(e)
    BY <1>4 DEF WriteAddress
  <2> HIDE DEF e
  <2>5. QED
    BY <1>1, <2>2, <2>3, <2>4, AccessInv DEF Exact, Drained
<1>5. ASSUME NEW v \in RegVals, WriteLength(v)
      PROVE  IInv'
  <2> DEFINE e == [dmc EXCEPT !.sample_length = v * LenUnit + 1]
  <2>1. v * LenUnit + 1 \in 1 .. AddrSpace - 1
    BY AddrAssumption
  <2>2. e \in DmcType
    BY <1>1, <2>1 DEF DmcType
  <2>3. \A f \in {"irq_enable", "irq_pending", "sample_buffer", "current_length",
                  "dma_request"} : e[f] = dmc[f]
    BY <1>1 DEF DmcType
  <2>4. Access(e)
    BY <1>5 DEF WriteLength
  <2> HIDE DEF e
  <2>5. QED
    BY <1>1, <2>2, <2>3, <2>4, AccessInv DEF Exact, Drained
<1>6. ASSUME NEW enable \in BOOLEAN, WriteStatus(enable)
      PROVE  IInv'
  <2>1. ~dmc.dma_request
    BY <1>6 DEF IInv, ServedBeforeAccess, WriteStatus, Access
  <2>2. Drained(SetStatus(dmc, enable))
    BY <1>1, <2>1, SetStatusFacts DEF Drained
  <2>3. QED
    BY <1>1, <1>6, <2>1, <2>2, SetStatusFacts, AccessInv DEF WriteStatus
<1>7. QED
  BY <1>2, <1>3, <1>4, <1>5, <1>6 DEF RegisterWrite

LEMMA StepInv == IInv /\ [Next]_vars => IInv'
<1> SUFFICES ASSUME IInv, [Next]_vars PROVE IInv'
  OBVIOUS
<1>1. CASE BeginAccess
  BY <1>1 DEF BeginAccess, IInv, TypeOK, RequestExact, ServedBeforeAccess, IrqMeansDrained
<1>2. CASE Tick
  BY <1>2, TickInv
<1>3. CASE OtherAccess
  BY <1>3, AccessInv
     DEF OtherAccess, IInv, TypeOK, RequestExact, IrqMeansDrained, Exact, Drained
<1>4. CASE RegisterWrite
  BY <1>4, WriteInv
<1>5. CASE UNCHANGED vars
  BY <1>5 DEF vars, IInv, TypeOK, RequestExact, ServedBeforeAccess, IrqMeansDrained
<1>6. QED
  BY <1>1, <1>2, <1>3, <1>4, <1>5 DEF Next

\* IInv holds in every reachable state.
THEOREM Invariance == Spec => []IInv
  BY InitInv, StepInv, PTL DEF Spec

\* The fields keep their types: the level its 7 bits, the read address ROM.
THEOREM TypeCorrect == Spec => []TypeOK
<1>1. IInv => TypeOK
  BY DEF IInv
<1>2. QED
  BY Invariance, <1>1, PTL

\* No request is lost and none is spurious.
THEOREM RequestsAreExact == Spec => []RequestExact
<1>1. IInv => RequestExact
  BY DEF IInv
<1>2. QED
  BY Invariance, <1>1, PTL

\* No register write meets an outstanding read.
THEOREM AccessesFindNoRequest == Spec => []ServedBeforeAccess
<1>1. IInv => ServedBeforeAccess
  BY DEF IInv
<1>2. QED
  BY Invariance, <1>1, PTL

\* A pending interrupt belongs to a sample that is over.
THEOREM InterruptMeansDrained == Spec => []IrqMeansDrained
<1>1. IInv => IrqMeansDrained
  BY DEF IInv
<1>2. QED
  BY Invariance, <1>1, PTL

(***************************************************************************)
(* The interrupt is raised by the read of the last byte and nothing else.  *)
(***************************************************************************)

IrqStep ==
    (~dmc.irq_pending /\ dmc'.irq_pending)
      <=> /\ owed > 0 /\ dmc.irq_enable
          /\ dmc.current_length > 0 /\ dmc'.current_length = 0

\* Accesses and the begin of an access run no cycle and raise no interrupt.
LEMMA AccessRaisesNothing ==
    ASSUME IInv, BeginAccess \/ OtherAccess \/ RegisterWrite
    PROVE  IrqStep
<1>1. dmc \in DmcType /\ Exact(dmc)
  BY DEF IInv, TypeOK, RequestExact, Exact
<1>2. owed = 0
  BY DEF BeginAccess, OtherAccess, RegisterWrite, Access, WriteControl, WriteLevel,
         WriteAddress, WriteLength, WriteStatus
<1>3. dmc'.irq_pending => dmc.irq_pending
  <2>1. CASE BeginAccess \/ OtherAccess
    BY <2>1 DEF BeginAccess, OtherAccess, Access
  <2>2. ASSUME NEW irq \in BOOLEAN, NEW loop \in BOOLEAN, NEW rate \in Rate,
               WriteControl(irq, loop, rate)
        PROVE  dmc'.irq_pending => dmc.irq_pending
    BY <1>1, <2>2, SetControlFacts DEF WriteControl, Access
  <2>3. ASSUME NEW v \in LevelVals, WriteLevel(v)
        PROVE  dmc'.irq_pending => dmc.irq_pending
    BY <1>1, <2>3 DEF WriteLevel, Access, DmcType
  <2>4. ASSUME NEW v \in RegVals, WriteAddress(v) \/ WriteLength(v)
        PROVE  dmc'.irq_pending => dmc.irq_pending
    BY <1>1, <2>4 DEF WriteAddress, WriteLength, Access, DmcType
  <2>5. ASSUME NEW enable \in BOOLEAN, WriteStatus(enable)
        PROVE  dmc'.irq_pending => dmc.irq_pending
    <3>1. ~dmc.dma_request
      BY <2>5 DEF IInv, ServedBeforeAccess, WriteStatus, Access
    <3>2. QED
      BY <1>1, <2>5, <3>1, SetStatusFacts DEF WriteStatus, Access
  <2>6. QED
    BY <2>1, <2>2, <2>3, <2>4, <2>5 DEF RegisterWrite
<1>4. ~(owed > 0)
  BY <1>2
<1>5. QED
  BY <1>3, <1>4, Zenon DEF IrqStep

LEMMA TickRaisesAtEnd == ASSUME IInv, Tick PROVE IrqStep
<1> DEFINE c == ClockTimer(dmc)
<1>1. dmc \in DmcType /\ Exact(dmc) /\ Drained(dmc)
  BY DEF IInv, TypeOK, RequestExact, IrqMeansDrained, Exact, Drained
<1>2. /\ c \in DmcType
      /\ Exact(c)
      /\ c.irq_enable = dmc.irq_enable
      /\ c.irq_pending = dmc.irq_pending
      /\ c.current_length = dmc.current_length
  BY <1>1, ClockTimerFacts
<1>3. CASE PlainTick
  <2>1. dmc' = c
    BY <1>3 DEF PlainTick
  <2> HIDE DEF c
  <2>2. ~(dmc.current_length > 0 /\ dmc'.current_length = 0)
    BY <1>1, <1>2, <2>1
  <2>3. dmc'.irq_pending = dmc.irq_pending
    BY <1>2, <2>1
  <2>4. QED
    BY <2>2, <2>3, Zenon DEF IrqStep
<1>4. CASE DmaTick
  <2> DEFINE l == LoadSample(c, Rom[c.current_address])
  <2>1. dmc' = l /\ c.dma_request /\ owed > 0
    BY <1>4 DEF DmaTick
  <2>2. dmc.current_length > 0
    BY <1>2, <2>1 DEF Exact
  <2>3. ~dmc.irq_pending
    BY <1>1, <2>2 DEF Drained
  <2>4. l.irq_pending <=> l.current_length = 0 /\ dmc.irq_enable
    BY <1>2, <2>2, <2>3, RomByte, LoadSampleFacts
  <2> HIDE DEF l
  <2>5. QED
    BY <2>1, <2>2, <2>3, <2>4, Zenon DEF IrqStep
<1>5. QED
  BY <1>3, <1>4 DEF Tick

\* Every sample that ends by itself interrupts, if it may, and nothing else does.
THEOREM InterruptExactlyAtEnd == Spec => IrqExactlyAtEnd
<1>1. IInv /\ [Next]_vars => [IrqStep]_vars
  BY AccessRaisesNothing, TickRaisesAtEnd DEF Next
<1>2. QED
  BY Invariance, <1>1, PTL DEF Spec, IrqExactlyAtEnd, IrqStep

(***************************************************************************)
(* Bus::tick recurses a bounded number of times.                           *)
(***************************************************************************)

\* Cycles until the output unit next takes a byte.
Distance(d) == (d.bits_remaining - 1) * (PeriodTable[d.rate_index] + 1) + d.timer + 1

\* A read that is served while another one's cycles run was requested by the
\* output unit, and the output unit takes bytes more than DmaTicks cycles
\* apart; a read requested by $4015 is served by the first cycle of the next
\* access.
StallInv ==
    /\ dmc.dma_request => owed <= 1
    /\ owed <= 2 * DmaTicks - 1
    /\ owed < DmaTicks + Distance(dmc)

LEMMA DistancePositive ==
    ASSUME NEW d \in DmcType
    PROVE  Distance(d) \in Nat /\ Distance(d) >= 1
<1>1. PeriodTable[d.rate_index] \in Nat
  BY TableAssumption DEF DmcType
<1>2. d.bits_remaining - 1 \in Nat /\ d.timer \in Nat
  BY SizeAssumption DEF DmcType
<1>3. \A m, n \in Nat : m * n \in Nat
  OBVIOUS
<1>4. (d.bits_remaining - 1) * (PeriodTable[d.rate_index] + 1) \in Nat
  BY <1>1, <1>2, <1>3
<1>5. QED
  BY <1>2, <1>4 DEF Distance

\* The output unit's fields that no reader operation touches.
LEMMA LoadSampleKeepsOutput ==
    ASSUME NEW d \in DmcType, d.current_length > 0, NEW byte \in Byte
    PROVE  Distance(LoadSample(d, byte)) = Distance(d)
<1> DEFINE e == [d EXCEPT !.dma_request     = FALSE,
                          !.sample_buffer   = byte,
                          !.current_address = NextAddress(@),
                          !.current_length  = Decrement(@)]
           s == [e EXCEPT !.current_address = e.sample_address,
                          !.current_length  = e.sample_length]
           r == [e EXCEPT !.irq_pending = @ \/ e.irq_enable]
<1>1. \A f \in {"bits_remaining", "rate_index", "timer"} : e[f] = d[f]
  BY DEF DmcType
<1>2. NextAddress(d.current_address) \in RomAddr
  BY NextAddressInRom DEF DmcType
<1>3. Decrement(d.current_length) \in 0 .. AddrSpace - 1
  BY AddrAssumption DEF Decrement, DmcType
<1>4. e \in DmcType
  BY <1>2, <1>3 DEF DmcType
<1>5. LoadSample(d, byte) = IF e.current_length # 0 THEN e
                            ELSE IF e.loop_flag THEN Restart(e) ELSE r
  BY DEF LoadSample
<1>6. Restart(e) = [s EXCEPT !.dma_request =
                       @ \/ (s.sample_buffer = NoByte /\ s.current_length > 0)]
  BY DEF Restart, CheckDma
<1> HIDE DEF e
<1>7. \A f \in {"bits_remaining", "rate_index", "timer"} : r[f] = e[f] /\ Restart(e)[f] = e[f]
  BY <1>4, <1>6 DEF DmcType
<1>8. QED
  BY <1>1, <1>5, <1>7 DEF Distance

\* A cycle brings the output unit one nearer to its next byte; when it takes
\* the byte, the one after that is more than DmaTicks cycles away.  Until it
\* does, no request appears.
LEMMA ClockTimerDistance ==
    ASSUME NEW d \in DmcType
    PROVE  \/ /\ Distance(ClockTimer(d)) = Distance(d) - 1
              /\ ClockTimer(d).dma_request = d.dma_request
           \/ Distance(d) = 1 /\ Distance(ClockTimer(d)) > DmaTicks
<1> DEFINE q == PeriodTable[d.rate_index] + 1
<1>1. PeriodTable[d.rate_index] \in Nat
  BY TableAssumption DEF DmcType
<1>2. d.bits_remaining \in 1 .. BitsPerByte /\ d.timer \in Nat
  BY DEF DmcType
<1>3. CASE d.timer # 0
  <2> DEFINE e == [d EXCEPT !.timer = @ - 1]
  <2>1. e.timer = d.timer - 1
        /\ \A f \in {"bits_remaining", "rate_index", "dma_request"} : e[f] = d[f]
    BY DEF DmcType
  <2>2. ClockTimer(d) = e
    BY <1>3 DEF ClockTimer
  <2>3. (d.bits_remaining - 1) * q \in Int
    BY <1>1, <1>2
  <2> HIDE DEF e
  <2>4. QED
    BY <1>2, <2>1, <2>2, <2>3 DEF Distance
<1>4. CASE d.timer = 0
  <2> DEFINE e == [d EXCEPT !.timer = PeriodTable[d.rate_index]]
             p == PlayBit(e)
  <2>1. e \in DmcType
    BY <1>1 DEF DmcType
  <2>2. e.timer = PeriodTable[d.rate_index]
        /\ \A f \in {"bits_remaining", "rate_index", "dma_request"} : e[f] = d[f]
    BY DEF DmcType
  <2>3. ClockTimer(d) = ClockOutput(e)
    BY <1>4 DEF ClockTimer
  <2> HIDE DEF e
  <2>4. \A f \in {"bits_remaining", "rate_index", "dma_request", "timer"} : p[f] = e[f]
    BY <2>1 DEF PlayBit, DmcType
  <2>5. p \in DmcType
    BY <2>1, PlayBitFacts
  <2>6. ClockOutput(e) = IF e.bits_remaining = 1 THEN NextByte(p)
                         ELSE [p EXCEPT !.bits_remaining = @ - 1]
    BY DEF ClockOutput
  <2> HIDE DEF p
  <2>7. CASE d.bits_remaining = 1
    <3>1. /\ NextByte(p).bits_remaining = BitsPerByte
          /\ NextByte(p).rate_index = p.rate_index
          /\ NextByte(p).timer = p.timer
      BY <2>5 DEF NextByte, CheckDma, DmcType
    <3> DEFINE b == NextByte(p)
    <3> HIDE DEF b
    <3>2. Distance(ClockTimer(d)) = (BitsPerByte - 1) * q + q
      <4>1. ClockTimer(d) = b
        BY <2>2, <2>3, <2>6, <2>7 DEF b
      <4>2. /\ b.bits_remaining = BitsPerByte
            /\ b.rate_index = d.rate_index
            /\ b.timer = PeriodTable[d.rate_index]
        BY <2>2, <2>4, <3>1 DEF b
      <4>3. (BitsPerByte - 1) * q \in Int
        BY <1>1, SizeAssumption
      <4>4. QED
        BY <1>1, <4>1, <4>2, <4>3 DEF Distance
    <3>3. (BitsPerByte - 1) * q + q = BitsPerByte * q
      BY <1>1, SizeAssumption
    <3>4. BitsPerByte * q > DmaTicks
      BY RateAssumption DEF DmcType
    <3>5. Distance(d) = 1
      BY <1>1, <1>4, <2>7 DEF Distance
    <3>6. QED
      BY <3>2, <3>3, <3>4, <3>5
  <2>8. CASE d.bits_remaining # 1
    <3> DEFINE b == [p EXCEPT !.bits_remaining = @ - 1]
    <3>1. /\ b.bits_remaining = p.bits_remaining - 1
          /\ b.rate_index = p.rate_index
          /\ b.timer = p.timer
          /\ b.dma_request = p.dma_request
      BY <2>5 DEF DmcType
    <3>2. ClockTimer(d) = b
      BY <2>2, <2>3, <2>6, <2>8
    <3> HIDE DEF b
    <3>3. Distance(ClockTimer(d)) = (d.bits_remaining - 2) * q + q
      BY <1>1, <1>2, <2>2, <2>4, <3>1, <3>2 DEF Distance
    <3>4. (d.bits_remaining - 2) * q + q = (d.bits_remaining - 1) * q
      BY <1>1, <1>2
    <3>5. Distance(d) = (d.bits_remaining - 1) * q + 1
      BY <1>1, <1>2, <1>4 DEF Distance
    <3>6. (d.bits_remaining - 1) * q \in Int
      BY <1>1, <1>2
    <3>7. QED
      BY <2>2, <2>4, <3>1, <3>2, <3>3, <3>4, <3>5, <3>6
  <2>9. QED
    BY <2>7, <2>8
<1>5. QED
  BY <1>3, <1>4

LEMMA StallStep == IInv /\ IInv' /\ StallInv /\ [Next]_vars => StallInv'
<1> SUFFICES ASSUME IInv, IInv', StallInv, [Next]_vars PROVE StallInv'
  OBVIOUS
<1>1. dmc \in DmcType /\ dmc' \in DmcType /\ owed \in Nat
  BY DEF IInv, TypeOK
<1>2. /\ Distance(dmc) \in Nat /\ Distance(dmc) >= 1
      /\ Distance(dmc') \in Nat /\ Distance(dmc') >= 1
  BY <1>1, DistancePositive
<1>3. DmaTicks \in Nat /\ DmaTicks >= 1
  BY SizeAssumption
<1>4. CASE owed' \in {0, 1}
  BY <1>2, <1>3, <1>4 DEF StallInv
<1>5. CASE PlainTick
  <2>1. dmc' = ClockTimer(dmc) /\ ~dmc'.dma_request /\ owed' = owed - 1
    BY <1>5 DEF PlainTick
  <2>2. Distance(dmc') = Distance(dmc) - 1 \/ Distance(dmc') > DmaTicks
    BY <1>1, <2>1, ClockTimerDistance
  <2>3. QED
    BY <1>1, <1>2, <1>3, <2>1, <2>2 DEF StallInv
<1>6. CASE DmaTick
  <2> DEFINE c == ClockTimer(dmc)
  <2>1. /\ dmc' = LoadSample(c, Rom[c.current_address])
        /\ c.dma_request /\ owed > 0 /\ owed' = owed - 1 + DmaTicks
    BY <1>6 DEF DmaTick
  <2>2. c \in DmcType /\ Exact(c)
    BY <1>1, ClockTimerFacts DEF IInv, RequestExact, Exact
  <2>3. c.current_length > 0 /\ Rom[c.current_address] \in Byte
    BY <2>1, <2>2, RomByte DEF Exact
  <2>4. Distance(dmc') = Distance(c)
    BY <2>1, <2>2, <2>3, LoadSampleKeepsOutput
  <2>5. ~dmc'.dma_request
    <3>1. ~c.irq_pending
      <4>1. c.irq_pending = dmc.irq_pending /\ c.current_length = dmc.current_length
        BY <1>1, ClockTimerFacts
      <4>2. QED
        BY <2>3, <4>1 DEF IInv, IrqMeansDrained
    <3>2. QED
      BY <2>1, <2>2, <2>3, <3>1, LoadSampleFacts
  <2>6. CASE dmc.dma_request
    BY <1>1, <1>2, <1>3, <2>1, <2>5, <2>6 DEF StallInv
  <2>7. CASE ~dmc.dma_request
    <3>1. Distance(dmc) = 1 /\ Distance(c) > DmaTicks
      BY <1>1, <2>1, <2>7, ClockTimerDistance
    <3>2. QED
      BY <1>1, <1>2, <1>3, <2>1, <2>4, <2>5, <3>1 DEF StallInv
  <2>8. QED
    BY <2>6, <2>7
<1>7. CASE UNCHANGED vars
  BY <1>7 DEF vars, StallInv
<1>8. QED
  <2>1. BeginAccess => owed' \in {0, 1}
    BY DEF BeginAccess
  <2>2. OtherAccess \/ RegisterWrite => owed' \in {0, 1}
    BY DEF OtherAccess, RegisterWrite, Access, WriteControl, WriteLevel,
           WriteAddress, WriteLength, WriteStatus
  <2>3. QED
    BY <1>4, <1>5, <1>6, <1>7, <2>1, <2>2 DEF Next, Tick

\* A bus access is held up by at most two sample reads, so the recursion of
\* Bus::tick is bounded, for every rate table on which a byte lasts longer
\* than a read.
THEOREM StallIsBounded == Spec => []StallBounded
<1>1. IInv /\ Init => StallInv
  <2> SUFFICES ASSUME IInv, Init PROVE StallInv
    OBVIOUS
  <2>1. Distance(dmc) \in Nat /\ Distance(dmc) >= 1
    BY DistancePositive DEF IInv, TypeOK
  <2>2. owed = 0
    BY DEF Init
  <2>3. QED
    BY <2>1, <2>2, SizeAssumption DEF StallInv
<1>2. StallInv => StallBounded
  BY DEF StallInv, StallBounded
<1>3. QED
  BY Invariance, <1>1, StallStep, <1>2, PTL DEF Spec

(***************************************************************************)
(* Dmc implements SampleReader: initial states map to initial states, and  *)
(* every step maps to a step or a stutter.                                 *)
(***************************************************************************)

\* The sample registers describe a sample that SampleReader may start.
RegistersInv ==
    /\ dmc.sample_address \in SampleAddrs
    /\ dmc.sample_length \in SampleLens

(***************************************************************************)
(* What a cycle does to the bytes.                                         *)
(***************************************************************************)

\* The three things the output unit can do, as SampleReader names them.
OutputStep(d, c) ==
    \/ /\ c.sample_buffer = d.sample_buffer
       /\ c.shift_register \in {d.shift_register, d.shift_register \div 2}
       /\ c.silence = d.silence
    \/ /\ d.sample_buffer # NoByte
       /\ c.sample_buffer = NoByte
       /\ c.shift_register = d.sample_buffer
       /\ c.silence = FALSE
    \/ /\ d.sample_buffer = NoByte
       /\ c.sample_buffer = NoByte
       /\ c.shift_register \in {d.shift_register, d.shift_register \div 2}
       /\ c.silence = TRUE

LEMMA ClockOutputMoves ==
    ASSUME NEW d \in DmcType
    PROVE  /\ OutputStep(d, ClockOutput(d))
           /\ \A f \in {"sample_address", "sample_length"} : ClockOutput(d)[f] = d[f]
<1> DEFINE p == PlayBit(d)
<1>1. p \in DmcType
  BY PlayBitFacts
<1>2. /\ p.shift_register \in {d.shift_register, d.shift_register \div 2}
      /\ \A f \in {"sample_buffer", "silence", "sample_address", "sample_length"} :
            p[f] = d[f]
  BY DEF PlayBit, DmcType
<1>3. ClockOutput(d) = IF d.bits_remaining = 1 THEN NextByte(p)
                       ELSE [p EXCEPT !.bits_remaining = @ - 1]
  BY DEF ClockOutput
<1> HIDE DEF p
<1>4. CASE d.bits_remaining = 1
  <2> DEFINE n == NextByte(p)
  <2>1. /\ IF p.sample_buffer # NoByte
             THEN n.shift_register = p.sample_buffer /\ n.silence = FALSE
             ELSE n.shift_register = p.shift_register /\ n.silence = TRUE
        /\ n.sample_buffer = NoByte
        /\ \A f \in {"sample_address", "sample_length"} : n[f] = p[f]
    BY <1>1 DEF NextByte, CheckDma, DmcType
  <2> HIDE DEF n
  <2>2. ClockOutput(d) = n
    BY <1>3, <1>4 DEF n
  <2>3. QED
    BY <1>2, <2>1, <2>2 DEF OutputStep
<1>5. CASE d.bits_remaining # 1
  <2> DEFINE n == [p EXCEPT !.bits_remaining = @ - 1]
  <2>1. \A f \in {"sample_buffer", "shift_register", "silence", "sample_address",
                  "sample_length"} : n[f] = p[f]
    BY <1>1 DEF DmcType
  <2>2. ClockOutput(d) = n
    BY <1>3, <1>5
  <2> HIDE DEF n
  <2>3. QED
    BY <1>2, <2>1, <2>2 DEF OutputStep
<1>6. QED
  BY <1>4, <1>5

LEMMA ClockTimerMoves ==
    ASSUME NEW d \in DmcType
    PROVE  /\ OutputStep(d, ClockTimer(d))
           /\ \A f \in {"sample_address", "sample_length"} : ClockTimer(d)[f] = d[f]
<1>1. CASE d.timer = 0
  <2> DEFINE e == [d EXCEPT !.timer = PeriodTable[d.rate_index]]
  <2>1. PeriodTable[d.rate_index] \in Nat
    BY TableAssumption DEF DmcType
  <2>2. e \in DmcType
    BY <2>1 DEF DmcType
  <2>3. \A f \in {"sample_buffer", "shift_register", "silence", "sample_address",
                  "sample_length"} : e[f] = d[f]
    BY DEF DmcType
  <2>4. ClockTimer(d) = ClockOutput(e)
    BY <1>1 DEF ClockTimer
  <2> HIDE DEF e
  <2>5. QED
    BY <2>2, <2>3, <2>4, ClockOutputMoves, ZenonT(60) DEF OutputStep
<1>2. CASE d.timer # 0
  <2> DEFINE e == [d EXCEPT !.timer = @ - 1]
  <2>1. \A f \in {"sample_buffer", "shift_register", "silence", "sample_address",
                  "sample_length"} : e[f] = d[f]
    BY DEF DmcType
  <2>2. ClockTimer(d) = e
    BY <1>2 DEF ClockTimer
  <2> HIDE DEF e
  <2>3. QED
    BY <2>1, <2>2 DEF OutputStep
<1>3. QED
  BY <1>1, <1>2

\* A read takes one byte, and at the sample's end stops or starts over.
LEMMA LoadSampleMoves ==
    ASSUME NEW d \in DmcType, d.current_length > 0, NEW byte \in Byte
    PROVE  LET l == LoadSample(d, byte)
           IN  /\ l.sample_buffer = byte
               /\ \A f \in {"shift_register", "silence", "sample_address",
                            "sample_length"} : l[f] = d[f]
               /\ \/ /\ d.current_length > 1
                     /\ l.current_length = d.current_length - 1
                     /\ l.current_address = NextAddress(d.current_address)
                     /\ l.irq_pending = d.irq_pending
                  \/ /\ d.current_length = 1
                     /\ l.current_length = 0
                     /\ l.current_address = NextAddress(d.current_address)
                     /\ l.irq_pending \in {d.irq_pending, TRUE}
                  \/ /\ d.current_length = 1
                     /\ l.current_length = d.sample_length
                     /\ l.current_address = d.sample_address
                     /\ l.irq_pending = d.irq_pending
<1> DEFINE e == [d EXCEPT !.dma_request     = FALSE,
                          !.sample_buffer   = byte,
                          !.current_address = NextAddress(@),
                          !.current_length  = Decrement(@)]
           r == [e EXCEPT !.irq_pending = @ \/ e.irq_enable]
           l == LoadSample(d, byte)
<1>1. NextAddress(d.current_address) \in RomAddr
  BY NextAddressInRom DEF DmcType
<1>2. /\ Decrement(d.current_length) = d.current_length - 1
      /\ d.current_length - 1 \in 0 .. AddrSpace - 1
  BY AddrAssumption DEF Decrement, DmcType
<1>3. e \in DmcType
  BY <1>1, <1>2 DEF DmcType
<1>4. /\ e.sample_buffer = byte
      /\ e.current_address = NextAddress(d.current_address)
      /\ e.current_length = d.current_length - 1
      /\ \A f \in {"shift_register", "silence", "sample_address", "sample_length",
                   "irq_pending"} : e[f] = d[f]
  BY <1>2 DEF DmcType
<1>5. l = IF e.current_length # 0 THEN e ELSE IF e.loop_flag THEN Restart(e) ELSE r
  BY DEF LoadSample
<1>6. d.current_length \in Nat
  BY AddrAssumption DEF DmcType
<1> HIDE DEF e
<1>7. CASE e.current_length # 0
  <2>1. l = e
    BY <1>5, <1>7
  <2> HIDE DEF l
  <2>2. d.current_length > 1
    BY <1>4, <1>6, <1>7
  <2>3. QED
    BY <1>4, <2>1, <2>2 DEF l
<1>8. CASE e.current_length = 0 /\ e.loop_flag
  <2> DEFINE s == Restart(e)
  <2>1. /\ s.current_length = e.sample_length
        /\ s.current_address = e.sample_address
        /\ \A f \in {"shift_register", "silence", "sample_address", "sample_length",
                     "irq_pending", "sample_buffer"} : s[f] = e[f]
    BY <1>3 DEF Restart, CheckDma, DmcType
  <2>2. l = s
    BY <1>5, <1>8
  <2>3. d.current_length = 1
    BY <1>4, <1>6, <1>8
  <2> HIDE DEF l, s
  <2>4. QED
    BY <1>4, <2>1, <2>2, <2>3 DEF l
<1>9. CASE e.current_length = 0 /\ ~e.loop_flag
  <2>1. /\ r.irq_pending \in {e.irq_pending, TRUE}
        /\ \A f \in {"shift_register", "silence", "sample_address", "sample_length",
                     "sample_buffer", "current_length", "current_address"} : r[f] = e[f]
    BY <1>3 DEF DmcType
  <2>2. l = r
    BY <1>5, <1>9
  <2>3. d.current_length = 1
    BY <1>4, <1>6, <1>9
  <2> HIDE DEF l, r
  <2>4. QED
    BY <1>4, <1>9, <2>1, <2>2, <2>3, ZenonT(60) DEF l
<1>10. QED
  BY <1>7, <1>8, <1>9

(***************************************************************************)
(* Steps map to steps.                                                     *)
(***************************************************************************)

LEMMA TickImplementsCycle ==
    ASSUME IInv, RegistersInv, Tick
    PROVE  Reader!Cycle /\ RegistersInv'
<1> DEFINE c == ClockTimer(dmc)
<1>1. dmc \in DmcType /\ Exact(dmc)
  BY DEF IInv, TypeOK, RequestExact, Exact
<1>2. /\ c \in DmcType
      /\ Exact(c)
      /\ \A f \in {"current_length", "irq_pending", "current_address"} : c[f] = dmc[f]
  BY <1>1, ClockTimerFacts
<1>3. /\ OutputStep(dmc, c)
      /\ \A f \in {"sample_address", "sample_length"} : c[f] = dmc[f]
  BY <1>1, ClockTimerMoves
<1>4. c.sample_buffer \in {dmc.sample_buffer, NoByte}
  BY <1>3 DEF OutputStep
<1>5. CASE PlainTick
  <2>1. dmc' = c
    BY <1>5 DEF PlainTick
  <2> HIDE DEF c
  <2>2. Reader!Output(c.sample_buffer)
    BY <1>3, <2>1 DEF OutputStep, Reader!Output, Reader!PlayOn, Reader!TakeByte,
                      Reader!RunDry
  <2>3. Reader!ReadNothing(c.sample_buffer)
    BY <1>2, <2>1 DEF Reader!ReadNothing
  <2>4. QED
    BY <1>3, <1>4, <2>1, <2>2, <2>3 DEF Reader!Cycle, RegistersInv
<1>6. CASE DmaTick
  <2> DEFINE l == LoadSample(c, Rom[c.current_address])
  <2>1. dmc' = l /\ c.dma_request
    BY <1>6 DEF DmaTick
  <2>2. /\ c.current_length > 0 /\ c.sample_buffer = NoByte
        /\ Rom[c.current_address] \in Byte
    BY <1>2, <2>1, RomByte DEF Exact
  <2>3. /\ l.sample_buffer = Rom[c.current_address]
        /\ \A f \in {"shift_register", "silence", "sample_address", "sample_length"} :
              l[f] = c[f]
        /\ \/ /\ c.current_length > 1
              /\ l.current_length = c.current_length - 1
              /\ l.current_address = NextAddress(c.current_address)
              /\ l.irq_pending = c.irq_pending
           \/ /\ c.current_length = 1
              /\ l.current_length = 0
              /\ l.current_address = NextAddress(c.current_address)
              /\ l.irq_pending \in {c.irq_pending, TRUE}
           \/ /\ c.current_length = 1
              /\ l.current_length = c.sample_length
              /\ l.current_address = c.sample_address
              /\ l.irq_pending = c.irq_pending
    BY <1>2, <2>2, LoadSampleMoves
  <2> HIDE DEF c, l
  <2>4. Reader!Output(NoByte)
    BY <1>3, <2>1, <2>2, <2>3 DEF OutputStep, Reader!Output, Reader!PlayOn,
                                  Reader!TakeByte, Reader!RunDry
  <2>5. Reader!ReadByte(NoByte)
    BY <1>2, <1>3, <2>1, <2>2, <2>3
       DEF Reader!ReadByte, Reader!Successor, NextAddress, RegistersInv
  <2>6. RegistersInv'
    BY <1>3, <2>1, <2>3 DEF RegistersInv
  <2>7. QED
    BY <2>4, <2>5, <2>6 DEF Reader!Cycle
<1>7. QED
  BY <1>5, <1>6 DEF Tick

\* What an access leaves alone, SampleReader does not see.
LEMMA SameFieldsStutter ==
    ASSUME \A f \in {"current_address", "current_length", "sample_buffer",
                     "shift_register", "silence", "irq_pending"} : dmc'[f] = dmc[f]
    PROVE  UNCHANGED Reader!vars
  BY DEF Reader!vars

LEMMA WriteImplementsRequest ==
    ASSUME IInv, RegistersInv, RegisterWrite
    PROVE  [Reader!Next]_(Reader!vars) /\ RegistersInv'
<1>1. dmc \in DmcType
  BY DEF IInv, TypeOK
<1>2. ASSUME NEW irq \in BOOLEAN, NEW loop \in BOOLEAN, NEW rate \in Rate,
             WriteControl(irq, loop, rate)
      PROVE  [Reader!Next]_(Reader!vars) /\ RegistersInv'
  <2>1. /\ dmc'.irq_pending = (dmc.irq_pending /\ irq)
        /\ \A f \in {"current_address", "current_length", "sample_buffer",
                     "shift_register", "silence", "sample_address", "sample_length"} :
              dmc'[f] = dmc[f]
    BY <1>1, <1>2 DEF WriteControl, Access, SetControl, DmcType
  <2>2. dmc.irq_pending \in BOOLEAN
    BY <1>1 DEF DmcType
  <2>3. dmc'.irq_pending = dmc.irq_pending \/ dmc'.irq_pending = FALSE
    BY <2>1, <2>2
  <2>4. dmc'.irq_pending = FALSE => Reader!Acknowledge
    BY <2>1 DEF Reader!Acknowledge
  <2>5. dmc'.irq_pending = dmc.irq_pending => UNCHANGED Reader!vars
    BY <2>1, SameFieldsStutter
  <2>6. QED
    BY <2>1, <2>3, <2>4, <2>5 DEF Reader!Next, RegistersInv
<1>3. ASSUME NEW v \in LevelVals, WriteLevel(v)
      PROVE  [Reader!Next]_(Reader!vars) /\ RegistersInv'
  <2>1. \A f \in {"current_address", "current_length", "sample_buffer",
                  "shift_register", "silence", "irq_pending", "sample_address",
                  "sample_length"} : dmc'[f] = dmc[f]
    BY <1>1, <1>3 DEF WriteLevel, Access, DmcType
  <2>2. QED
    BY <2>1, SameFieldsStutter DEF RegistersInv
<1>4. ASSUME NEW v \in RegVals, WriteAddress(v)
      PROVE  [Reader!Next]_(Reader!vars) /\ RegistersInv'
  <2>1. /\ dmc'.sample_address = SampleBase + v * AddrUnit
        /\ \A f \in {"current_address", "current_length", "sample_buffer",
                     "shift_register", "silence", "irq_pending", "sample_length"} :
              dmc'[f] = dmc[f]
    BY <1>1, <1>4 DEF WriteAddress, Access, DmcType
  <2>2. QED
    BY <2>1, SameFieldsStutter DEF RegistersInv, SampleAddrs
<1>5. ASSUME NEW v \in RegVals, WriteLength(v)
      PROVE  [Reader!Next]_(Reader!vars) /\ RegistersInv'
  <2>1. /\ dmc'.sample_length = v * LenUnit + 1
        /\ \A f \in {"current_address", "current_length", "sample_buffer",
                     "shift_register", "silence", "irq_pending", "sample_address"} :
              dmc'[f] = dmc[f]
    BY <1>1, <1>5 DEF WriteLength, Access, DmcType
  <2>2. QED
    BY <2>1, SameFieldsStutter DEF RegistersInv, SampleLens
<1>6. ASSUME NEW enable \in BOOLEAN, WriteStatus(enable)
      PROVE  [Reader!Next]_(Reader!vars) /\ RegistersInv'
  <2> DEFINE e == [dmc EXCEPT !.irq_pending = FALSE]
  <2>1. /\ e.irq_pending = FALSE
        /\ \A f \in {"current_address", "current_length", "sample_buffer",
                     "shift_register", "silence", "sample_address", "sample_length"} :
              e[f] = dmc[f]
        /\ e \in DmcType
    BY <1>1 DEF DmcType
  <2>2. dmc' = IF ~enable THEN [e EXCEPT !.current_length = 0]
               ELSE IF e.current_length = 0 THEN Restart(e) ELSE e
    BY <1>6 DEF WriteStatus, Access, SetStatus
  <2> HIDE DEF e
  <2>3. CASE ~enable
    <3>1. /\ dmc'.current_length = 0
          /\ \A f \in {"current_address", "sample_buffer", "shift_register", "silence",
                       "irq_pending", "sample_address", "sample_length"} : dmc'[f] = e[f]
      BY <2>1, <2>2, <2>3 DEF DmcType
    <3>2. Reader!Stop
      BY <2>1, <3>1 DEF Reader!Stop
    <3>3. QED
      BY <2>1, <3>1, <3>2 DEF Reader!Next, RegistersInv
  <2>4. CASE enable /\ e.current_length = 0
    <3>1. /\ dmc'.current_length = e.sample_length
          /\ dmc'.current_address = e.sample_address
          /\ \A f \in {"sample_buffer", "shift_register", "silence", "irq_pending",
                       "sample_address", "sample_length"} : dmc'[f] = e[f]
      BY <2>1, <2>2, <2>4 DEF Restart, CheckDma, DmcType
    <3>2. Reader!Start
      BY <2>1, <2>4, <3>1 DEF Reader!Start, RegistersInv
    <3>3. QED
      BY <2>1, <3>1, <3>2 DEF Reader!Next, RegistersInv
  <2>5. CASE enable /\ e.current_length # 0
    <3>1. dmc' = e
      BY <2>2, <2>5
    <3>2. Reader!Acknowledge
      BY <2>1, <3>1 DEF Reader!Acknowledge
    <3>3. QED
      BY <2>1, <3>1, <3>2 DEF Reader!Next, RegistersInv
  <2>6. QED
    BY <2>3, <2>4, <2>5
<1>7. QED
  BY <1>2, <1>3, <1>4, <1>5, <1>6 DEF RegisterWrite

LEMMA InitImplements == Init => Reader!Init /\ RegistersInv
<1> SUFFICES ASSUME Init PROVE Reader!Init /\ RegistersInv
  OBVIOUS
<1>1. /\ dmc.current_address = SampleBase
      /\ dmc.current_length = 0
      /\ dmc.sample_buffer = NoByte
      /\ dmc.shift_register = 0
      /\ dmc.silence = TRUE
      /\ dmc.irq_pending = FALSE
      /\ dmc.sample_address = SampleBase
      /\ dmc.sample_length = 1
  BY DEF Init, NewDmc
<1>2. QED
  BY <1>1, Zenon DEF Reader!Init, RegistersInv, SampleAddrs, SampleLens

\* The channel implements SampleReader for every value of the constants: no
\* byte is lost, repeated or overwritten on its way from ROM.
THEOREM DmcImplementsReader == Spec => ImplementsReader
<1>1. IInv /\ RegistersInv /\ [Next]_vars => [Reader!Next]_(Reader!vars) /\ RegistersInv'
  <2> SUFFICES ASSUME IInv, RegistersInv, [Next]_vars
               PROVE  [Reader!Next]_(Reader!vars) /\ RegistersInv'
    OBVIOUS
  <2>1. CASE Tick
    BY <2>1, TickImplementsCycle DEF Reader!Next
  <2>2. CASE RegisterWrite
    BY <2>2, WriteImplementsRequest
  <2>3. CASE BeginAccess \/ OtherAccess \/ UNCHANGED vars
    <3>1. dmc' = dmc
      BY <2>3 DEF BeginAccess, OtherAccess, Access, vars
    <3>2. QED
      BY <3>1, SameFieldsStutter DEF RegistersInv
  <2>4. QED
    BY <2>1, <2>2, <2>3 DEF Next
<1>2. QED
  BY Invariance, InitImplements, <1>1, PTL DEF Spec, ImplementsReader, Reader!Safety

=============================================================================
