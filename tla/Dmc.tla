-------------------------------- MODULE Dmc --------------------------------
(***************************************************************************)
(* The delta modulation channel of the APU (src/src/apu/dmc.rs) together   *)
(* with the part of Bus::tick that serves its sample reads                 *)
(* (src/src/bus/mod.rs).                                                   *)
(*                                                                         *)
(* The program is one thread, but the channel is driven by two callers     *)
(* that interleave: the CPU writes $4010-$4015 at any bus cycle, and every *)
(* bus cycle clocks the channel's timer.  Between them stands dma_request, *)
(* a flag the channel raises when its one-byte buffer is empty and the bus *)
(* lowers when it has stolen the cycles to fill it.                        *)
(*                                                                         *)
(* Bus::cpu_read and Bus::cpu_write call tick(1) FIRST and access the      *)
(* register afterwards, and a served request calls tick(DmaTicks) from     *)
(* inside that tick.  "owed" counts the bus cycles the calls in progress   *)
(* still have to run; "due" says that an access waits for them.            *)
(***************************************************************************)
EXTENDS Integers

CONSTANTS
    BitsPerByte,   \* 8: bits the output unit plays per byte
    MaxByte,       \* 255
    MaxLevel,      \* 127: largest value of the 7-bit output level
    PeriodTable,   \* DMC_PERIOD_TABLE: rate index -> timer period
    AddrSpace,     \* 2^16: addresses and lengths are u16
    RomBase,       \* $8000: where the address goes when it wraps
    SampleBase,    \* $C000
    AddrUnit,      \* 64: bytes per unit of $4012
    LenUnit,       \* 16: bytes per unit of $4013
    RegVals,       \* values the CPU writes to $4012 and $4013
    LevelVals,     \* values the CPU writes to $4011, after the & 0x7F
    Rom,           \* what Bus::peek reads from the cartridge
    DmaTicks,      \* 3: cycles stolen per sample read
    NoByte         \* sample_buffer = None

RomAddr == RomBase .. AddrSpace - 1
Byte    == 0 .. MaxByte
Rate    == DOMAIN PeriodTable

ASSUME SizeAssumption ==
    /\ BitsPerByte \in Nat \ {0}
    /\ MaxByte \in Nat
    /\ MaxLevel \in Nat
    /\ DmaTicks \in Nat \ {0}
    /\ LevelVals \subseteq 0 .. MaxLevel
    /\ RegVals \subseteq Nat

ASSUME AddrAssumption ==
    /\ AddrSpace \in Nat \ {0, 1}
    /\ RomBase \in 0 .. AddrSpace - 1
    /\ SampleBase \in RomAddr
    /\ AddrUnit \in Nat
    /\ LenUnit \in Nat
    /\ \A v \in RegVals : /\ SampleBase + v * AddrUnit \in RomAddr
                          /\ v * LenUnit + 1 \in 1 .. AddrSpace - 1

ASSUME TableAssumption ==
    /\ 0 \in Rate
    /\ PeriodTable \in [Rate -> Nat]
    /\ Rom \in [RomAddr -> Byte]
    /\ NoByte \notin Byte

\* A boundary of the byte being played comes at most once per DmaTicks
\* cycles.  On the NTSC table it comes every 8 * 55 cycles or more.
ASSUME RateAssumption ==
    \A r \in Rate : BitsPerByte * (PeriodTable[r] + 1) > DmaTicks

VARIABLES
    dmc,    \* the fields of struct Dmc
    owed,   \* bus cycles that Bus::tick calls in progress still have to run
    due     \* a CPU access has begun and its register access is still to come

vars == <<dmc, owed, due>>

-----------------------------------------------------------------------------
(* The methods of Dmc, each a function from the fields to the fields.      *)

NewDmc ==
    [ output_level    |-> 0,
      irq_enable      |-> FALSE,
      loop_flag       |-> FALSE,
      rate_index      |-> 0,
      sample_address  |-> SampleBase,
      sample_length   |-> 1,
      current_address |-> SampleBase,
      current_length  |-> 0,
      shift_register  |-> 0,
      bits_remaining  |-> BitsPerByte,
      timer           |-> PeriodTable[0],
      sample_buffer   |-> NoByte,
      irq_pending     |-> FALSE,
      silence         |-> TRUE,
      dma_request     |-> FALSE ]

\* Mutant: a read is requested even if the buffer still holds a byte.
CheckDmaFull(d) == [d EXCEPT !.dma_request = @ \/ d.current_length > 0]

CheckDma(d) ==
    [d EXCEPT !.dma_request = @ \/ (d.sample_buffer = NoByte /\ d.current_length > 0)]

\* Reload the reader from the sample registers.
Restart(d) ==
    CheckDma([d EXCEPT !.current_address = d.sample_address,
                       !.current_length  = d.sample_length])

\* One bit leaves the shift register; the level moves by 2 unless it would
\* leave 0 .. MaxLevel.
PlayBit(d) ==
    LET level == IF d.shift_register % 2 # 0
                   THEN IF d.output_level + 2 <= MaxLevel
                          THEN d.output_level + 2 ELSE d.output_level
                   ELSE IF d.output_level >= 2
                          THEN d.output_level - 2 ELSE d.output_level
    IN  IF d.silence
          THEN d
          ELSE [d EXCEPT !.output_level   = level,
                         !.shift_register = @ \div 2]

\* Mutant: taking the byte does not request the next one.
NextByteUnasked(d) ==
    IF d.sample_buffer # NoByte
      THEN [d EXCEPT !.bits_remaining = BitsPerByte,
                     !.silence        = FALSE,
                     !.shift_register = d.sample_buffer,
                     !.sample_buffer  = NoByte]
      ELSE [d EXCEPT !.bits_remaining = BitsPerByte, !.silence = TRUE]

\* The output unit has played its byte and takes the next one, or falls silent.
NextByte(d) ==
    IF d.sample_buffer # NoByte
      THEN CheckDma([d EXCEPT !.bits_remaining = BitsPerByte,
                              !.silence        = FALSE,
                              !.shift_register = d.sample_buffer,
                              !.sample_buffer  = NoByte])
      ELSE [d EXCEPT !.bits_remaining = BitsPerByte,
                     !.silence        = TRUE]

ClockOutput(d) ==
    LET p == PlayBit(d)
    IN  IF d.bits_remaining = 1
          THEN NextByte(p)
          ELSE [p EXCEPT !.bits_remaining = @ - 1]

ClockTimer(d) ==
    IF d.timer = 0
      THEN ClockOutput([d EXCEPT !.timer = PeriodTable[d.rate_index]])
      ELSE [d EXCEPT !.timer = @ - 1]

\* Mutant: the address wraps as a u16 does.
NextAddressU16(a) == (a + 1) % AddrSpace

\* wrapping_add(1), and the wrap to RomBase.
NextAddress(a) == IF a = AddrSpace - 1 THEN RomBase ELSE a + 1

\* u16 subtraction of 1, which wraps in a release build.
Decrement(n) == IF n = 0 THEN AddrSpace - 1 ELSE n - 1

\* Mutant: the end of a sample raises the interrupt, enabled or not.
LoadSampleAlwaysIrq(d, byte) ==
    LET e == [d EXCEPT !.dma_request     = FALSE,
                       !.sample_buffer   = byte,
                       !.current_address = NextAddress(@),
                       !.current_length  = Decrement(@)]
    IN  IF e.current_length # 0 THEN e
        ELSE IF e.loop_flag     THEN Restart(e)
        ELSE [e EXCEPT !.irq_pending = TRUE]

LoadSample(d, byte) ==
    LET e == [d EXCEPT !.dma_request     = FALSE,
                       !.sample_buffer   = byte,
                       !.current_address = NextAddress(@),
                       !.current_length  = Decrement(@)]
    IN  IF e.current_length # 0 THEN e
        ELSE IF e.loop_flag     THEN Restart(e)
        ELSE [e EXCEPT !.irq_pending = @ \/ e.irq_enable]

SetControl(d, irq, loop, rate) ==
    [d EXCEPT !.irq_enable  = irq,
              !.loop_flag   = loop,
              !.rate_index  = rate,
              !.timer       = PeriodTable[rate],
              !.irq_pending = @ /\ irq]

\* Mutant: $4015 starts a sample without acknowledging the interrupt.
SetStatusUnacknowledged(d, enable) ==
    IF ~enable                THEN [d EXCEPT !.current_length = 0]
    ELSE IF d.current_length = 0 THEN Restart(d)
    ELSE d

SetStatus(d, enable) ==
    LET e == [d EXCEPT !.irq_pending = FALSE]
    IN  IF ~enable                THEN [e EXCEPT !.current_length = 0]
        ELSE IF e.current_length = 0 THEN Restart(e)
        ELSE e

-----------------------------------------------------------------------------
(* The bus.                                                                *)

Init ==
    /\ dmc  = NewDmc
    /\ owed = 0
    /\ due  = FALSE

\* The CPU starts a bus access, or an idle cycle: tick(1) comes first.
BeginAccess ==
    /\ owed = 0 /\ ~due
    /\ owed' = 1
    /\ due'  = TRUE
    /\ UNCHANGED dmc

\* Mutant: the request is looked for before the channel is clocked.
PlainTickLooksFirst ==
    /\ owed > 0
    /\ ~dmc.dma_request
    /\ dmc'  = ClockTimer(dmc)
    /\ owed' = owed - 1
    /\ UNCHANGED due

\* One iteration of Bus::tick in which no sample read is outstanding.
PlainTick ==
    /\ owed > 0
    /\ ~ClockTimer(dmc).dma_request
    /\ dmc'  = ClockTimer(dmc)
    /\ owed' = owed - 1
    /\ UNCHANGED due

\* One iteration of Bus::tick that serves a sample read: the byte is read
\* and loaded at once, then tick(DmaTicks) runs before this iteration ends.
DmaTick ==
    LET d == ClockTimer(dmc)
    IN  /\ owed > 0
        /\ d.dma_request
        /\ dmc'  = LoadSample(d, Rom[d.current_address])
        /\ owed' = owed - 1 + DmaTicks
        /\ UNCHANGED due

\* All cycles are run: the access itself happens.
Access(d) ==
    /\ owed = 0 /\ due
    /\ dmc' = d
    /\ due' = FALSE
    /\ UNCHANGED owed

\* Any access that leaves the channel alone: reads (of $4015 too), writes to
\* other addresses, idle cycles.
OtherAccess == Access(dmc)

WriteControl(irq, loop, rate) == Access(SetControl(dmc, irq, loop, rate))  \* $4010
WriteLevel(v)   == Access([dmc EXCEPT !.output_level = v])                 \* $4011
WriteAddress(v) == Access([dmc EXCEPT !.sample_address = SampleBase + v * AddrUnit])
WriteLength(v)  == Access([dmc EXCEPT !.sample_length = v * LenUnit + 1])  \* $4013
WriteStatus(enable) == Access(SetStatus(dmc, enable))                      \* $4015

Tick == PlainTick \/ DmaTick

RegisterWrite ==
    \/ \E irq, loop \in BOOLEAN, rate \in Rate : WriteControl(irq, loop, rate)
    \/ \E v \in LevelVals : WriteLevel(v)
    \/ \E v \in RegVals : WriteAddress(v) \/ WriteLength(v)
    \/ \E enable \in BOOLEAN : WriteStatus(enable)

Next == BeginAccess \/ Tick \/ OtherAccess \/ RegisterWrite

\* The emulator's loop never stops running bus cycles (Nes::step_frame), and
\* exactly one kind of step is possible at a time.
Spec == Init /\ [][Next]_vars /\ WF_vars(Next)

-----------------------------------------------------------------------------
(* Properties.                                                             *)

DmcType ==
    [ output_level    : 0 .. MaxLevel,
      irq_enable      : BOOLEAN,
      loop_flag       : BOOLEAN,
      rate_index      : Rate,
      sample_address  : RomAddr,
      sample_length   : 1 .. AddrSpace - 1,
      current_address : RomAddr,
      current_length  : 0 .. AddrSpace - 1,
      shift_register  : Byte,
      bits_remaining  : 1 .. BitsPerByte,
      timer           : Nat,
      sample_buffer   : Byte \union {NoByte},
      irq_pending     : BOOLEAN,
      silence         : BOOLEAN,
      dma_request     : BOOLEAN ]

\* The type invariant.  Beyond the types of the fields it says that the level
\* stays in its 7 bits, that bits_remaining never reaches the 0 from which
\* the next "-= 1" would wrap, and that a sample read only ever addresses
\* cartridge ROM (Bus::peek of lower addresses reads RAM and mapper
\* registers).
TypeOK ==
    /\ dmc \in DmcType
    /\ owed \in Nat
    /\ due \in BOOLEAN
    /\ owed > 0 => due

\* The handshake between channel and bus: a read is requested exactly while
\* the buffer is empty and bytes of the sample remain.  A missing request
\* would stall the sample for ever, because check_dma only runs when a byte
\* is taken from the buffer; a spurious one would overwrite a byte that has
\* not been played or take current_length below 0.
RequestExact ==
    dmc.dma_request <=> (dmc.sample_buffer = NoByte /\ dmc.current_length > 0)

\* A register write never finds a read outstanding: the tick that precedes the
\* write has served it.  Dmc::write_status relies on it when it zeroes
\* current_length without looking at dma_request.
ServedBeforeAccess == (due /\ owed = 0) => ~dmc.dma_request

\* A pending interrupt means that the sample is over and nothing has been
\* started since, so a handler that restarts the sample on each interrupt
\* restarts it once per play: $4015 and $4010 acknowledge before they start.
IrqMeansDrained ==
    dmc.irq_pending => dmc.irq_enable /\ dmc.current_length = 0

\* Bus::tick calls itself for a served read.  The recursion is bounded: a
\* read may be served while the cycles stolen by another one run, but the
\* calls never owe more than two reads' worth of cycles.
StallBounded == owed <= 2 * DmaTicks - 1

\* The interrupt is raised by the read of a one-shot sample's last byte, by
\* every such read, and by nothing else (in particular not by $4015 cutting
\* the sample short).
IrqExactlyAtEnd ==
    [][ (~dmc.irq_pending /\ dmc'.irq_pending)
          <=> /\ owed > 0 /\ dmc.irq_enable
              /\ dmc.current_length > 0 /\ dmc'.current_length = 0 ]_vars

\* No access disturbs the timer, the control bits or the bytes remaining.
Undisturbed ==
    owed = 0 =>
        \A f \in {"irq_enable", "loop_flag", "rate_index", "timer", "current_length"} :
            dmc'[f] = dmc[f]

\* Once the program stops touching $4010 and $4015 the channel settles: the
\* sample is over, or it loops without a gap.  The premise is needed: $4010
\* reloads the timer, so a program that keeps writing it holds the output
\* unit still for ever.
PlaybackSettles ==
    <>[][Undisturbed]_vars
        => <>[](dmc.current_length = 0 \/ (dmc.loop_flag /\ ~dmc.silence))

=============================================================================
