-------------------------- MODULE SaveStates_proofs --------------------------
(***************************************************************************)
(* Proofs about SaveStates: what the joypad, the battery-backed RAM and    *)
(* the sample channel promise holds through every sequence of saves,       *)
(* loads, quits and crashes, for any size of RAM, sample and shift         *)
(* register.                                                               *)
(***************************************************************************)
EXTENDS SaveStates, SequenceTheorems, TLAPS

(***************************************************************************)
(* The joypad.                                                             *)
(***************************************************************************)

\* From a write to $4016 to the end of the frame the shift register and the
\* reads move together.
PadInv ==
    /\ button_index \in 0 .. Buttons
    /\ read \in Seq({0, 1})
    /\ since = "nothing" =>
          /\ snapshot = button_state
          /\ strobe => read = <<>>
          /\ button_index = IF Len(read) < Buttons THEN Len(read) ELSE Buttons
          /\ Pad!InOrder

LEMMA PadInit == Pad!Init => PadInv
<1> SUFFICES ASSUME Pad!Init PROVE PadInv
  OBVIOUS
<1>1. Buttons \in Nat \ {0}
  BY PartsAssumption DEF Pad!ButtonsAssumption
<1>2. QED
  BY <1>1 DEF Pad!Init, PadInv

\* A read appends the next button, and ones after the last.
LEMMA PadRead == PadInv /\ Pad!Read => PadInv'
<1> SUFFICES ASSUME PadInv, Pad!Read PROVE PadInv'
  OBVIOUS
<1>1. Buttons \in Nat \ {0}
  BY PartsAssumption DEF Pad!ButtonsAssumption
<1>2. /\ button_index \in 0 .. Buttons /\ read \in Seq({0, 1}) /\ Len(read) \in Nat
      /\ since' = since /\ snapshot' = snapshot /\ button_state' = button_state
      /\ strobe' = strobe
  BY DEF PadInv, Pad!Read
<1>3. CASE strobe \/ Len(read) > Buttons
  <2>1. read' \in {<<>>, read} /\ button_index' \in 0 .. Buttons
    BY <1>1, <1>2, <1>3 DEF Pad!Read
  <2>2. read' \in Seq({0, 1})
    <3>1. <<>> \in Seq({0, 1})
      OBVIOUS
    <3>2. QED
      BY <1>2, <2>1, <3>1, Zenon
  <2>3. ASSUME since = "nothing"
        PROVE  read' = read /\ button_index' = button_index
    BY <1>1, <1>2, <1>3, <2>3 DEF PadInv, Pad!Read
  <2>4. QED
    BY <1>2, <2>1, <2>2, <2>3 DEF PadInv, Pad!InOrder
<1>4. CASE ~strobe /\ ~(Len(read) > Buttons)
  <2> DEFINE b == IF button_index > Buttons - 1 THEN 1 ELSE Pad!Bit(button_state, button_index)
  <2>1. /\ read' = Append(read, b)
        /\ button_index' = IF button_index > Buttons - 1 THEN button_index ELSE button_index + 1
    BY <1>4 DEF Pad!Read
  <2>2. b \in {0, 1}
    BY DEF Pad!Bit
  <2>3. /\ read' \in Seq({0, 1}) /\ Len(read') = Len(read) + 1
        /\ \A i \in 1 .. Len(read) : read'[i] = read[i]
        /\ read'[Len(read) + 1] = b
    BY <1>2, <2>1, <2>2
  <2>4. button_index' \in 0 .. Buttons
    BY <1>1, <1>2, <2>1
  <2>5. ASSUME since = "nothing"
        PROVE  /\ button_index' = IF Len(read') < Buttons THEN Len(read') ELSE Buttons
               /\ Pad!InOrder'
    <3>1. /\ snapshot = button_state /\ Pad!InOrder
          /\ button_index = IF Len(read) < Buttons THEN Len(read) ELSE Buttons
      BY <2>5 DEF PadInv
    <3>2. button_index' = IF Len(read') < Buttons THEN Len(read') ELSE Buttons
      BY <1>1, <1>2, <2>1, <2>3, <3>1
    <3>3. b = IF Len(read) + 1 <= Buttons THEN Pad!Bit(snapshot, Len(read)) ELSE 1
      BY <1>1, <1>2, <3>1
    <3> HIDE DEF b
    <3>4. ASSUME NEW i \in 1 .. Len(read')
          PROVE  read'[i] = IF i <= Buttons THEN Pad!Bit(snapshot, i - 1) ELSE 1
      <4>1. CASE i \in 1 .. Len(read)
        BY <2>3, <3>1, <4>1 DEF Pad!InOrder
      <4>2. CASE i = Len(read) + 1
        <5>1. i - 1 = Len(read)
          BY <1>2, <4>2
        <5>2. QED
          BY <2>3, <3>3, <4>2, <5>1
      <4>3. QED
        BY <1>2, <2>3, <4>1, <4>2
    <3>5. Pad!InOrder'
      BY <1>2, <3>4 DEF Pad!InOrder
    <3>6. QED
      BY <3>2, <3>5
  <2>6. QED
    BY <1>2, <1>4, <2>3, <2>4, <2>5 DEF PadInv
<1>5. QED
  BY <1>3, <1>4

LEMMA PadStep == PadInv /\ Pad!Next => PadInv'
<1> SUFFICES ASSUME PadInv, Pad!Next PROVE PadInv'
  OBVIOUS
<1>1. Buttons \in Nat \ {0}
  BY PartsAssumption DEF Pad!ButtonsAssumption
<1>2. ASSUME NEW s \in BOOLEAN, Pad!Write(s)
      PROVE  PadInv'
  BY <1>1, <1>2 DEF Pad!Write, PadInv, Pad!InOrder
<1>3. ASSUME NEW down, Pad!SetButtons(down)
      PROVE  PadInv'
  BY <1>3 DEF Pad!SetButtons, PadInv
<1>4. ASSUME NEW s \in BOOLEAN, NEW i \in 0 .. Buttons, NEW down, Pad!RestoreState(s, i, down)
      PROVE  PadInv'
  BY <1>4 DEF Pad!RestoreState, PadInv
<1>5. QED
  BY <1>2, <1>3, <1>4, PadRead DEF Pad!Next

(***************************************************************************)
(* The battery-backed RAM.                                                 *)
(***************************************************************************)

\* The copy the program reads is the RAM as it knows it, whether the registers
\* of the board show it or not.
Agrees(bus, own, known) == IF board = "Bus" THEN bus = known ELSE own = known

\* What a file that is whole brings back: a state without the board's RAM tells
\* so, and a board without RAM never loses touch with it.
RamInv ==
    /\ ~apart => Agrees(bus_ram, own_ram, ideal)
    /\ board = "Bus" => gate = "open" /\ ~apart
    /\ Ram!Whole(state) =>
          /\ ~state.apart => Agrees(state.bus_ram, state.own_ram, state.ideal)
          /\ board = "Bus" => state.gate = "open" /\ ~state.apart
    /\ Ram!Whole(sav) /\ board = "Bus" => sav.ram = sav.ideal

LEMMA RamInit == Ram!Init => RamInv
  BY DEF Ram!Init, Ram!PowerOnGate, Ram!Whole, RamInv, Agrees

\* A torn file is not whole, and what a whole one holds is the present.
LEMMA FileFacts ==
    /\ ~Ram!Whole(Ram!Torn(Ram!StateFile)) /\ ~Ram!Whole(Ram!Torn(Ram!SavFile))
    /\ Ram!StateFile.bus_ram = bus_ram /\ Ram!StateFile.own_ram = own_ram
    /\ Ram!StateFile.ideal = ideal /\ Ram!StateFile.gate = gate
    /\ Ram!StateFile.apart = apart
    /\ Ram!SavFile.ram = bus_ram /\ Ram!SavFile.ideal = ideal
  BY DEF Ram!Whole, Ram!Torn, Ram!StateFile, Ram!SavFile

\* The program's writes: both copies or none that is read.
LEMMA RamWrite ==
    ASSUME RamInv, NEW p \in Places, NEW v \in Values, Ram!Write(p, v)
    PROVE  RamInv'
<1>1. /\ board' = board /\ gate' = gate /\ apart' = apart /\ state' = state /\ sav' = sav
      /\ bus_ram' = [bus_ram EXCEPT ![p] = v]
      /\ own_ram' = IF board # "Bus" /\ gate = "open"
                      THEN [own_ram EXCEPT ![p] = v] ELSE own_ram
      /\ ideal' = IF gate = "open" THEN [ideal EXCEPT ![p] = v] ELSE ideal
  BY DEF Ram!Write, Ram!HasOwnRam
<1>2. ~apart => Agrees(bus_ram, own_ram, ideal)'
  <2>1. CASE board = "Bus"
    BY <1>1, <2>1, Zenon DEF RamInv, Agrees
  <2>2. CASE board # "Bus"
    BY <1>1, <2>2, Zenon DEF RamInv, Agrees
  <2>3. QED
    BY <2>1, <2>2
<1>3. QED
  BY <1>1, <1>2, Zenon DEF RamInv, Agrees, Ram!Whole

LEMMA RamFiles ==
    RamInv /\ (Ram!BeginState \/ Ram!EndState \/ Ram!BeginSav \/ Ram!EndSav \/ Ram!Crash)
        => RamInv'
<1> SUFFICES ASSUME RamInv,
                    Ram!BeginState \/ Ram!EndState \/ Ram!BeginSav \/ Ram!EndSav \/ Ram!Crash
             PROVE  RamInv'
  OBVIOUS
<1>1. /\ board' = board /\ gate' = gate /\ apart' = apart
      /\ bus_ram' = bus_ram /\ own_ram' = own_ram /\ ideal' = ideal
  BY DEF Ram!BeginState, Ram!EndState, Ram!BeginSav, Ram!EndSav, Ram!Crash
<1>2. /\ state' \in {state, Ram!StateFile, Ram!Torn(Ram!StateFile)}
      /\ sav' \in {sav, Ram!SavFile, Ram!Torn(Ram!SavFile)}
  BY Zenon DEF Ram!BeginState, Ram!EndState, Ram!BeginSav, Ram!EndSav, Ram!Crash
<1>3. Ram!Whole(state') =>
          /\ ~state'.apart => Agrees(state'.bus_ram, state'.own_ram, state'.ideal)
          /\ board = "Bus" => state'.gate = "open" /\ ~state'.apart
  BY <1>2, FileFacts, Zenon DEF RamInv
<1>4. Ram!Whole(sav') /\ board = "Bus" => sav'.ram = sav'.ideal
  BY <1>2, FileFacts, Zenon DEF RamInv, Agrees
<1>5. QED
  BY <1>1, <1>3, <1>4, Zenon DEF RamInv, Agrees, Ram!Whole

\* A state is loaded by F9 or at the start; own and g are what stays of the
\* board if its RAM and its protection are not in the file.
LEMMA RamRestore ==
    ASSUME RamInv, Ram!Whole(state), NEW own, NEW g, board = "Bus" => g = "open",
           bus_ram' = state.bus_ram, Ram!RestoreOwn(state, own, g),
           board' = board, state' = state, sav' = sav
    PROVE  RamInv'
<1>1. /\ ~state.apart => Agrees(state.bus_ram, state.own_ram, state.ideal)
      /\ board = "Bus" => state.gate = "open" /\ ~state.apart
      /\ Ram!Whole(sav) /\ board = "Bus" => sav.ram = sav.ideal
  BY Zenon DEF RamInv
<1>2. /\ own_ram' = IF board = "Mmc1" THEN state.own_ram ELSE own
      /\ gate' = IF board = "Mmc5" THEN g ELSE state.gate
      /\ ideal' = state.ideal
      /\ apart' = (state.apart \/ (board # "Bus" /\ board # "Mmc1"))
  BY DEF Ram!RestoreOwn, Ram!SavesOwnRam, Ram!HasOwnRam
<1>3. ~apart' => Agrees(bus_ram, own_ram, ideal)'
  BY <1>1, <1>2, Zenon DEF Agrees
<1>4. board = "Bus" => gate' = "open" /\ ~apart'
  BY <1>1, <1>2
<1>5. QED
  BY <1>1, <1>3, <1>4, Zenon DEF RamInv, Agrees, Ram!Whole

LEMMA RamStart == RamInv /\ (\E resume \in BOOLEAN : Ram!Start(resume)) => RamInv'
<1> SUFFICES ASSUME RamInv, NEW resume \in BOOLEAN, Ram!Start(resume) PROVE RamInv'
  OBVIOUS
<1>1. board' = board /\ state' = state /\ sav' = sav
  BY DEF Ram!Start
<1>2. board = "Bus" => Ram!PowerOnGate(board) = "open"
  BY DEF Ram!PowerOnGate
<1>3. CASE resume /\ Ram!Whole(state)
  <2>1. bus_ram' = state.bus_ram /\ Ram!RestoreOwn(state, Ram!Zeros, Ram!PowerOnGate(board))
    BY <1>3, Zenon DEF Ram!Start, Ram!Restored
  <2>2. QED
    BY <1>1, <1>2, <1>3, <2>1, RamRestore, Zenon
<1>4. CASE ~(resume /\ Ram!Whole(state))
  <2>1. /\ bus_ram' = IF Ram!Whole(sav) THEN sav.ram ELSE Ram!Zeros
        /\ own_ram' = Ram!Zeros /\ gate' = Ram!PowerOnGate(board)
        /\ ideal' = IF Ram!Whole(sav) THEN sav.ideal ELSE Ram!Zeros
        /\ apart' = (board # "Bus" /\ Ram!Whole(sav))
    BY <1>4, Zenon DEF Ram!Start, Ram!LoadsSav, Ram!HasOwnRam
  <2>2. ~apart' => Agrees(bus_ram, own_ram, ideal)'
    <3>1. CASE Ram!Whole(sav)
      BY <1>1, <2>1, <3>1, Zenon DEF RamInv, Agrees
    <3>2. CASE ~Ram!Whole(sav)
      BY <1>1, <2>1, <3>2, Zenon DEF Agrees
    <3>3. QED
      BY <3>1, <3>2
  <2>3. board = "Bus" => gate' = "open" /\ ~apart'
    BY <1>2, <2>1
  <2>4. QED
    BY <1>1, <2>2, <2>3, Zenon DEF RamInv, Agrees, Ram!Whole
<1>5. QED
  BY <1>3, <1>4

LEMMA RamStep == RamInv /\ Ram!Next => RamInv'
<1> SUFFICES ASSUME RamInv, Ram!Next PROVE RamInv'
  OBVIOUS
<1>1. CASE Ram!SetGate
  <2>1. /\ board' = board /\ apart' = apart /\ state' = state /\ sav' = sav
        /\ bus_ram' = bus_ram /\ own_ram' = own_ram /\ ideal' = ideal
        /\ board = "Bus" => gate' = "open"
    BY <1>1 DEF Ram!SetGate, Ram!Gates
  <2>2. QED
    BY <2>1, Zenon DEF RamInv, Agrees, Ram!Whole
<1>2. CASE Ram!LoadState
  <2>1. /\ Ram!Whole(state) /\ bus_ram' = state.bus_ram
        /\ Ram!RestoreOwn(state, own_ram, gate)
        /\ board' = board /\ state' = state /\ sav' = sav
    BY <1>2, Zenon DEF Ram!LoadState, Ram!Restored
  <2>2. board = "Bus" => gate = "open"
    BY Zenon DEF RamInv
  <2>3. QED
    BY <2>1, <2>2, RamRestore, Zenon
<1>3. QED
  BY <1>1, <1>2, RamWrite, RamFiles, RamStart, Zenon DEF Ram!Next

(***************************************************************************)
(* The sample channel.  What its methods do is proved in Dmc_proofs.       *)
(***************************************************************************)

Proved == INSTANCE Dmc_proofs

LEMMA ChannelAssumptions ==
    /\ Proved!SizeAssumption /\ Proved!AddrAssumption
    /\ Proved!TableAssumption /\ Proved!RateAssumption
  BY PartsAssumption
  DEF Chan!SizeAssumption, Proved!SizeAssumption, Chan!AddrAssumption, Proved!AddrAssumption,
      Chan!TableAssumption, Proved!TableAssumption, Chan!RateAssumption,
      Proved!RateAssumption, Chan!Byte, Proved!Byte, Chan!Rate, Proved!Rate,
      Chan!RomAddr, Proved!RomAddr

\* Both instances are of the same channel.
LEMMA SameMethods ==
    ASSUME NEW d
    PROVE  /\ Chan!ClockTimer(d) = Proved!ClockTimer(d)
           /\ \A b : Chan!LoadSample(d, b) = Proved!LoadSample(d, b)
           /\ \A b : Chan!SetStatus(d, b) = Proved!SetStatus(d, b)
           /\ \A i, l, r : Chan!SetControl(d, i, l, r) = Proved!SetControl(d, i, l, r)
<1>1. \A e : Chan!CheckDma(e) = Proved!CheckDma(e)
  BY Zenon DEF Chan!CheckDma, Proved!CheckDma
<1>2. \A e : Chan!Restart(e) = Proved!Restart(e)
  BY <1>1, Zenon DEF Chan!Restart, Proved!Restart
<1>3. \A e : Chan!PlayBit(e) = Proved!PlayBit(e)
  BY Zenon DEF Chan!PlayBit, Proved!PlayBit
<1>4. \A e : Chan!NextByte(e) = Proved!NextByte(e)
  BY <1>1, Zenon DEF Chan!NextByte, Proved!NextByte
<1>5. \A e : Chan!ClockOutput(e) = Proved!ClockOutput(e)
  BY <1>3, <1>4, Zenon DEF Chan!ClockOutput, Proved!ClockOutput
<1>6. Chan!ClockTimer(d) = Proved!ClockTimer(d)
  BY <1>5, Zenon DEF Chan!ClockTimer, Proved!ClockTimer
<1>7. \A b : Chan!LoadSample(d, b) = Proved!LoadSample(d, b)
  BY <1>2, Zenon DEF Chan!LoadSample, Proved!LoadSample, Chan!NextAddress,
     Proved!NextAddress, Chan!Decrement, Proved!Decrement
<1>8. \A b : Chan!SetStatus(d, b) = Proved!SetStatus(d, b)
  BY <1>2, Zenon DEF Chan!SetStatus, Proved!SetStatus
<1>9. \A i, l, r : Chan!SetControl(d, i, l, r) = Proved!SetControl(d, i, l, r)
  BY Zenon DEF Chan!SetControl, Proved!SetControl
<1>10. QED
  BY <1>6, <1>7, <1>8, <1>9

LEMMA SameNext == Chan!Next => Proved!Next
<1> SUFFICES ASSUME Chan!Next PROVE Proved!Next
  OBVIOUS
<1>1. CASE Chan!BeginAccess
  BY <1>1, Zenon DEF Chan!BeginAccess, Proved!BeginAccess, Proved!Next
<1>2. CASE Chan!Tick
  BY <1>2, SameMethods, Zenon
  DEF Chan!Tick, Chan!PlainTick, Chan!DmaTick,
      Proved!Tick, Proved!PlainTick, Proved!DmaTick, Proved!Next
<1>3. \A d : Chan!Access(d) => Proved!Access(d)
  BY Zenon DEF Chan!Access, Proved!Access
<1>4. CASE Chan!OtherAccess
  BY <1>3, <1>4, Zenon DEF Chan!OtherAccess, Proved!OtherAccess, Proved!Next
<1>5. CASE Chan!RegisterWrite
  <2>1. ASSUME NEW irq \in BOOLEAN, NEW loop \in BOOLEAN, NEW rate \in Chan!Rate,
               Chan!WriteControl(irq, loop, rate)
        PROVE  Proved!RegisterWrite
    <3>1. rate \in Proved!Rate
      BY Zenon DEF Chan!Rate, Proved!Rate
    <3>2. Proved!WriteControl(irq, loop, rate)
      BY <1>3, <2>1, SameMethods, Zenon DEF Chan!WriteControl, Proved!WriteControl
    <3>3. QED
      BY <3>1, <3>2, Zenon DEF Proved!RegisterWrite
  <2>2. ASSUME NEW v \in LevelVals, Chan!WriteLevel(v)
        PROVE  Proved!RegisterWrite
    BY <1>3, <2>2, Zenon DEF Chan!WriteLevel, Proved!WriteLevel, Proved!RegisterWrite
  <2>3. ASSUME NEW v \in RegVals, Chan!WriteAddress(v) \/ Chan!WriteLength(v)
        PROVE  Proved!RegisterWrite
    BY <1>3, <2>3, Zenon
    DEF Chan!WriteAddress, Proved!WriteAddress, Chan!WriteLength, Proved!WriteLength,
        Proved!RegisterWrite
  <2>4. ASSUME NEW enable \in BOOLEAN, Chan!WriteStatus(enable)
        PROVE  Proved!RegisterWrite
    <3>1. Proved!WriteStatus(enable)
      BY <1>3, <2>4, SameMethods, Zenon DEF Chan!WriteStatus, Proved!WriteStatus
    <3>2. QED
      BY <3>1, Zenon DEF Proved!RegisterWrite
  <2>5. QED
    BY <1>5, <2>1, <2>2, <2>3, <2>4, Zenon DEF Chan!RegisterWrite, Proved!Next
<1>6. QED
  BY <1>1, <1>2, <1>4, <1>5, Zenon DEF Chan!Next

\* The channel's invariant holds unless a request was lost; a file written
\* when none was outstanding holds all there is of a channel that keeps it.
Clean(d) == Proved!Exact(d) /\ Proved!Drained(d) /\ ~d.dma_request

ChanInv ==
    /\ Proved!TypeOK
    /\ ~tainted => Proved!IInv
    /\ slot = NoState \/ \E d \in Proved!DmcType : /\ slot = Chan!CaptureState(d)
                                                   /\ ~slotTainted => Clean(d)

LEMMA ChanInit == Chan!SaveInit => ChanInv
<1> SUFFICES ASSUME Chan!SaveInit PROVE ChanInv
  OBVIOUS
<1>1. Proved!Init
  BY Zenon DEF Chan!SaveInit, Chan!Init, Chan!NewDmc, Proved!Init, Proved!NewDmc
<1>2. Proved!IInv
  BY <1>1, ChannelAssumptions, Proved!InitInv, Zenon
<1>3. QED
  BY <1>2, Zenon DEF ChanInv, Chan!SaveInit, Proved!IInv

LEMMA ChanEmulate == ChanInv /\ Chan!Emulate => ChanInv'
<1> SUFFICES ASSUME ChanInv, Chan!Emulate PROVE ChanInv'
  OBVIOUS
<1>1. /\ Proved!Next
      /\ slot' = slot /\ slotTainted' = slotTainted /\ tainted' = tainted
  BY SameNext DEF Chan!Emulate
<1>2. Proved!TypeOK'
  BY <1>1, ChannelAssumptions, Proved!TypeStep, Zenon DEF ChanInv
<1>3. ~tainted => Proved!IInv'
  BY <1>1, ChannelAssumptions, Proved!StepInv, Zenon DEF ChanInv
<1>4. QED
  BY <1>1, <1>2, <1>3, Zenon DEF ChanInv, Chan!CaptureState

LEMMA ChanSave == ChanInv /\ Chan!Save => ChanInv'
<1> SUFFICES ASSUME ChanInv, Chan!Save PROVE ChanInv'
  OBVIOUS
<1>1. /\ slot' = Chan!CaptureState(dmc) /\ slotTainted' = (tainted \/ dmc.dma_request)
      /\ dmc' = dmc /\ owed' = owed /\ due' = due /\ tainted' = tainted
  BY DEF Chan!Save
<1>2. dmc \in Proved!DmcType
  BY Zenon DEF ChanInv, Proved!TypeOK
<1>3. ~slotTainted' => Clean(dmc)
  BY <1>1, Zenon
  DEF ChanInv, Clean, Proved!IInv, Proved!RequestExact, Proved!IrqMeansDrained,
      Proved!Exact, Proved!Drained
<1>4. Proved!TypeOK' /\ (~tainted' => Proved!IInv')
  BY <1>1, Zenon
  DEF ChanInv, Proved!TypeOK, Proved!IInv, Proved!RequestExact,
      Proved!ServedBeforeAccess, Proved!IrqMeansDrained
<1>5. QED
  BY <1>1, <1>2, <1>3, <1>4, Zenon DEF ChanInv

\* All fields but the request come from the file.
LEMMA RestoredFields ==
    ASSUME NEW d \in Proved!DmcType, NEW e \in Proved!DmcType
    PROVE  /\ Chan!RestoreState(e, Chan!CaptureState(d)) \in Proved!DmcType
           /\ Chan!RestoreState(e, Chan!CaptureState(d))
                 = [d EXCEPT !.dma_request = e.dma_request]
<1>1. Chan!RestoreState(e, Chan!CaptureState(d)) = [d EXCEPT !.dma_request = e.dma_request]
  <2> DEFINE fields == DOMAIN Chan!NewDmc
             v == e.dma_request
  <2>1. /\ fields = {"output_level", "irq_enable", "loop_flag", "rate_index",
                     "sample_address", "sample_length", "current_address",
                     "current_length", "shift_register", "bits_remaining", "timer",
                     "sample_buffer", "irq_pending", "silence", "dma_request"}
        /\ "dma_request" \in fields
    BY DEF Chan!NewDmc
  <2>2. DOMAIN d = fields /\ d = [f \in fields |-> d[f]]
    BY <2>1 DEF Proved!DmcType
  <2> HIDE DEF fields, v
  <2>3. [d EXCEPT !.dma_request = v] = [f \in fields |-> IF f = "dma_request" THEN v ELSE d[f]]
    BY <2>2
  <2>4. Chan!RestoreState(e, Chan!CaptureState(d))
            = [f \in fields |-> IF f \in fields \ {"dma_request"} THEN d[f] ELSE e[f]]
    BY DEF Chan!RestoreState, Chan!CaptureState, Chan!Saved, fields
  <2>5. \A f \in fields : (IF f = "dma_request" THEN v ELSE d[f])
                              = IF f \in fields \ {"dma_request"} THEN d[f] ELSE e[f]
    BY DEF v
  <2>6. QED
    BY <2>3, <2>4, <2>5 DEF v
<1>2. [d EXCEPT !.dma_request = e.dma_request] \in Proved!DmcType
  BY DEF Proved!DmcType
<1>3. QED
  BY <1>1, <1>2

LEMMA ChanLoad == ChanInv /\ Chan!Load => ChanInv'
<1> SUFFICES ASSUME ChanInv, Chan!Load PROVE ChanInv'
  OBVIOUS
<1>1. /\ owed = 0 /\ ~due /\ slot # NoState
      /\ dmc' = Chan!RestoreState(dmc, slot) /\ tainted' = (slotTainted \/ dmc.dma_request)
      /\ owed' = owed /\ due' = due /\ slot' = slot /\ slotTainted' = slotTainted
  BY DEF Chan!Load, Chan!BetweenInstructions
<1>2. dmc \in Proved!DmcType
  BY Zenon DEF ChanInv, Proved!TypeOK
<1>3. PICK d \in Proved!DmcType : slot = Chan!CaptureState(d) /\ (~slotTainted => Clean(d))
  BY <1>1, Zenon DEF ChanInv
<1>4. dmc' \in Proved!DmcType /\ dmc' = [d EXCEPT !.dma_request = dmc.dma_request]
  BY <1>1, <1>2, <1>3, RestoredFields, Zenon
<1>5. Proved!TypeOK'
  BY <1>1, <1>4, Zenon DEF ChanInv, Proved!TypeOK
<1>6. ASSUME ~tainted'
      PROVE  Proved!IInv'
  <2>1. ~dmc.dma_request /\ Clean(d)
    BY <1>1, <1>3, <1>6, Zenon
  <2>2. /\ dmc'.sample_buffer = d.sample_buffer /\ dmc'.current_length = d.current_length
        /\ dmc'.irq_pending = d.irq_pending /\ dmc'.irq_enable = d.irq_enable
        /\ dmc'.dma_request = dmc.dma_request
    BY <1>3, <1>4, Zenon DEF Proved!DmcType
  <2>3. Proved!RequestExact' /\ Proved!IrqMeansDrained'
    BY <2>1, <2>2, Zenon
    DEF Clean, Proved!Exact, Proved!Drained, Proved!RequestExact, Proved!IrqMeansDrained
  <2>4. Proved!ServedBeforeAccess'
    BY <1>1, Zenon DEF Proved!ServedBeforeAccess
  <2>5. QED
    BY <1>5, <2>3, <2>4, Zenon DEF Proved!IInv
<1>7. QED
  BY <1>1, <1>5, <1>6, Zenon DEF ChanInv, Chan!CaptureState

\* A new process has a new channel.
LEMMA InitNext == Proved!Init' => Proved!IInv'
<1>1. Proved!Init => Proved!IInv
  BY ChannelAssumptions, Proved!InitInv
<1>2. QED
  BY <1>1, PTL

LEMMA ChanStart == ChanInv /\ Chan!StartAfresh => ChanInv'
<1> SUFFICES ASSUME ChanInv, Chan!StartAfresh PROVE ChanInv'
  OBVIOUS
<1>1. /\ dmc' = Proved!NewDmc /\ owed' = 0 /\ due' = FALSE
      /\ slot' = slot /\ slotTainted' = slotTainted
  BY Zenon DEF Chan!StartAfresh, Chan!NewDmc, Proved!NewDmc
<1>2. Proved!IInv'
  BY <1>1, InitNext, Zenon DEF Proved!Init
<1>3. QED
  BY <1>1, <1>2, Zenon DEF ChanInv, Chan!CaptureState, Proved!IInv

LEMMA ChanStep == ChanInv /\ Chan!SaveNext => ChanInv'
  BY ChanEmulate, ChanSave, ChanLoad, ChanStart, Zenon DEF Chan!SaveNext

(***************************************************************************)
(* The three together: each moves alone, and the others keep theirs.       *)
(***************************************************************************)

Inv == PadInv /\ RamInv /\ ChanInv

LEMMA InitInv == Init => Inv
  BY PadInit, RamInit, ChanInit DEF Init, Inv

LEMMA StepInv == Inv /\ [Next]_vars => Inv'
<1> SUFFICES ASSUME Inv, [Next]_vars PROVE Inv'
  OBVIOUS
<1>1. ASSUME UNCHANGED pad_vars PROVE PadInv'
  <2>1. /\ strobe' = strobe /\ button_index' = button_index /\ since' = since
        /\ button_state' = button_state /\ snapshot' = snapshot /\ read' = read
    BY <1>1 DEF pad_vars
  <2>2. PadInv
    BY DEF Inv
  <2>3. QED
    BY <2>1, <2>2 DEF PadInv, Pad!InOrder
<1>2. ASSUME UNCHANGED ram_vars PROVE RamInv'
  <2>1. /\ board' = board /\ gate' = gate /\ apart' = apart /\ state' = state /\ sav' = sav
        /\ bus_ram' = bus_ram /\ own_ram' = own_ram /\ ideal' = ideal
    BY <1>2 DEF ram_vars
  <2>2. RamInv
    BY DEF Inv
  <2>3. QED
    BY <2>1, <2>2, Zenon DEF RamInv, Agrees, Ram!Whole
<1>3. ASSUME UNCHANGED chan_vars PROVE ChanInv'
  <2>1. /\ dmc' = dmc /\ owed' = owed /\ due' = due /\ slot' = slot
        /\ slotTainted' = slotTainted /\ tainted' = tainted
    BY <1>3 DEF chan_vars
  <2>2. ChanInv
    BY DEF Inv
  <2>3. Proved!TypeOK' /\ (~tainted' => Proved!IInv')
    BY <2>1, <2>2, Zenon
    DEF ChanInv, Proved!TypeOK, Proved!IInv, Proved!RequestExact,
        Proved!ServedBeforeAccess, Proved!IrqMeansDrained
  <2>4. QED
    BY <2>1, <2>2, <2>3, Zenon DEF ChanInv, Chan!CaptureState
<1>4. CASE OfPad(Pad!Next)
  <2>1. Pad!Next /\ UNCHANGED ram_vars /\ UNCHANGED chan_vars
    BY <1>4 DEF OfPad
  <2>2. QED
    BY <1>2, <1>3, <2>1, PadStep, Zenon DEF Inv
<1>5. CASE OfRam(Ram!Next)
  <2>1. Ram!Next /\ UNCHANGED pad_vars /\ UNCHANGED chan_vars
    BY <1>5 DEF OfRam
  <2>2. QED
    BY <1>1, <1>3, <2>1, RamStep, Zenon DEF Inv
<1>6. CASE OfChannel(Chan!SaveNext)
  <2>1. Chan!SaveNext /\ UNCHANGED pad_vars /\ UNCHANGED ram_vars
    BY <1>6 DEF OfChannel
  <2>2. QED
    BY <1>1, <1>2, <2>1, ChanStep, Zenon DEF Inv
<1>7. CASE UNCHANGED vars
  <2>1. UNCHANGED pad_vars /\ UNCHANGED ram_vars /\ UNCHANGED chan_vars
    BY <1>7 DEF vars
  <2>2. QED
    BY <1>1, <1>2, <1>3, <2>1, Zenon DEF Inv
<1>8. QED
  BY <1>4, <1>5, <1>6, <1>7 DEF Next

THEOREM Invariance == Spec => []Inv
  BY InitInv, StepInv, PTL DEF Spec

\* Eight reads after any write to $4016 give the eight buttons, on a shift
\* register that was left, or loaded, at any bit.
THEOREM ButtonsInOrder == Spec => []ReadsInOrder
<1>1. Inv => ReadsInOrder
  BY DEF Inv, PadInv, ReadsInOrder, Pad!ReadsInOrder
<1>2. QED
  BY Invariance, <1>1, PTL

\* The two copies of the RAM and the two files act as one RAM, for any board
\* and any interleaving of saves, loads, quits and crashes.
THEOREM RamIsOne == Spec => []OneRam
<1>1. Inv => OneRam
  BY Zenon DEF Inv, RamInv, Agrees, OneRam, Ram!OneRam, Ram!View, Ram!HasOwnRam
<1>2. QED
  BY Invariance, <1>1, PTL

\* A sample channel that is loaded from a state keeps the handshake with the
\* bus if no read was outstanding when it was saved or when it was loaded.
THEOREM CleanLoads == Spec => []CleanLoadKeepsInvariants
<1>1. Inv => CleanLoadKeepsInvariants
  BY Zenon
  DEF Inv, ChanInv, CleanLoadKeepsInvariants, Chan!CleanLoadKeepsInvariants,
      Chan!RequestExact, Chan!IrqMeansDrained,
      Proved!IInv, Proved!RequestExact, Proved!IrqMeansDrained
<1>2. QED
  BY Invariance, <1>1, PTL

\* And any other load, of a state that lost its request, too, leaves a channel
\* whose fields are in their ranges: its reads stay in ROM and its counters
\* never reach the 0 below which they would wrap.
THEOREM LoadsKeepTypes == Spec => []Chan!TypeOK
<1>1. Proved!TypeOK => Chan!TypeOK
  BY Zenon
  DEF Chan!TypeOK, Proved!TypeOK, Chan!DmcType, Proved!DmcType, Chan!Rate, Proved!Rate,
      Chan!RomAddr, Proved!RomAddr, Chan!Byte, Proved!Byte
<1>2. Inv => Chan!TypeOK
  BY <1>1 DEF Inv, ChanInv
<1>3. QED
  BY Invariance, <1>2, PTL

=============================================================================
