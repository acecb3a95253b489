---------------------------- MODULE Cpu_proofs ----------------------------
(***************************************************************************)
(* Theorems about Cpu, for programs of any instructions, values and length *)
(* and interrupts at any time: the bytes stay bytes, no instruction makes  *)
(* more accesses than it has cycles, the arithmetic is exact, and what is  *)
(* on the stack brings every handler and every call back.                  *)
(***************************************************************************)
EXTENDS Cpu, TLAPS

-----------------------------------------------------------------------------
(* Flags as bits.                                                          *)

LEMMA BitValues ==
    /\ Flags = {"CARRY", "ZERO", "IRQ_DIS", "DECIMAL", "BREAK", "UNUSED", "OVERFLOW", "NEGATIVE"}
    /\ Bit.CARRY = 1 /\ Bit.ZERO = 2 /\ Bit.IRQ_DIS = 4 /\ Bit.DECIMAL = 8
    /\ Bit.BREAK = 16 /\ Bit.UNUSED = 32 /\ Bit.OVERFLOW = 64 /\ Bit.NEGATIVE = 128
  BY SMT DEF Flags, Bit

\* A byte is made of its digits.
LEMMA SumOfDigits ==
    ASSUME NEW n \in 0 .. 255
    PROVE  n = ((n \div 1) % 2) + 2 * ((n \div 2) % 2) + 4 * ((n \div 4) % 2)
               + 8 * ((n \div 8) % 2) + 16 * ((n \div 16) % 2) + 32 * ((n \div 32) % 2)
               + 64 * ((n \div 64) % 2) + 128 * ((n \div 128) % 2)
  <1>1. n \div 1 = 2 * (n \div 2) + ((n \div 1) % 2)
    BY SMT
  <1>2. n \div 2 = 2 * (n \div 4) + ((n \div 2) % 2)
    BY SMT
  <1>3. n \div 4 = 2 * (n \div 8) + ((n \div 4) % 2)
    BY SMT
  <1>4. n \div 8 = 2 * (n \div 16) + ((n \div 8) % 2)
    BY SMT
  <1>5. n \div 16 = 2 * (n \div 32) + ((n \div 16) % 2)
    BY SMT
  <1>6. n \div 32 = 2 * (n \div 64) + ((n \div 32) % 2)
    BY SMT
  <1>7. n \div 64 = 2 * (n \div 128) + ((n \div 64) % 2)
    BY SMT
  <1>8. n \div 128 = (n \div 128) % 2 /\ n \div 1 = n
    BY SMT
  <1> QED
    BY <1>1, <1>2, <1>3, <1>4, <1>5, <1>6, <1>7, <1>8, SMT

LEMMA BitsType ==
    ASSUME NEW s
    PROVE  Bits(s) \in Byte
  BY BitValues, SMT DEF Bits, Weight, Byte

\* CpuFlags::from_bits_truncate undoes CpuFlags::bits ...
LEMMA FlagsOfBits ==
    ASSUME NEW s, s \subseteq Flags
    PROVE  FromBits(Bits(s)) = s
  <1> DEFINE d(f) == IF f \in s THEN 1 ELSE 0
             n    == Bits(s)
  <1>1. /\ d("CARRY") \in 0 .. 1 /\ d("ZERO") \in 0 .. 1
        /\ d("IRQ_DIS") \in 0 .. 1 /\ d("DECIMAL") \in 0 .. 1
        /\ d("BREAK") \in 0 .. 1 /\ d("UNUSED") \in 0 .. 1
        /\ d("OVERFLOW") \in 0 .. 1 /\ d("NEGATIVE") \in 0 .. 1
    OBVIOUS
  <1>2. \A f \in Flags : Weight(s, f) = Bit[f] * d(f)
    BY BitValues, SMT DEF Weight
  <1>3. n = d("CARRY") + 2 * d("ZERO") + 4 * d("IRQ_DIS") + 8 * d("DECIMAL") + 16 * d("BREAK")
            + 32 * d("UNUSED") + 64 * d("OVERFLOW") + 128 * d("NEGATIVE")
    <2> HIDE DEF d
    <2> QED
      BY <1>1, <1>2, BitValues, SMT DEF Bits
  <1> HIDE DEF d, n
  <1>4. PICK d0 \in 0 .. 1, d1 \in 0 .. 1, d2 \in 0 .. 1, d3 \in 0 .. 1,
             d4 \in 0 .. 1, d5 \in 0 .. 1, d6 \in 0 .. 1, d7 \in 0 .. 1 :
               /\ d0 = d("CARRY") /\ d1 = d("ZERO") /\ d2 = d("IRQ_DIS") /\ d3 = d("DECIMAL")
               /\ d4 = d("BREAK") /\ d5 = d("UNUSED") /\ d6 = d("OVERFLOW")
               /\ d7 = d("NEGATIVE")
    BY <1>1
  <1>5. n = d0 + 2 * d1 + 4 * d2 + 8 * d3 + 16 * d4 + 32 * d5 + 64 * d6 + 128 * d7
    BY <1>4, <1>3, Zenon
  <1>6. (n \div 1) % 2 = d0 /\ (n \div 2) % 2 = d1 /\ (n \div 4) % 2 = d2 /\ (n \div 8) % 2 = d3
    BY <1>5, SMT
  <1>7. /\ (n \div 16) % 2 = d4 /\ (n \div 32) % 2 = d5
        /\ (n \div 64) % 2 = d6 /\ (n \div 128) % 2 = d7
    BY <1>5, SMT
  <1>8. \A f \in Flags : (n \div Bit[f]) % 2 = d(f)
    BY <1>4, <1>6, <1>7, BitValues
  <1> QED
    BY <1>8 DEF FromBits, d, n

\* ... and is undone by it, for a byte.
LEMMA BitsOfFlags ==
    ASSUME NEW n \in Byte
    PROVE  Bits(FromBits(n)) = n
  <1> DEFINE s == FromBits(n)
  <1>1. \A f \in Flags : f \in s <=> (n \div Bit[f]) % 2 = 1
    BY DEF FromBits
  <1> HIDE DEF s
  <1>2. ASSUME NEW f \in Flags, NEW b \in Int, Bit[f] = b, b > 0
        PROVE  Weight(s, f) = b * ((n \div b) % 2)
    <2>1. n \div b \in Int
      BY <1>2, SMT DEF Byte
    <2>2. (n \div b) % 2 \in 0 .. 1
      BY <2>1, SMT
    <2>3. f \in s <=> (n \div b) % 2 = 1
      BY <1>1, <1>2
    <2> QED
      BY <1>2, <2>2, <2>3, SMT DEF Weight
  <1>3. /\ Weight(s, "CARRY") = 1 * ((n \div 1) % 2)
        /\ Weight(s, "ZERO") = 2 * ((n \div 2) % 2)
        /\ Weight(s, "IRQ_DIS") = 4 * ((n \div 4) % 2)
        /\ Weight(s, "DECIMAL") = 8 * ((n \div 8) % 2)
        /\ Weight(s, "BREAK") = 16 * ((n \div 16) % 2)
        /\ Weight(s, "UNUSED") = 32 * ((n \div 32) % 2)
        /\ Weight(s, "OVERFLOW") = 64 * ((n \div 64) % 2)
        /\ Weight(s, "NEGATIVE") = 128 * ((n \div 128) % 2)
    BY <1>2, BitValues, SMT
  <1>4. n = ((n \div 1) % 2) + 2 * ((n \div 2) % 2) + 4 * ((n \div 4) % 2)
            + 8 * ((n \div 8) % 2) + 16 * ((n \div 16) % 2) + 32 * ((n \div 32) % 2)
            + 64 * ((n \div 64) % 2) + 128 * ((n \div 128) % 2)
    BY SumOfDigits DEF Byte
  <1>5. \A b \in {1, 2, 4, 8, 16, 32, 64, 128} : (n \div b) % 2 \in Int
    BY SMT DEF Byte
  <1>6. Bits(s) = n
    BY <1>3, <1>4, <1>5, SMT DEF Bits
  <1> QED
    BY <1>6 DEF s

LEMMA LogicType ==
    ASSUME NEW m, NEW n
    PROVE  And(m, n) \in Byte /\ Or(m, n) \in Byte /\ Xor(m, n) \in Byte
  BY BitsType DEF And, Or, Xor

\* The sign bit of a number's low byte.
Negative(n) == "NEGATIVE" \in FromBits(n)

LEMMA NegativeByte ==
    ASSUME NEW n \in Int
    PROVE  Negative(n) <=> n % 256 >= 128
  <1>1. Negative(n) <=> (n \div 128) % 2 = 1
    BY BitValues DEF Negative, FromBits
  <1> QED
    BY <1>1, SMT

LEMMA SignOfAnd ==
    ASSUME NEW n \in Int
    PROVE  And(n, 128) # 0 <=> Negative(n)
  <1>1. FromBits(128) = {"NEGATIVE"}
    BY BitValues, SMT DEF FromBits
  <1>2. Bits({"NEGATIVE"}) = 128 /\ Bits({}) = 0
    BY BitValues, SMT DEF Bits, Weight
  <1>3. FromBits(n) \cap {"NEGATIVE"} = IF Negative(n) THEN {"NEGATIVE"} ELSE {}
    BY DEF Negative
  <1> QED
    BY <1>1, <1>2, <1>3, SMT DEF And

LEMMA SignOfXor ==
    ASSUME NEW m \in Int, NEW n \in Int
    PROVE  Negative(Xor(m, n)) <=> ~(Negative(m) <=> Negative(n))
  <1> DEFINE s == (FromBits(m) \cup FromBits(n)) \ (FromBits(m) \cap FromBits(n))
  <1>1. s \subseteq Flags
    BY DEF FromBits
  <1>2. FromBits(Xor(m, n)) = s
    BY <1>1, FlagsOfBits DEF Xor
  <1> QED
    BY <1>2 DEF Negative

LEMMA Complement ==
    ASSUME NEW n \in Byte
    PROVE  Xor(n, 255) = 255 - n
  <1> DEFINE s == FromBits(n)
  <1>1. FromBits(255) = Flags
    BY BitValues, SMT DEF FromBits
  <1>2. s \subseteq Flags /\ Bits(s) = n
    BY BitsOfFlags DEF FromBits
  <1>3. Xor(n, 255) = Bits(Flags \ s)
    <2>1. (s \cup Flags) \ (s \cap Flags) = Flags \ s
      BY <1>2
    <2> QED
      BY <1>1, <2>1 DEF Xor
  <1> HIDE DEF s
  <1>4. \A f \in Flags : Weight(Flags \ s, f) = Bit[f] - Weight(s, f)
    BY BitValues, SMT DEF Weight
  <1>5. \A f \in Flags : Weight(s, f) \in Int
    BY BitValues, SMT DEF Weight
  <1>6. Bits(Flags \ s) = 255 - Bits(s)
    BY <1>4, <1>5, BitValues, SMT DEF Bits
  <1> QED
    BY <1>2, <1>3, <1>6

-----------------------------------------------------------------------------
(* The types of the operators.                                             *)

Statuses == {s \in SUBSET Flags : "UNUSED" \in s /\ "BREAK" \notin s}
RegisterFile == [a : Byte, x : Byte, y : Byte, status : Statuses]

LEMMA SetType ==
    ASSUME NEW s \in Statuses, NEW on,
           NEW flag \in {"CARRY", "ZERO", "IRQ_DIS", "DECIMAL", "OVERFLOW", "NEGATIVE"}
    PROVE  Set(s, flag, on) \in Statuses
  BY BitValues DEF Set, Statuses

LEMMA SetZNType ==
    ASSUME NEW s \in Statuses, NEW val
    PROVE  SetZN(s, val) \in Statuses
  <1> DEFINE zero == Set(s, "ZERO", val = 0)
  <1>1. zero \in Statuses
    BY SetType
  <1> HIDE DEF zero
  <1>2. Set(zero, "NEGATIVE", val >= 128) \in Statuses
    BY <1>1, SetType
  <1> QED
    BY <1>2 DEF SetZN, zero

LEMMA CarryType ==
    ASSUME NEW s
    PROVE  Carry(s) \in 0 .. 1
  BY DEF Carry

\* A register takes a byte, and the flags follow.
LEMMA InType ==
    ASSUME NEW r \in RegisterFile, NEW val \in Byte
    PROVE  /\ InA(r, val) \in RegisterFile /\ InX(r, val) \in RegisterFile
           /\ InY(r, val) \in RegisterFile
  <1>1. SetZN(r.status, val) \in Statuses
    BY SetZNType DEF RegisterFile
  <1> QED
    BY <1>1 DEF InA, InX, InY, RegisterFile

LEMMA InStatus ==
    ASSUME NEW r \in RegisterFile, NEW s \in Statuses
    PROVE  [r EXCEPT !.status = s] \in RegisterFile
  BY DEF RegisterFile

LEMMA AddWithCarryType ==
    ASSUME NEW r \in RegisterFile, NEW m \in Byte
    PROVE  AddWithCarry(r, m) \in RegisterFile
  <1> DEFINE sum      == r.a + m + Carry(r.status)
             overflow == And(Xor(r.a, m), 128) = 0 /\ And(Xor(r.a, sum), 128) # 0
             carried  == Set(r.status, "CARRY", sum > 255)
             signed   == Set(carried, "OVERFLOW", overflow)
  <1>1. r.a \in Byte /\ r.status \in Statuses
    BY DEF RegisterFile
  <1>2. sum % 256 \in Byte
    <2>1. Carry(r.status) \in 0 .. 1
      BY CarryType
    <2>2. sum \in Int
      BY <1>1, <2>1 DEF Byte
    <2> HIDE DEF sum
    <2> QED
      BY <2>2, SMT DEF Byte
  <1>3. carried \in Statuses
    BY <1>1, SetType
  <1>4. signed \in Statuses
    <2> HIDE DEF carried, overflow
    <2> QED
      BY <1>3, SetType
  <1>5. SetZN(signed, sum % 256) \in Statuses
    <2> HIDE DEF signed, sum
    <2> QED
      BY <1>4, SetZNType
  <1>6. AddWithCarry(r, m) = [r EXCEPT !.a = sum % 256, !.status = SetZN(signed, sum % 256)]
    BY DEF AddWithCarry
  <1> HIDE DEF sum, signed
  <1> DEFINE low == sum % 256
             s   == SetZN(signed, low)
  <1>7. low \in Byte /\ s \in Statuses
    BY <1>2, <1>5
  <1> HIDE DEF s, low
  <1>8. [r EXCEPT !.a = low, !.status = s] \in RegisterFile
    BY <1>7 DEF RegisterFile
  <1> QED
    BY <1>6, <1>8 DEF s, low

LEMMA CompareType ==
    ASSUME NEW r \in RegisterFile, NEW reg, NEW val
    PROVE  Compare(r, reg, val) \in RegisterFile
  <1> DEFINE carried == Set(r.status, "CARRY", reg >= val)
  <1>1. carried \in Statuses
    BY SetType DEF RegisterFile
  <1> HIDE DEF carried
  <1>2. SetZN(carried, (reg - val) % 256) \in Statuses
    BY <1>1, SetZNType
  <1> QED
    BY <1>2 DEF Compare, carried, RegisterFile

LEMMA HalfType ==
    ASSUME NEW n \in Byte, NEW s
    PROVE  n \div 2 \in Byte /\ (n \div 2) + 128 * Carry(s) \in Byte
  BY CarryType, SMT DEF Byte

LEMMA AndRotateType ==
    ASSUME NEW r \in RegisterFile, NEW val
    PROVE  AndRotate(r, val) \in RegisterFile
  <1> DEFINE out     == (And(r.a, val) \div 2) + 128 * Carry(r.status)
             bit5    == (out \div 32) % 2
             bit6    == (out \div 64) % 2
             low     == InA(r, out)
             carried == Set(low.status, "CARRY", bit6 = 1)
             signed  == Set(carried, "OVERFLOW", bit5 # bit6)
  <1>1. out \in Byte
    BY LogicType, HalfType
  <1> HIDE DEF out
  <1>2. low \in RegisterFile
    BY <1>1, InType
  <1> HIDE DEF low
  <1>3. carried \in Statuses
    BY <1>2, SetType DEF RegisterFile
  <1> HIDE DEF carried
  <1>4. signed \in Statuses
    BY <1>3, SetType
  <1> HIDE DEF signed
  <1>5. [low EXCEPT !.status = signed] \in RegisterFile
    BY <1>2, <1>4, InStatus
  <1> QED
    BY <1>5 DEF AndRotate, out, low, carried, signed

LEMMA ReadType ==
    ASSUME NEW opcode \in ReadOpcodes, NEW r \in RegisterFile, NEW val \in Byte
    PROVE  Read(opcode, r, val) \in RegisterFile
  <1>1. r.a \in Byte /\ r.x \in Byte /\ r.status \in Statuses
    BY DEF RegisterFile
  <1>2. CASE opcode \in {"LDA", "LDX", "LDY"}
    BY <1>2, InType DEF Read
  <1>3. CASE opcode = "LAX"
    <2>1. InX(InA(r, val), val) \in RegisterFile
      BY InType
    <2> QED
      BY <1>3, <2>1 DEF Read
  <1>4. CASE opcode = "ADC"
    BY <1>4, AddWithCarryType DEF Read
  <1>5. CASE opcode = "SBC"
    <2>1. AddWithCarry(r, Xor(val, 255)) \in RegisterFile
      BY LogicType, AddWithCarryType
    <2> QED
      BY <1>5, <2>1 DEF Read
  <1>6. CASE opcode \in {"AND", "ORA", "EOR"}
    <2>1. /\ InA(r, And(r.a, val)) \in RegisterFile /\ InA(r, Or(r.a, val)) \in RegisterFile
          /\ InA(r, Xor(r.a, val)) \in RegisterFile
      BY LogicType, InType
    <2> QED
      BY <1>6, <2>1 DEF Read
  <1>7. CASE opcode = "BIT"
    <2> DEFINE zero == Set(r.status, "ZERO", And(r.a, val) = 0)
               over == Set(zero, "OVERFLOW", And(val, 64) # 0)
               out  == Set(over, "NEGATIVE", val >= 128)
    <2>1. zero \in Statuses
      BY <1>1, SetType
    <2> HIDE DEF zero
    <2>2. over \in Statuses
      BY <2>1, SetType
    <2> HIDE DEF over
    <2>3. out \in Statuses
      BY <2>2, SetType
    <2> HIDE DEF out
    <2>4. Read(opcode, r, val) = [r EXCEPT !.status = out]
      BY <1>7 DEF Read, zero, over, out
    <2> QED
      BY <2>3, <2>4, InStatus
  <1>8. CASE opcode \in {"CMP", "CPX", "CPY"}
    BY <1>8, CompareType DEF Read
  <1>9. CASE opcode = "ANC"
    <2> DEFINE low == InA(r, And(r.a, val))
               out == Set(low.status, "CARRY", And(r.a, val) >= 128)
    <2>1. low \in RegisterFile
      BY LogicType, InType
    <2> HIDE DEF low
    <2>2. out \in Statuses
      BY <2>1, SetType DEF RegisterFile
    <2> HIDE DEF out
    <2>3. Read(opcode, r, val) = [low EXCEPT !.status = out]
      BY <1>9 DEF Read, low, out
    <2> QED
      BY <2>1, <2>2, <2>3, InStatus
  <1>10. CASE opcode = "ALR"
    <2> DEFINE s   == Set(r.status, "CARRY", And(r.a, val) % 2 = 1)
               mid == [r EXCEPT !.status = s]
    <2>1. s \in Statuses
      BY <1>1, SetType
    <2> HIDE DEF s
    <2>2. mid \in RegisterFile
      BY <2>1, InStatus
    <2> HIDE DEF mid
    <2>3. InA(mid, And(r.a, val) \div 2) \in RegisterFile
      BY <2>2, LogicType, HalfType, InType
    <2> QED
      BY <1>10, <2>3 DEF Read, mid, s
  <1>11. CASE opcode = "ARR"
    BY <1>11, AndRotateType DEF Read
  <1>12. CASE opcode = "SBX"
    <2> DEFINE c == Compare(r, And(r.a, r.x), val)
               n == And(r.a, r.x) - val
    <2>1. c \in RegisterFile
      BY CompareType
    <2> HIDE DEF c
    <2>2. n % 256 \in Byte
      <3>1. And(r.a, r.x) \in Byte
        BY LogicType
      <3>2. n \in Int
        BY <3>1 DEF Byte
      <3> HIDE DEF n
      <3> QED
        BY <3>2, SMT DEF Byte
    <2> HIDE DEF n
    <2>3. [c EXCEPT !.x = n % 256] \in RegisterFile
      BY <2>1, <2>2 DEF RegisterFile
    <2> QED
      BY <1>12, <2>3 DEF Read, c, n
  <1> QED
    BY <1>2, <1>3, <1>4, <1>5, <1>6, <1>7, <1>8, <1>9, <1>10, <1>11, <1>12 DEF ReadOpcodes

LEMMA WrittenType ==
    ASSUME NEW opcode \in ModifyOpcodes, NEW r, NEW val \in Byte
    PROVE  Written(opcode, r, val) \in Byte
  <1>1. /\ (val + 1) % 256 \in Byte /\ (val - 1) % 256 \in Byte /\ (val * 2) % 256 \in Byte
    BY SMT DEF Byte
  <1>2. PICK c \in 0 .. 1 : c = Carry(r.status)
    BY CarryType
  <1>3. ((val * 2) % 256) + c \in Byte
    BY SMT DEF Byte
  <1>4. val \div 2 \in Byte /\ (val \div 2) + 128 * Carry(r.status) \in Byte
    BY HalfType
  <1> QED
    BY <1>1, <1>2, <1>3, <1>4 DEF Written, ModifyOpcodes

LEMMA ShiftedOutType ==
    ASSUME NEW opcode, NEW r \in RegisterFile, NEW val
    PROVE  [r EXCEPT !.status = ShiftedOut(opcode, r, val)] \in RegisterFile
  <1>1. r.status \in Statuses
    BY DEF RegisterFile
  <1>2. ShiftedOut(opcode, r, val) \in Statuses
    BY <1>1, SetType DEF ShiftedOut
  <1> QED
    BY <1>2, InStatus

LEMMA ModifyType ==
    ASSUME NEW opcode \in ModifyOpcodes, NEW r \in RegisterFile, NEW val \in Byte
    PROVE  Modify(opcode, r, val) \in RegisterFile
  <1> DEFINE out     == Written(opcode, r, val)
             shifted == [r EXCEPT !.status = ShiftedOut(opcode, r, val)]
  <1>1. out \in Byte
    BY WrittenType
  <1>2. shifted \in RegisterFile
    BY ShiftedOutType
  <1>3. Modify(opcode, r, val) =
          CASE opcode = "DCP" -> Compare(shifted, r.a, out)
            [] opcode = "ISC" -> AddWithCarry(shifted, Xor(out, 255))
            [] opcode = "SLO" -> InA(shifted, Or(r.a, out))
            [] opcode = "RLA" -> InA(shifted, And(r.a, out))
            [] opcode = "SRE" -> InA(shifted, Xor(r.a, out))
            [] opcode = "RRA" -> AddWithCarry(shifted, out)
            [] OTHER -> [shifted EXCEPT !.status = SetZN(@, out)]
    BY DEF Modify
  <1> HIDE DEF out, shifted
  <1>4. Compare(shifted, r.a, out) \in RegisterFile
    BY <1>2, CompareType
  <1>5. /\ AddWithCarry(shifted, Xor(out, 255)) \in RegisterFile
        /\ AddWithCarry(shifted, out) \in RegisterFile
    BY <1>1, <1>2, LogicType, AddWithCarryType
  <1>6. /\ InA(shifted, Or(r.a, out)) \in RegisterFile
        /\ InA(shifted, And(r.a, out)) \in RegisterFile
        /\ InA(shifted, Xor(r.a, out)) \in RegisterFile
    BY <1>2, LogicType, InType
  <1>7. [shifted EXCEPT !.status = SetZN(@, out)] \in RegisterFile
    <2>1. SetZN(shifted.status, out) \in Statuses
      BY <1>2, SetZNType DEF RegisterFile
    <2> QED
      BY <1>2, <2>1 DEF RegisterFile
  <1> QED
    BY <1>3, <1>4, <1>5, <1>6, <1>7

\* The accumulator alone.
LEMMA ModifyAccumulatorType ==
    ASSUME NEW opcode \in ModifyOpcodes, NEW r \in RegisterFile, NEW val \in Byte
    PROVE  [Modify(opcode, r, val) EXCEPT !.a = Written(opcode, r, val)] \in RegisterFile
  BY ModifyType, WrittenType DEF RegisterFile

LEMMA BytePlus ==
    ASSUME NEW n \in Int
    PROVE  n % 256 \in Byte
  BY SMT DEF Byte

LEMMA InternalType ==
    ASSUME NEW opcode \in InternalOpcodes, NEW r \in RegisterFile, sp \in Byte
    PROVE  Internal(opcode, r) \in RegisterFile
  <1>1. r.a \in Byte /\ r.x \in Byte /\ r.y \in Byte /\ r.status \in Statuses
    BY DEF RegisterFile
  <1>2. \A n \in Byte : (n + 1) % 256 \in Byte /\ (n - 1) % 256 \in Byte
    BY SMT DEF Byte
  <1>3. \A n \in Byte : InX(r, n) \in RegisterFile /\ InY(r, n) \in RegisterFile
    BY InType
  <1>4. CASE opcode \in {"TAX", "TAY", "TXA", "TYA", "TSX"}
    BY <1>1, <1>4, InType, ZenonT(60) DEF Internal
  <1>5. CASE opcode \in {"INX", "DEX"}
    <2> DEFINE up   == (r.x + 1) % 256
               down == (r.x - 1) % 256
    <2>1. /\ opcode = "INX" => Internal(opcode, r) = InX(r, up)
          /\ opcode = "DEX" => Internal(opcode, r) = InX(r, down)
      BY DEF Internal
    <2>2. up \in Byte /\ down \in Byte
      BY <1>1, <1>2
    <2> HIDE DEF up, down
    <2> QED
      BY <1>3, <1>5, <2>1, <2>2
  <1>6. CASE opcode \in {"INY", "DEY"}
    <2> DEFINE up   == (r.y + 1) % 256
               down == (r.y - 1) % 256
    <2>1. /\ opcode = "INY" => Internal(opcode, r) = InY(r, up)
          /\ opcode = "DEY" => Internal(opcode, r) = InY(r, down)
      BY DEF Internal
    <2>2. up \in Byte /\ down \in Byte
      BY <1>1, <1>2
    <2> HIDE DEF up, down
    <2> QED
      BY <1>3, <1>6, <2>1, <2>2
  <1>7. CASE opcode \in {"SEC", "CLC", "SEI", "CLI", "SED", "CLD", "CLV"}
    <2>1. \A flag \in {"CARRY", "IRQ_DIS", "DECIMAL", "OVERFLOW"}, on \in BOOLEAN :
            [r EXCEPT !.status = Set(r.status, flag, on)] \in RegisterFile
      BY <1>1, SetType, InStatus
    <2>2. /\ opcode = "SEC" => Internal(opcode, r) = [r EXCEPT !.status = Set(r.status, "CARRY", TRUE)]
          /\ opcode = "CLC" => Internal(opcode, r) = [r EXCEPT !.status = Set(r.status, "CARRY", FALSE)]
          /\ opcode = "SEI" => Internal(opcode, r) = [r EXCEPT !.status = Set(r.status, "IRQ_DIS", TRUE)]
          /\ opcode = "CLI" => Internal(opcode, r) = [r EXCEPT !.status = Set(r.status, "IRQ_DIS", FALSE)]
          /\ opcode = "SED" => Internal(opcode, r) = [r EXCEPT !.status = Set(r.status, "DECIMAL", TRUE)]
          /\ opcode = "CLD" => Internal(opcode, r) = [r EXCEPT !.status = Set(r.status, "DECIMAL", FALSE)]
          /\ opcode = "CLV" => Internal(opcode, r) = [r EXCEPT !.status = Set(r.status, "OVERFLOW", FALSE)]
      BY DEF Internal
    <2> QED
      BY <1>7, <2>1, <2>2, ZenonT(30)
  <1>8. CASE opcode \in {"NOP", "XXX"}
    BY <1>8 DEF Internal
  <1> QED
    BY <1>4, <1>5, <1>6, <1>7, <1>8 DEF InternalOpcodes

-----------------------------------------------------------------------------
(* The types of the bus and of the stack.                                  *)

RamType(mem) == \A p \in DOMAIN mem : p \in 0 .. RamSize - 1 /\ mem[p] \in Byte

\* An address, by its limits.
LEMMA AddressLimits ==
    /\ \A n \in Address : n \in Nat /\ n < 65536
    /\ \A n \in Nat : n < 65536 => n \in Address
  <1>1. Word(255, 255) = 65535
    BY SMT DEF Word
  <1> QED
    BY <1>1, SMT DEF Address

LEMMA WordType ==
    ASSUME NEW hi \in Byte, NEW lo \in Byte
    PROVE  Word(hi, lo) \in Address
  <1>1. Word(hi, lo) \in Nat /\ Word(hi, lo) < 65536
    BY SMT DEF Word, Byte
  <1> QED
    BY <1>1, AddressLimits, SMT

LEMMA BytesOfWord ==
    ASSUME NEW word \in Address
    PROVE  /\ Page(word) \in Byte /\ word % 256 \in Byte
           /\ Word(Page(word), word % 256) = word
  <1>1. word \in Nat /\ word < 65536
    BY AddressLimits, SMT
  <1> QED
    BY <1>1, SMT DEF Page, Byte, Word

LEMMA FitsAddress ==
    ASSUME NEW n \in Int
    PROVE  n % 65536 \in Address
  <1>1. n % 65536 \in Nat /\ n % 65536 < 65536
    BY SMT
  <1> QED
    BY <1>1, AddressLimits, SMT

LEMMA MemType ==
    ASSUME RamType(ram), program \in DOMAIN Programs, NEW ad
    PROVE  Mem(ad) \subseteq Byte
  <1>1. Programs[program].values \subseteq Byte
    BY ProgramsAssumption, Zenon
  <1>2. Cell(ad) \in DOMAIN ram => ram[Cell(ad)] \in Byte
    BY DEF RamType
  <1> QED
    BY <1>1, <1>2 DEF Mem

LEMMA PcsType ==
    ASSUME program \in DOMAIN Programs
    PROVE  Programs[program].pcs \subseteq Byte
  BY ProgramsAssumption, Zenon

LEMMA CellType ==
    ASSUME NEW ad \in Nat
    PROVE  Cell(ad) \in 0 .. RamSize - 1
  <1>1. RamSize \in Nat /\ RamSize > 0
    BY SMT DEF RamSize
  <1> QED
    BY <1>1, SMT DEF Cell

LEMMA OverlayType ==
    ASSUME NEW mem, RamType(mem), NEW ad \in Nat, NEW val \in Byte
    PROVE  RamType(Overlay(mem, ad, val))
  <1>1. Cell(ad) \in 0 .. RamSize - 1
    BY CellType
  <1> QED
    BY <1>1 DEF RamType, Overlay

LEMMA PushIs ==
    ASSUME NEW m, NEW val
    PROVE  /\ Push(m, val).sp = (m.sp - 1) % 256
           /\ Push(m, val).ram = Overlay(m.ram, StackPage + m.sp, val)
  BY DEF Push

LEMMA PushType ==
    ASSUME NEW m, m.sp \in Byte, RamType(m.ram), NEW val \in Byte
    PROVE  Push(m, val).sp \in Byte /\ RamType(Push(m, val).ram)
  <1>1. (m.sp - 1) % 256 \in Byte
    BY SMT DEF Byte
  <1>2. StackPage + m.sp \in Nat
    BY SMT DEF Byte, StackPage
  <1>3. RamType(Overlay(m.ram, StackPage + m.sp, val))
    BY <1>2, OverlayType
  <1> QED
    BY <1>1, <1>3, PushIs

LEMMA PushWordType ==
    ASSUME NEW m, m.sp \in Byte, RamType(m.ram), NEW word \in Address
    PROVE  PushWord(m, word).sp \in Byte /\ RamType(PushWord(m, word).ram)
  <1>1. Page(word) \in Byte /\ word % 256 \in Byte
    BY BytesOfWord
  <1>2. Push(m, Page(word)).sp \in Byte /\ RamType(Push(m, Page(word)).ram)
    BY <1>1, PushType
  <1> DEFINE half == Push(m, Page(word))
  <1> HIDE DEF half
  <1>3. Push(half, word % 256).sp \in Byte /\ RamType(Push(half, word % 256).ram)
    BY <1>1, <1>2, PushType DEF half
  <1> QED
    BY <1>3 DEF PushWord, half

LEMMA SignedType ==
    ASSUME NEW val \in Byte
    PROVE  Signed(val) \in -128 .. 127
  BY SMT DEF Signed, Byte

-----------------------------------------------------------------------------
(* The table: every row has the cycles for its accesses.                   *)

ShiftOpcodes == {"ASL", "LSR", "ROL", "ROR"}

\* What resolve_addr reads, and what execute accesses after it.
Reads == [Implicit |-> 0, Accumulator |-> 0, Immediate |-> 0, ZeroPage |-> 1,
          ZeroPageX |-> 1, ZeroPageY |-> 1, Relative |-> 1, Absolute |-> 2,
          AbsoluteX |-> 2, AbsoluteY |-> 2, Indirect |-> 4, IndirectX |-> 3,
          IndirectY |-> 3]

SilentOpcodes == InternalOpcodes \cup BranchOpcodes \cup {"TXS", "JMP"}

Accesses(opcode, mode) ==
    IF mode = "Accumulator" \/ opcode \in SilentOpcodes THEN 0
    ELSE IF opcode \in ModifyOpcodes \cup {"RTI"} THEN 3
    ELSE IF opcode \in {"JSR", "RTS"} THEN 2
    ELSE IF opcode = "BRK" THEN 5
    ELSE 1

Fits(opcode, mode, cycles) ==
    /\ mode \in DOMAIN Reads /\ cycles \in 2 .. 8
    /\ 1 + Reads[mode] + Accesses(opcode, mode) <= cycles
    /\ mode = "Accumulator" => opcode \in ShiftOpcodes

RowsFit(rows) == \A row \in rows : Fits(row.opcode, row.mode, row.cycles)

LEMMA FitsRows ==
    ASSUME NEW opcodes, NEW cycles, NEW crossing,
           \A o \in opcodes, m \in DOMAIN cycles : Fits(o, m, cycles[m])
    PROVE  RowsFit(Rows(opcodes, cycles, crossing))
  BY DEF RowsFit, Rows

\* One access after the operand, or three, or so many: what the kinds of rows
\* need to know of their opcodes.
LEMMA AccessBounds ==
    ASSUME NEW o, NEW m
    PROVE  /\ Accesses(o, m) \in 0 .. 5
           /\ o \notin ModifyOpcodes \cup {"RTI", "JSR", "RTS", "BRK"} => Accesses(o, m) <= 1
           /\ o \in ModifyOpcodes => Accesses(o, m) <= 3
           /\ o \in SilentOpcodes => Accesses(o, m) = 0
           /\ m = "Accumulator" => Accesses(o, m) = 0
           /\ o = "RTI" => Accesses(o, m) <= 3
           /\ o \in {"JSR", "RTS"} => Accesses(o, m) <= 2
  <1>1. "RTI" \notin ModifyOpcodes /\ "JSR" \notin ModifyOpcodes /\ "RTS" \notin ModifyOpcodes
    BY DEF ModifyOpcodes
  <1> QED
    BY <1>1 DEF Accesses

LEMMA LoadsFit ==
    ASSUME NEW opcodes, NEW without,
           \A o \in opcodes : o \notin ModifyOpcodes \cup {"RTI", "JSR", "RTS", "BRK"}
    PROVE  RowsFit(Loads(opcodes, without))
  <1> DEFINE cycles == Restrict(LoadCycles, DOMAIN LoadCycles \ without)
  <1>1. \A m \in DOMAIN LoadCycles :
          /\ m \in DOMAIN Reads /\ LoadCycles[m] \in 2 .. 8 /\ Reads[m] + 2 <= LoadCycles[m]
          /\ Reads[m] \in Nat /\ m # "Accumulator"
    BY DEF LoadCycles, Reads
  <1>2. DOMAIN cycles \subseteq DOMAIN LoadCycles
        /\ \A m \in DOMAIN cycles : cycles[m] = LoadCycles[m]
    BY DEF Restrict
  <1> HIDE DEF cycles
  <1>3. \A o \in opcodes, m \in DOMAIN cycles : Fits(o, m, cycles[m])
    <2> TAKE o \in opcodes, m \in DOMAIN cycles
    <2>1. Accesses(o, m) \in 0 .. 5 /\ Accesses(o, m) <= 1
      BY AccessBounds
    <2> QED
      BY <1>1, <1>2, <2>1 DEF Fits
  <1> QED
    BY <1>3, FitsRows DEF Loads, cycles

Plain(opcodes) == \A o \in opcodes : o \notin ModifyOpcodes \cup {"RTI", "JSR", "RTS", "BRK"}

LEMMA ImplicitFit ==
    ASSUME NEW opcodes, NEW n \in 2 .. 8,
           \A o \in opcodes : Accesses(o, "Implicit") <= n - 1
    PROVE  RowsFit(Implicit(opcodes, n))
  <1> DEFINE cycles == [Implicit |-> n]
  <1>1. DOMAIN cycles = {"Implicit"} /\ cycles["Implicit"] = n
    OBVIOUS
  <1> HIDE DEF cycles
  <1>2. "Implicit" \in DOMAIN Reads /\ Reads["Implicit"] = 0
    BY DEF Reads
  <1>3. \A o \in opcodes, m \in DOMAIN cycles : Fits(o, m, cycles[m])
    <2> TAKE o \in opcodes, m \in DOMAIN cycles
    <2>1. Accesses(o, "Implicit") \in 0 .. 5
      BY AccessBounds
    <2> QED
      BY <1>1, <1>2, <2>1 DEF Fits
  <1> QED
    BY <1>3, FitsRows DEF Implicit, cycles

LEMMA SilentFit ==
    ASSUME NEW opcodes, opcodes \subseteq SilentOpcodes
    PROVE  RowsFit(Implicit(opcodes, 2)) /\ RowsFit(Branches(opcodes))
  <1>1. \A o \in opcodes : \A m : Accesses(o, m) = 0
    BY AccessBounds
  <1>2. RowsFit(Implicit(opcodes, 2))
    BY <1>1, ImplicitFit
  <1>3. RowsFit(Branches(opcodes))
    <2> DEFINE cycles == [Relative |-> 2]
    <2>1. DOMAIN cycles = {"Relative"} /\ cycles["Relative"] = 2
      OBVIOUS
    <2> HIDE DEF cycles
    <2>2. "Relative" \in DOMAIN Reads /\ Reads["Relative"] = 1
      BY DEF Reads
    <2>3. \A o \in opcodes, m \in DOMAIN cycles : Fits(o, m, cycles[m])
      BY <1>1, <2>1, <2>2 DEF Fits
    <2> QED
      BY <2>3, FitsRows DEF Branches, cycles
  <1> QED
    BY <1>2, <1>3

\* Rows with room for one access, or for three.
LEMMA RoomFits ==
    ASSUME NEW opcodes, NEW cycles, NEW crossing, NEW room \in {1, 3},
           IF room = 1 THEN Plain(opcodes) ELSE opcodes \subseteq ModifyOpcodes,
           \A m \in DOMAIN cycles : /\ m \in DOMAIN Reads /\ m # "Accumulator"
                                    /\ cycles[m] \in 2 .. 8
                                    /\ 1 + Reads[m] + room <= cycles[m]
    PROVE  RowsFit(Rows(opcodes, cycles, crossing))
  <1>1. \A m \in DOMAIN Reads : Reads[m] \in Nat
    BY DEF Reads
  <1>2. \A o \in opcodes, m \in DOMAIN cycles : Fits(o, m, cycles[m])
    <2> TAKE o \in opcodes, m \in DOMAIN cycles
    <2>1. Accesses(o, m) \in 0 .. 5 /\ Accesses(o, m) <= room
      BY AccessBounds DEF Plain
    <2> QED
      BY <1>1, <2>1 DEF Fits
  <1> QED
    BY <1>2, FitsRows

LEMMA PlainFits ==
    ASSUME NEW opcodes, Plain(opcodes)
    PROVE  /\ RowsFit(Immediate(opcodes))
           /\ \A modes : RowsFit(Stores(opcodes, modes \cap DOMAIN StoreCycles))
           /\ RowsFit(Rows(opcodes, [ZeroPage |-> 3, Absolute |-> 4], {}))
  <1>1. RowsFit(Immediate(opcodes))
    BY RoomFits DEF Immediate, Reads
  <1>2. ASSUME NEW modes
        PROVE  RowsFit(Stores(opcodes, modes \cap DOMAIN StoreCycles))
    <2> DEFINE cycles == Restrict(StoreCycles, modes \cap DOMAIN StoreCycles)
    <2>1. \A m \in DOMAIN StoreCycles :
            /\ m \in DOMAIN Reads /\ m # "Accumulator" /\ StoreCycles[m] \in 2 .. 8
            /\ 1 + Reads[m] + 1 <= StoreCycles[m]
      BY DEF StoreCycles, LoadCycles, Reads
    <2>2. /\ DOMAIN cycles \subseteq DOMAIN StoreCycles
          /\ \A m \in DOMAIN cycles : cycles[m] = StoreCycles[m]
      BY DEF Restrict
    <2> HIDE DEF cycles
    <2>3. RowsFit(Rows(opcodes, cycles, {}))
      BY <2>1, <2>2, RoomFits
    <2> QED
      BY <2>3 DEF Stores, cycles
  <1>3. RowsFit(Rows(opcodes, [ZeroPage |-> 3, Absolute |-> 4], {}))
    BY RoomFits DEF Reads
  <1> QED
    BY <1>1, <1>2, <1>3

LEMMA RmwFits ==
    ASSUME NEW opcodes, opcodes \subseteq ModifyOpcodes
    PROVE  RowsFit(Rows(opcodes, RmwCycles, {})) /\ RowsFit(RmwCombined(opcodes))
  <1>1. RowsFit(Rows(opcodes, RmwCycles, {}))
    BY RoomFits DEF RmwCycles, Reads
  <1>2. RowsFit(RmwCombined(opcodes))
    BY RoomFits DEF RmwCombined, Reads
  <1> QED
    BY <1>1, <1>2

LEMMA AccumulatorFits ==
    RowsFit(Rows({"ASL", "ROL", "LSR", "ROR"}, [Accumulator |-> 2], {}))
  <1>1. \A o \in {"ASL", "ROL", "LSR", "ROR"} : Fits(o, "Accumulator", 2)
    <2> TAKE o \in {"ASL", "ROL", "LSR", "ROR"}
    <2>1. Accesses(o, "Accumulator") = 0
      BY AccessBounds
    <2> QED
      BY <2>1 DEF Fits, Reads, ShiftOpcodes
  <1> QED
    BY <1>1, FitsRows

LEMMA Table00to7FFits == RowsFit(Table00to7F)
  <1>1. RowsFit(Accumulator({"ORA", "AND", "EOR", "ADC"}))
    BY LoadsFit DEF Accumulator, ModifyOpcodes
  <1>2. /\ RowsFit(Rows({"ASL", "ROL", "LSR", "ROR"}, RmwCycles, {}))
        /\ RowsFit(RmwCombined({"SLO", "RLA", "SRE", "RRA"}))
    BY RmwFits DEF ModifyOpcodes
  <1>3. /\ RowsFit(Rows({"BIT"}, [ZeroPage |-> 3, Absolute |-> 4], {}))
        /\ RowsFit(Immediate({"ANC", "ALR", "ARR"}))
    BY PlainFits DEF Plain, ModifyOpcodes
  <1>4. /\ RowsFit(Branches({"BPL", "BMI", "BVC", "BVS"}))
        /\ RowsFit(Implicit({"CLC", "SEC", "CLI", "SEI", "NOP", "XXX"}, 2))
    BY SilentFit DEF SilentOpcodes, BranchOpcodes, InternalOpcodes
  <1>5. RowsFit(Rows({"JMP"}, [Absolute |-> 3, Indirect |-> 5], {}))
    <2> DEFINE cycles == [Absolute |-> 3, Indirect |-> 5]
    <2>1. Accesses("JMP", "Absolute") = 0 /\ Accesses("JMP", "Indirect") = 0
      BY AccessBounds DEF SilentOpcodes
    <2>2. \A m \in DOMAIN cycles : Fits("JMP", m, cycles[m])
      BY <2>1 DEF Fits, Reads
    <2> QED
      BY <2>2, FitsRows
  <1>6. RowsFit(Rows({"JSR"}, [Absolute |-> 6], {}))
    <2> DEFINE cycles == [Absolute |-> 6]
    <2>1. Accesses("JSR", "Absolute") \in 0 .. 5 /\ Accesses("JSR", "Absolute") <= 2
      BY AccessBounds
    <2>2. \A m \in DOMAIN cycles : Fits("JSR", m, cycles[m])
      BY <2>1 DEF Fits, Reads
    <2> QED
      BY <2>2, FitsRows
  <1>7. RowsFit(Implicit({"BRK"}, 7)) /\ RowsFit(Implicit({"RTI", "RTS"}, 6))
    <2>1. \A o : Accesses(o, "Implicit") \in 0 .. 5
      BY AccessBounds
    <2>2. Accesses("RTI", "Implicit") <= 3 /\ Accesses("RTS", "Implicit") <= 2
      BY AccessBounds
    <2> QED
      BY <2>1, <2>2, ImplicitFit
  <1>8. RowsFit(Implicit({"PHP", "PHA"}, 3)) /\ RowsFit(Implicit({"PLP", "PLA"}, 4))
    <2>1. \A o \in {"PHP", "PHA", "PLP", "PLA"} :
            Accesses(o, "Implicit") \in 0 .. 5 /\ Accesses(o, "Implicit") <= 1
      BY AccessBounds DEF ModifyOpcodes
    <2> QED
      BY <2>1, ImplicitFit
  <1>9. RowsFit(Loads({"NOP"}, {"Immediate", "ZeroPageY", "AbsoluteY", "IndirectX", "IndirectY"}))
    BY LoadsFit DEF ModifyOpcodes
  <1>10. RowsFit(Rows({"ASL", "ROL", "LSR", "ROR"}, [Accumulator |-> 2], {}))
    BY AccumulatorFits
  <1> QED
    BY <1>1, <1>2, <1>3, <1>4, <1>5, <1>6, <1>7, <1>8, <1>9, <1>10, Zenon DEF Table00to7F, RowsFit

LEMMA Table80to9FFits == RowsFit(Table80to9F)
  <1>1. \A S : Plain(S) => \A modes : modes \subseteq DOMAIN StoreCycles => RowsFit(Stores(S, modes))
    <2> TAKE S
    <2> HAVE Plain(S)
    <2> TAKE modes
    <2> HAVE modes \subseteq DOMAIN StoreCycles
    <2>1. modes \cap DOMAIN StoreCycles = modes
      OBVIOUS
    <2> QED
      BY <2>1, PlainFits
  <1>2. DOMAIN StoreCycles = {"Immediate", "ZeroPage", "ZeroPageX", "ZeroPageY", "Absolute",
                              "AbsoluteX", "AbsoluteY", "IndirectX", "IndirectY"}
    BY DEF StoreCycles, LoadCycles
  <1>3. /\ Plain({"STA"}) /\ Plain({"STX", "SAX"}) /\ Plain({"SAX"}) /\ Plain({"STY"})
        /\ Plain({"SHY"}) /\ Plain({"SHX"}) /\ Plain({"XXX"}) /\ Plain({"NOP", "XXX"})
    BY DEF Plain, ModifyOpcodes
  <1>4. /\ RowsFit(Stores({"STA"}, DOMAIN StoreCycles \ {"Immediate", "ZeroPageY"}))
        /\ RowsFit(Stores({"STX", "SAX"}, {"ZeroPage", "ZeroPageY", "Absolute"}))
        /\ RowsFit(Stores({"SAX"}, {"IndirectX"}))
        /\ RowsFit(Stores({"STY"}, {"ZeroPage", "ZeroPageX", "Absolute"}))
        /\ RowsFit(Stores({"SHY"}, {"AbsoluteX"})) /\ RowsFit(Stores({"SHX"}, {"AbsoluteY"}))
        /\ RowsFit(Stores({"XXX"}, {"AbsoluteY", "IndirectY"}))
    BY <1>1, <1>2, <1>3
  <1>5. RowsFit(Immediate({"NOP", "XXX"}))
    BY <1>3, PlainFits
  <1>6. RowsFit(Branches({"BCC"})) /\ RowsFit(Implicit({"DEY", "TXA", "TYA", "TXS", "XXX"}, 2))
    BY SilentFit DEF SilentOpcodes, BranchOpcodes, InternalOpcodes
  <1> QED
    BY <1>4, <1>5, <1>6, Zenon DEF Table80to9F, RowsFit

LEMMA TableA0toBFFits == RowsFit(TableA0toBF)
  <1>1. \A S \in {{"LDA"}, {"LAX"}, {"LDX"}, {"LDY"}} :
          \A o \in S : o \notin ModifyOpcodes \cup {"RTI", "JSR", "RTS", "BRK"}
    BY DEF ModifyOpcodes
  <1>2. /\ RowsFit(Accumulator({"LDA"}))
        /\ RowsFit(Loads({"LAX"}, {"ZeroPageX", "AbsoluteX"}))
        /\ RowsFit(Loads({"LDX"}, {"ZeroPageX", "AbsoluteX", "IndirectX", "IndirectY"}))
        /\ RowsFit(Loads({"LDY"}, {"ZeroPageY", "AbsoluteY", "IndirectX", "IndirectY"}))
    BY <1>1, LoadsFit DEF Accumulator
  <1>3. RowsFit(Rows({"XXX"}, [AbsoluteY |-> 4], Crossing))
    <2>1. Plain({"XXX"})
      BY DEF Plain, ModifyOpcodes
    <2> QED
      BY <2>1, RoomFits DEF Reads
  <1>4. RowsFit(Branches({"BCS"})) /\ RowsFit(Implicit({"TAY", "TAX", "CLV", "TSX", "XXX"}, 2))
    BY SilentFit DEF SilentOpcodes, BranchOpcodes, InternalOpcodes
  <1> QED
    BY <1>2, <1>3, <1>4, Zenon DEF TableA0toBF, RowsFit

LEMMA TableC0toFFFits == RowsFit(TableC0toFF)
  <1>1. \A S \in {{"CMP", "SBC"}, {"CPX", "CPY"}, {"NOP"}} :
          \A o \in S : o \notin ModifyOpcodes \cup {"RTI", "JSR", "RTS", "BRK"}
    BY DEF ModifyOpcodes
  <1>2. /\ RowsFit(Accumulator({"CMP", "SBC"}))
        /\ RowsFit(Loads({"CPX", "CPY"}, {"ZeroPageX", "ZeroPageY", "AbsoluteX", "AbsoluteY",
                                          "IndirectX", "IndirectY"}))
        /\ RowsFit(Loads({"NOP"}, {"Immediate", "ZeroPage", "ZeroPageY", "Absolute", "AbsoluteY",
                                   "IndirectX", "IndirectY"}))
    BY <1>1, LoadsFit DEF Accumulator
  <1>3. RowsFit(Rows({"INC", "DEC"}, RmwCycles, {})) /\ RowsFit(RmwCombined({"DCP", "ISC"}))
    BY RmwFits DEF ModifyOpcodes
  <1>4. RowsFit(Immediate({"SBX", "NOP"}))
    BY PlainFits DEF Plain, ModifyOpcodes
  <1>5. /\ RowsFit(Branches({"BNE", "BEQ"}))
        /\ RowsFit(Implicit({"INY", "DEX", "INX", "CLD", "SED", "NOP", "XXX"}, 2))
    BY SilentFit DEF SilentOpcodes, BranchOpcodes, InternalOpcodes
  <1> QED
    BY <1>2, <1>3, <1>4, <1>5, Zenon DEF TableC0toFF, RowsFit

LEMMA TableFits == \A row \in Table : Fits(row.opcode, row.mode, row.cycles)
  <1>1. RowsFit(Table)
    BY Table00to7FFits, Table80to9FFits, TableA0toBFFits, TableC0toFFFits, Zenon DEF Table, RowsFit
  <1> QED
    BY <1>1 DEF RowsFit

OneAccess == ReadOpcodes \cup {"STA", "STX", "STY", "SAX", "SHY", "SHX", "PHA", "PHP",
                               "PLA", "PLP"}

LEMMA OpcodeAccesses ==
    ASSUME NEW o, NEW m, m = "Accumulator" => o \in ShiftOpcodes
    PROVE  /\ o \in OneAccess => Accesses(o, m) = 1
           /\ o \in ModifyOpcodes /\ m # "Accumulator" => Accesses(o, m) = 3
           /\ m = "Accumulator" => Accesses(o, m) = 0 /\ o \in ModifyOpcodes
           /\ o \in SilentOpcodes => Accesses(o, m) = 0
           /\ o \in {"JSR", "RTS"} => Accesses(o, m) = 2
           /\ o = "RTI" => Accesses(o, m) = 3
           /\ o = "BRK" => Accesses(o, m) = 5
  <1>1. o \in ShiftOpcodes => o \in ModifyOpcodes
    BY DEF ShiftOpcodes, ModifyOpcodes
  <1>2. o \in ModifyOpcodes => o \notin SilentOpcodes
    BY DEF ModifyOpcodes, SilentOpcodes, InternalOpcodes, BranchOpcodes
  <1>3. o \in OneAccess \cup {"RTI", "JSR", "RTS", "BRK"} =>
          o \notin ModifyOpcodes /\ o \notin SilentOpcodes
    BY DEF OneAccess, ReadOpcodes, ModifyOpcodes, SilentOpcodes, InternalOpcodes, BranchOpcodes
  <1>4. o \in OneAccess => o \notin {"RTI", "JSR", "RTS", "BRK"}
    BY DEF OneAccess, ReadOpcodes
  <1>5. /\ o \in OneAccess => m # "Accumulator"
        /\ o \in {"RTI", "JSR", "RTS", "BRK"} => m # "Accumulator"
    BY <1>1, <1>3
  <1>6. o \in ModifyOpcodes /\ m # "Accumulator" => Accesses(o, m) = 3
    BY <1>2 DEF Accesses
  <1>7. ASSUME o \in OneAccess
        PROVE  Accesses(o, m) = 1
    <2>1. m # "Accumulator" /\ o \notin SilentOpcodes /\ o \notin ModifyOpcodes
      BY <1>3, <1>5, <1>7
    <2>2. o # "RTI" /\ o # "JSR" /\ o # "RTS" /\ o # "BRK"
      BY <1>4, <1>7
    <2> QED
      BY <2>1, <2>2 DEF Accesses
  <1>8. /\ m = "Accumulator" => Accesses(o, m) = 0 /\ o \in ModifyOpcodes
        /\ o \in SilentOpcodes => Accesses(o, m) = 0
    BY <1>1 DEF Accesses
  <1>9. /\ o \in {"JSR", "RTS"} => Accesses(o, m) = 2
        /\ o = "RTI" => Accesses(o, m) = 3
        /\ o = "BRK" => Accesses(o, m) = 5
    BY <1>3, <1>5 DEF Accesses
  <1> QED
    BY <1>6, <1>7, <1>8, <1>9

LEMMA AccessesOf ==
    ASSUME NEW row \in Table
    PROVE  /\ row.opcode \in OneAccess => Accesses(row.opcode, row.mode) = 1
           /\ row.opcode \in ModifyOpcodes /\ row.mode # "Accumulator" =>
                Accesses(row.opcode, row.mode) = 3
           /\ row.mode = "Accumulator" =>
                Accesses(row.opcode, row.mode) = 0 /\ row.opcode \in ModifyOpcodes
           /\ row.opcode \in SilentOpcodes => Accesses(row.opcode, row.mode) = 0
           /\ row.opcode \in {"JSR", "RTS"} => Accesses(row.opcode, row.mode) = 2
           /\ row.opcode = "RTI" => Accesses(row.opcode, row.mode) = 3
           /\ row.opcode = "BRK" => Accesses(row.opcode, row.mode) = 5
  <1>1. row.mode = "Accumulator" => row.opcode \in ShiftOpcodes
    BY TableFits DEF Fits
  <1> QED
    BY <1>1, OpcodeAccesses, Zenon

LEMMA InitialRow ==
    [opcode |-> "NOP", mode |-> "Implicit", cycles |-> 2, extra_cycle |-> FALSE] \in Table
  <1> DEFINE row    == [opcode |-> "NOP", mode |-> "Implicit", cycles |-> 2, extra_cycle |-> FALSE]
             cycles == [Implicit |-> 2]
             S      == {"CLC", "SEC", "CLI", "SEI", "NOP", "XXX"}
  <1>1. "NOP" \in S /\ "Implicit" \in DOMAIN cycles /\ cycles["Implicit"] = 2
    OBVIOUS
  <1>2. ("Implicit" \in {}) = FALSE
    OBVIOUS
  <1> HIDE DEF S, cycles
  <1>3. row \in Rows(S, cycles, {})
    <2>1. row = [opcode |-> "NOP", mode |-> "Implicit", cycles |-> cycles["Implicit"],
                 extra_cycle |-> "Implicit" \in {}]
      BY <1>1, <1>2
    <2> HIDE DEF row
    <2> QED
      BY <1>1, <2>1 DEF Rows
  <1> HIDE DEF row
  <1>4. row \in Implicit(S, 2)
    BY <1>3, Zenon DEF Implicit, cycles
  <1>5. row \in Table00to7F
    BY <1>4, Zenon DEF Table00to7F, S
  <1> QED
    BY <1>5, Zenon DEF Table, row

-----------------------------------------------------------------------------
(* The type invariant, in the words of the lemmas.                         *)

Typed ==
    /\ R \in RegisterFile /\ sp \in Byte /\ pc \in Address /\ addr \in Address
    /\ RamType(ram) /\ at \in {"fetch", "resolve", "execute", "idle", "nmi", "irq"}
    /\ info \in Table /\ page_crossed \in BOOLEAN /\ extra \in 0 .. 2
    /\ consumed \in Nat /\ program \in DOMAIN Programs /\ steps \in Nat
    /\ depth \in Int

LEMMA TypedMeans == Typed => TypeOK
  <1> SUFFICES ASSUME Typed
               PROVE  TypeOK
    OBVIOUS
  <1>1. a \in Byte /\ x \in Byte /\ y \in Byte /\ status \in Statuses
    BY DEF Typed, R, RegisterFile
  <1>2. {a, x, y, sp} \subseteq Byte /\ {pc, addr} \subseteq Address
    BY <1>1 DEF Typed
  <1>3. status \subseteq Flags /\ "UNUSED" \in status /\ "BREAK" \notin status
    BY <1>1 DEF Statuses
  <1> QED
    BY <1>2, <1>3 DEF Typed, TypeOK, RamType

\* The bus accesses so far are those of the stages so far.
Staged ==
    /\ at = "resolve" => consumed = 1
    /\ at = "execute" => consumed = 1 + Reads[info.mode]
    /\ at = "idle"    => consumed <= info.cycles

LEMMA InitTyped == Init => Typed /\ Staged
  <1> SUFFICES ASSUME Init
               PROVE  Typed /\ Staged
    OBVIOUS
  <1>1. program \in DOMAIN Programs /\ steps \in Nat
    BY ProgramsAssumption DEF Init
  <1>2. a \in Byte /\ x \in Byte /\ y \in Byte /\ sp \in Byte
    BY ProgramsAssumption DEF Init
  <1>3. status \in Statuses
    <2>1. PICK flags \in SUBSET Programs[program].flags : status = flags \cup {"UNUSED"}
      BY DEF Init
    <2>2. flags \subseteq Flags \ {"BREAK"}
      BY <1>1, <2>1, ProgramsAssumption
    <2> QED
      BY <2>1, <2>2, BitValues DEF Statuses
  <1>4. pc \in Address
    <2>1. PICK lo \in Programs[program].pcs, hi \in Programs[program].pcs : pc = Word(hi, lo)
      BY DEF Init
    <2> QED
      BY <1>1, <2>1, PcsType, WordType
  <1>5. addr \in Address
    <2>1. addr = 0
      BY DEF Init
    <2>2. addr \in Nat /\ addr < 65536
      BY <2>1, SMT
    <2> QED
      BY <2>2, AddressLimits, SMT
  <1>6. RamType(ram)
    BY DEF Init, RamType
  <1>7. info \in Table
    BY InitialRow DEF Init
  <1>8. R \in RegisterFile
    BY <1>2, <1>3 DEF R, RegisterFile
  <1>9. at = "fetch" /\ page_crossed \in BOOLEAN
    BY Zenon DEF Init
  <1>10. extra \in 0 .. 2 /\ consumed \in Nat /\ depth \in Int
    BY DEF Init
  <1>11. Typed
    BY <1>1, <1>2, <1>4, <1>5, <1>6, <1>7, <1>8, <1>9, <1>10 DEF Typed
  <1> QED
    BY <1>9, <1>11 DEF Staged

-----------------------------------------------------------------------------
(* What the parts of a step keep.                                          *)

LEMMA BecomeType ==
    ASSUME NEW r \in RegisterFile, Become(r)
    PROVE  R' \in RegisterFile
  <1>1. r.a \in Byte /\ r.x \in Byte /\ r.y \in Byte /\ r.status \in Statuses
    BY DEF RegisterFile
  <1> QED
    BY <1>1 DEF Become, R, RegisterFile

LEMMA SameRegisters ==
    ASSUME UNCHANGED registers
    PROVE  R' = R
  BY DEF registers, R

LEMMA RegisterTypes ==
    ASSUME Typed
    PROVE  a \in Byte /\ x \in Byte /\ y \in Byte /\ status \in Statuses /\ sp \in Byte
  BY DEF Typed, R, RegisterFile

LEMMA StatusOnly ==
    ASSUME Typed, NEW s \in Statuses, status' = s, UNCHANGED <<a, x, y>>
    PROVE  R' \in RegisterFile
  BY RegisterTypes DEF R, RegisterFile

LEMMA AddressPlus ==
    ASSUME NEW ad \in Address, NEW n \in Int
    PROVE  (ad + n) % 65536 \in Address
  <1>1. ad + n \in Int
    BY AddressLimits, SMT
  <1> QED
    BY <1>1, FitsAddress

LEMMA ByteIsAddress ==
    ASSUME NEW n \in Byte
    PROVE  n \in Address
  <1>1. n \in Nat /\ n < 65536
    BY SMT DEF Byte
  <1> QED
    BY <1>1, AddressLimits

LEMMA TopType ==
    ASSUME Typed, NEW i
    PROVE  Top(i) \subseteq Byte
  BY MemType DEF Typed, Top

LEMMA StoredType ==
    ASSUME Typed, NEW ad \in Address, NEW val \in Byte, StoredAt(ad, val)
    PROVE  RamType(ram') /\ sp' \in Byte /\ depth' \in Int
  <1>1. ad \in Nat
    BY AddressLimits
  <1>2. RamType(Overlay(ram, ad, val))
    BY <1>1, OverlayType DEF Typed
  <1> QED
    BY <1>2 DEF StoredAt, Typed

LEMMA PushedType ==
    ASSUME Typed, NEW m, m.sp \in Byte, RamType(m.ram), NEW n \in Int, NEW entered,
           Pushed(m, n, entered)
    PROVE  RamType(ram') /\ sp' \in Byte /\ depth' \in Int
  BY DEF Pushed, Typed

LEMMA StackType ==
    ASSUME Typed
    PROVE  Stack.sp \in Byte /\ RamType(Stack.ram)
  BY DEF Typed, Stack

LEMMA PulledType ==
    ASSUME Typed, NEW n \in Int, Pulled(n)
    PROVE  RamType(ram') /\ sp' \in Byte /\ depth' \in Int
  <1>1. (sp + n) % 256 \in Byte
    BY SMT DEF Typed, Byte
  <1> QED
    BY <1>1 DEF Pulled, Typed

LEMMA PulledStatusType ==
    ASSUME NEW val
    PROVE  PulledStatus(val) \in Statuses
  <1>1. FromBits(val) \subseteq Flags
    BY DEF FromBits
  <1> QED
    BY <1>1, BitValues DEF PulledStatus, Set, Statuses

-----------------------------------------------------------------------------
(* resolve_addr.                                                           *)

LEMMA ResolvedType ==
    ASSUME Typed, NEW ad \in Address, NEW crossed \in BOOLEAN, NEW bytes \in Nat, NEW reads,
           Resolved(ad, crossed, bytes, reads)
    PROVE  /\ addr' \in Address /\ page_crossed' \in BOOLEAN /\ pc' \in Address
           /\ consumed' = consumed + reads
  <1>1. (pc + bytes) % 65536 \in Address
    BY AddressPlus DEF Typed
  <1> QED
    BY <1>1 DEF Resolved

LEMMA IndexedType ==
    ASSUME Typed, NEW base \in Address, NEW index \in Int, NEW bytes \in Nat, NEW reads,
           Indexed(base, index, bytes, reads)
    PROVE  /\ addr' \in Address /\ page_crossed' \in BOOLEAN /\ pc' \in Address
           /\ consumed' = consumed + reads
  <1> DEFINE target == (base + index) % 65536
  <1>1. target \in Address
    BY AddressPlus
  <1>2. Resolved(target, Page(base) # Page(target), bytes, reads)
    BY DEF Indexed
  <1> HIDE DEF target
  <1> QED
    BY <1>1, <1>2, ResolvedType

Addressed(reads) ==
    /\ addr' \in Address /\ page_crossed' \in BOOLEAN /\ pc' \in Address
    /\ consumed' = consumed + reads

LEMMA ResolveStep ==
    ASSUME Typed, ResolveAddr
    PROVE  Addressed(Reads[info.mode])
  <1>1. /\ \A ad : Mem(ad) \subseteq Byte
        /\ x \in Byte /\ y \in Byte /\ pc \in Address
    BY MemType, RegisterTypes DEF Typed
  <1>2. Next1 \in Address
    BY AddressPlus DEF Typed, Next1
  <1>3. /\ \A ad, crossed, bytes, reads :
             ad \in Address /\ crossed \in BOOLEAN /\ bytes \in Nat
             /\ Resolved(ad, crossed, bytes, reads) => Addressed(reads)
        /\ \A base, index, bytes, reads :
             base \in Address /\ index \in Int /\ bytes \in Nat
             /\ Indexed(base, index, bytes, reads) => Addressed(reads)
    BY ResolvedType, IndexedType DEF Addressed
  <1>4. x \in Int /\ y \in Int /\ \A n \in Byte : n \in Int
    BY <1>1 DEF Byte
  <1>5. /\ Reads["Implicit"] = 0 /\ Reads["Accumulator"] = 0 /\ Reads["Immediate"] = 0
        /\ Reads["ZeroPage"] = 1 /\ Reads["ZeroPageX"] = 1 /\ Reads["ZeroPageY"] = 1
        /\ Reads["Relative"] = 1 /\ Reads["Absolute"] = 2 /\ Reads["AbsoluteX"] = 2
        /\ Reads["AbsoluteY"] = 2 /\ Reads["Indirect"] = 4 /\ Reads["IndirectX"] = 3
        /\ Reads["IndirectY"] = 3
    BY DEF Reads
  <1>6. CASE NoOperand
    <2>1. 0 \in Byte
      BY DEF Byte
    <2>2. Resolved(0, FALSE, 0, 0) /\ Reads[info.mode] = 0
      BY <1>5, <1>6 DEF NoOperand
    <2>3. 0 \in Address
      BY <2>1, ByteIsAddress
    <2>4. 0 \in Nat /\ FALSE \in BOOLEAN
      OBVIOUS
    <2>5. Addressed(0)
      BY <1>3, <2>2, <2>3, <2>4, Zenon
    <2> QED
      BY <2>2, <2>5
  <1>7. CASE ImmediateOperand
    BY <1>1, <1>3, <1>5, <1>7 DEF ImmediateOperand
  <1>8. CASE ZeroPage
    <2>1. PICK base \in Mem(pc) :
            \/ info.mode = "ZeroPage" /\ Resolved(base, FALSE, 1, 1)
            \/ info.mode = "ZeroPageX" /\ Resolved((base + x) % 256, FALSE, 1, 1)
            \/ info.mode = "ZeroPageY" /\ Resolved((base + y) % 256, FALSE, 1, 1)
      BY <1>8 DEF ZeroPage
    <2>2. base \in Byte
      BY <1>1
    <2>3. base + x \in Int /\ base + y \in Int
      BY <1>4, <2>2, SMT DEF Byte
    <2>4. base \in Address /\ (base + x) % 256 \in Address /\ (base + y) % 256 \in Address
      BY <2>3, <2>2, BytePlus, ByteIsAddress
    <2> QED
      BY <1>3, <1>5, <2>1, <2>4, ZenonT(60)
  <1>9. CASE Relative
    <2>1. PICK offset \in Mem(pc) : Indexed(Next1, Signed(offset), 1, 1)
      BY <1>9 DEF Relative
    <2>2. Signed(offset) \in -128 .. 127
      BY <1>1, SignedType
    <2>3. Signed(offset) \in Int
      BY <2>2
    <2> QED
      BY <1>2, <1>3, <1>5, <1>9, <2>1, <2>3 DEF Relative
  <1>10. CASE Absolute
    <2>1. PICK lo \in Mem(pc), hi \in Mem(Next1) :
            \/ info.mode = "Absolute" /\ Resolved(Word(hi, lo), FALSE, 2, 2)
            \/ info.mode = "AbsoluteX" /\ Indexed(Word(hi, lo), x, 2, 2)
            \/ info.mode = "AbsoluteY" /\ Indexed(Word(hi, lo), y, 2, 2)
      BY <1>10 DEF Absolute
    <2>2. Word(hi, lo) \in Address
      BY <1>1, WordType
    <2> QED
      BY <1>3, <1>4, <1>5, <2>1, <2>2
  <1>11. CASE Indirect
    <2>1. PICK hi \in Byte, lo \in Byte : Resolved(Word(hi, lo), FALSE, 2, 4)
      BY <1>1, <1>11, ZenonT(60) DEF Indirect
    <2>2. Word(hi, lo) \in Address
      BY WordType
    <2> QED
      BY <1>3, <1>5, <1>11, <2>1, <2>2 DEF Indirect
  <1>12. CASE IndirectX
    <2>1. PICK hi \in Byte, lo \in Byte : Resolved(Word(hi, lo), FALSE, 1, 3)
      BY <1>1, <1>12, ZenonT(60) DEF IndirectX
    <2>2. Word(hi, lo) \in Address
      BY WordType
    <2> QED
      BY <1>3, <1>5, <1>12, <2>1, <2>2 DEF IndirectX
  <1>13. CASE IndirectY
    <2>1. PICK hi \in Byte, lo \in Byte : Indexed(Word(hi, lo), y, 1, 3)
      BY <1>1, <1>13 DEF IndirectY
    <2>2. Word(hi, lo) \in Address
      BY WordType
    <2> QED
      BY <1>3, <1>4, <1>5, <1>13, <2>1, <2>2 DEF IndirectY
  <1> QED
    BY <1>6, <1>7, <1>8, <1>9, <1>10, <1>11, <1>12, <1>13 DEF ResolveAddr

-----------------------------------------------------------------------------
(* execute.                                                                *)

Performed ==
    /\ R' \in RegisterFile /\ sp' \in Byte /\ pc' \in Address /\ RamType(ram')
    /\ depth' \in Int /\ extra' \in 0 .. 2
    /\ consumed' = consumed + Accesses(info.opcode, info.mode)

LEMMA ExecutedType ==
    ASSUME Typed, NEW n, Executed(n)
    PROVE  pc' \in Address /\ extra' \in 0 .. 2 /\ consumed' = consumed + n
  BY DEF Executed, Typed

LEMMA SameStack ==
    ASSUME Typed, UNCHANGED <<stack, ram>>
    PROVE  RamType(ram') /\ sp' \in Byte /\ depth' \in Int
  BY DEF Typed, stack

LEMMA ExecuteReadType ==
    ASSUME Typed, ExecuteRead
    PROVE  Performed
  <1>1. PICK val \in Mem(addr) : Become(Read(info.opcode, R, val))
    BY DEF ExecuteRead
  <1>2. val \in Byte /\ R \in RegisterFile /\ info.opcode \in ReadOpcodes /\ Executed(1)
    BY MemType DEF Typed, ExecuteRead
  <1>3. R' \in RegisterFile
    BY <1>1, <1>2, ReadType, BecomeType
  <1>4. Accesses(info.opcode, info.mode) = 1
    BY <1>2, AccessesOf DEF Typed, OneAccess
  <1> QED
    BY <1>2, <1>3, <1>4, ExecutedType, SameStack DEF Performed, ExecuteRead

LEMMA ExecuteModifyType ==
    ASSUME Typed, ExecuteModify
    PROVE  Performed
  <1>1. PICK val \in Mem(addr) : /\ Become(Modify(info.opcode, R, val))
                                 /\ StoredAt(addr, Written(info.opcode, R, val))
    BY DEF ExecuteModify
  <1>2. /\ val \in Byte /\ R \in RegisterFile /\ info.opcode \in ModifyOpcodes /\ Executed(3)
        /\ addr \in Address
    BY MemType DEF Typed, ExecuteModify
  <1>3. R' \in RegisterFile
    BY <1>1, <1>2, ModifyType, BecomeType
  <1>4. Written(info.opcode, R, val) \in Byte
    BY <1>2, WrittenType
  <1>5. RamType(ram') /\ sp' \in Byte /\ depth' \in Int
    BY <1>1, <1>2, <1>4, StoredType
  <1>6. Accesses(info.opcode, info.mode) = 3
    BY <1>2, AccessesOf DEF Typed, ExecuteModify
  <1> QED
    BY <1>2, <1>3, <1>5, <1>6, ExecutedType DEF Performed

LEMMA ExecuteAccumulatorType ==
    ASSUME Typed, ExecuteAccumulator
    PROVE  Performed
  <1>1. /\ Accesses(info.opcode, info.mode) = 0 /\ info.opcode \in ModifyOpcodes
        /\ R \in RegisterFile /\ Executed(0) /\ a \in Byte
    BY AccessesOf, RegisterTypes DEF Typed, ExecuteAccumulator
  <1>2. [Modify(info.opcode, R, a) EXCEPT !.a = Written(info.opcode, R, a)] \in RegisterFile
    BY <1>1, ModifyAccumulatorType
  <1>3. R' \in RegisterFile
    BY <1>2, BecomeType DEF ExecuteAccumulator
  <1> QED
    BY <1>1, <1>3, ExecutedType, SameStack DEF Performed, ExecuteAccumulator

LEMMA ExecuteInternalType ==
    ASSUME Typed, ExecuteInternal
    PROVE  Performed
  <1>1. /\ info.opcode \in InternalOpcodes /\ R \in RegisterFile /\ Executed(0) /\ sp \in Byte
    BY DEF Typed, ExecuteInternal
  <1>2. R' \in RegisterFile
    BY <1>1, InternalType, BecomeType DEF ExecuteInternal
  <1>3. Accesses(info.opcode, info.mode) = 0
    BY <1>1, AccessesOf DEF Typed, SilentOpcodes
  <1> QED
    BY <1>1, <1>2, <1>3, ExecutedType, SameStack DEF Performed, ExecuteInternal

LEMMA StoreIs ==
    ASSUME Typed, ExecuteStore
    PROVE  \E ad \in Address, val \in Byte : StoredAt(ad, val)
  <1>1. \A reg \in Byte : High(reg) \in Byte /\ HighTarget(High(reg)) \in Address
    <2> TAKE reg \in Byte
    <2>1. High(reg) \in Byte
      BY LogicType DEF High
    <2>2. addr \in Address /\ addr % 256 \in Byte
      BY BytesOfWord DEF Typed
    <2>3. Word(High(reg), addr % 256) \in Address
      BY <2>1, <2>2, WordType
    <2> QED
      BY <2>1, <2>2, <2>3 DEF HighTarget
  <1>2. a \in Byte /\ x \in Byte /\ y \in Byte /\ And(a, x) \in Byte /\ addr \in Address
    BY RegisterTypes, LogicType DEF Typed
  <1> QED
    BY <1>1, <1>2 DEF ExecuteStore

LEMMA ExecuteStoreType ==
    ASSUME Typed, ExecuteStore
    PROVE  Performed
  <1>1. PICK ad \in Address, val \in Byte : StoredAt(ad, val)
    BY StoreIs
  <1>2. RamType(ram') /\ sp' \in Byte /\ depth' \in Int
    BY <1>1, StoredType
  <1>3. info.opcode \in OneAccess /\ Executed(1) /\ R' = R /\ R \in RegisterFile
    BY SameRegisters DEF Typed, ExecuteStore, OneAccess
  <1>4. Accesses(info.opcode, info.mode) = 1
    BY <1>3, AccessesOf DEF Typed
  <1> QED
    BY <1>2, <1>3, <1>4, ExecutedType DEF Performed

LEMMA ExecuteTxsType ==
    ASSUME Typed, ExecuteTxs
    PROVE  Performed
  <1>1. info.opcode \in SilentOpcodes /\ Executed(0) /\ R' = R /\ R \in RegisterFile
    BY SameRegisters DEF Typed, ExecuteTxs, SilentOpcodes
  <1>2. Accesses(info.opcode, info.mode) = 0
    BY <1>1, AccessesOf DEF Typed
  <1>3. RamType(ram') /\ sp' \in Byte /\ depth' \in Int
    BY RegisterTypes DEF Typed, ExecuteTxs
  <1> QED
    BY <1>1, <1>2, <1>3, ExecutedType DEF Performed

LEMMA ExecuteBranchType ==
    ASSUME Typed, ExecuteBranch
    PROVE  Performed
  <1>1. info.opcode \in SilentOpcodes /\ R' = R /\ R \in RegisterFile
    BY SameRegisters DEF Typed, ExecuteBranch, SilentOpcodes
  <1>2. Accesses(info.opcode, info.mode) = 0
    BY <1>1, AccessesOf DEF Typed
  <1>3. pc' \in Address /\ extra' \in 0 .. 2
    BY DEF Typed, ExecuteBranch
  <1>4. consumed' = consumed + 0
    BY DEF Typed, ExecuteBranch
  <1> QED
    BY <1>1, <1>2, <1>3, <1>4, SameStack DEF Performed, ExecuteBranch

LEMMA ExecuteJmpType ==
    ASSUME Typed, ExecuteJmp
    PROVE  Performed
  <1>1. info.opcode \in SilentOpcodes /\ R' = R /\ R \in RegisterFile
    BY SameRegisters DEF Typed, ExecuteJmp, SilentOpcodes
  <1>2. Accesses(info.opcode, info.mode) = 0
    BY <1>1, AccessesOf DEF Typed
  <1>3. pc' \in Address /\ extra' \in 0 .. 2 /\ consumed' = consumed + 0
    BY DEF Typed, ExecuteJmp
  <1> QED
    BY <1>1, <1>2, <1>3, SameStack DEF Performed, ExecuteJmp

LEMMA PushedStatusType ==
    ASSUME NEW brk
    PROVE  PushedStatus(brk) \in Byte
  BY BitsType DEF PushedStatus

LEMMA ExecutePushType ==
    ASSUME Typed, ExecutePush
    PROVE  Performed
  <1>1. PICK val \in Byte : Pushed(Push(Stack, val), 1, {})
    BY RegisterTypes, PushedStatusType DEF ExecutePush
  <1>2. Push(Stack, val).sp \in Byte /\ RamType(Push(Stack, val).ram)
    BY StackType, PushType
  <1>3. RamType(ram') /\ sp' \in Byte /\ depth' \in Int
    BY <1>1, <1>2, PushedType
  <1>4. info.opcode \in OneAccess /\ Executed(1) /\ R' = R /\ R \in RegisterFile
    BY SameRegisters DEF Typed, ExecutePush, OneAccess
  <1>5. Accesses(info.opcode, info.mode) = 1
    BY <1>4, AccessesOf DEF Typed
  <1> QED
    BY <1>3, <1>4, <1>5, ExecutedType DEF Performed

LEMMA ExecutePullType ==
    ASSUME Typed, ExecutePull
    PROVE  Performed
  <1>1. PICK val \in Top(1) :
          \/ info.opcode = "PLA" /\ Become(InA(R, val))
          \/ info.opcode = "PLP" /\ Become([R EXCEPT !.status = PulledStatus(val)])
    BY DEF ExecutePull
  <1>2. val \in Byte /\ R \in RegisterFile
    BY TopType DEF Typed
  <1>3. InA(R, val) \in RegisterFile /\ [R EXCEPT !.status = PulledStatus(val)] \in RegisterFile
    BY <1>2, InType, PulledStatusType, InStatus
  <1>4. R' \in RegisterFile
    BY <1>1, <1>3, BecomeType
  <1>5. RamType(ram') /\ sp' \in Byte /\ depth' \in Int
    BY PulledType DEF ExecutePull
  <1>6. info.opcode \in OneAccess /\ Executed(1)
    BY DEF ExecutePull, OneAccess
  <1>7. Accesses(info.opcode, info.mode) = 1
    BY <1>6, AccessesOf DEF Typed
  <1> QED
    BY <1>4, <1>5, <1>6, <1>7, ExecutedType DEF Performed

LEMMA ExecuteJsrType ==
    ASSUME Typed, ExecuteJsr
    PROVE  Performed
  <1>1. (pc - 1) % 65536 \in Address
    BY AddressLimits, FitsAddress DEF Typed
  <1>2. /\ PushWord(Stack, (pc - 1) % 65536).sp \in Byte
        /\ RamType(PushWord(Stack, (pc - 1) % 65536).ram)
    BY <1>1, StackType, PushWordType
  <1>3. RamType(ram') /\ sp' \in Byte /\ depth' \in Int
    BY <1>2, PushedType DEF ExecuteJsr
  <1>4. Accesses(info.opcode, info.mode) = 2
    BY AccessesOf DEF Typed, ExecuteJsr
  <1>5. R' \in RegisterFile /\ pc' \in Address /\ extra' \in 0 .. 2 /\ consumed' = consumed + 2
    BY SameRegisters DEF Typed, ExecuteJsr
  <1> QED
    BY <1>3, <1>4, <1>5 DEF Performed

LEMMA ExecuteRtsType ==
    ASSUME Typed, ExecuteRts
    PROVE  Performed
  <1>1. PICK lo \in Top(1), hi \in Top(2) : pc' = (Word(hi, lo) + 1) % 65536
    BY DEF ExecuteRts
  <1>2. pc' \in Address
    <2>1. lo \in Byte /\ hi \in Byte
      BY TopType
    <2>2. Word(hi, lo) \in Address
      BY <2>1, WordType
    <2> QED
      BY <1>1, <2>2, AddressPlus
  <1>3. RamType(ram') /\ sp' \in Byte /\ depth' \in Int
    BY PulledType DEF ExecuteRts
  <1>4. Accesses(info.opcode, info.mode) = 2
    BY AccessesOf DEF Typed, ExecuteRts
  <1>5. R' \in RegisterFile /\ extra' \in 0 .. 2 /\ consumed' = consumed + 2
    BY SameRegisters DEF Typed, ExecuteRts
  <1> QED
    BY <1>2, <1>3, <1>4, <1>5 DEF Performed

LEMMA ExecuteRtiType ==
    ASSUME Typed, ExecuteRti
    PROVE  Performed
  <1>1. PICK val \in Top(1) : Become([R EXCEPT !.status = PulledStatus(val)])
    BY DEF ExecuteRti
  <1>2. R' \in RegisterFile
    <2>1. [R EXCEPT !.status = PulledStatus(val)] \in RegisterFile
      BY PulledStatusType, InStatus DEF Typed
    <2> QED
      BY <1>1, <2>1, BecomeType
  <1>3. PICK lo \in Top(2), hi \in Top(3) : pc' = Word(hi, lo)
    BY DEF ExecuteRti
  <1>4. pc' \in Address
    <2>1. lo \in Byte /\ hi \in Byte
      BY TopType
    <2> QED
      BY <1>3, <2>1, WordType
  <1>5. RamType(ram') /\ sp' \in Byte /\ depth' \in Int
    BY PulledType DEF ExecuteRti
  <1>6. Accesses(info.opcode, info.mode) = 3
    BY AccessesOf DEF Typed, ExecuteRti
  <1>7. extra' \in 0 .. 2 /\ consumed' = consumed + 3
    BY DEF Typed, ExecuteRti
  <1> QED
    BY <1>2, <1>4, <1>5, <1>6, <1>7 DEF Performed

LEMMA EnterHandlerType ==
    ASSUME Typed, NEW return \in Address, NEW brk, EnterHandler(return, brk)
    PROVE  R' \in RegisterFile /\ sp' \in Byte /\ pc' \in Address /\ RamType(ram') /\ depth' \in Int
  <1> DEFINE half == PushWord(Stack, return)
             m    == Push(half, PushedStatus(brk))
  <1>1. half.sp \in Byte /\ RamType(half.ram)
    BY StackType, PushWordType
  <1> HIDE DEF half
  <1>2. m.sp \in Byte /\ RamType(m.ram)
    BY <1>1, PushedStatusType, PushType
  <1> HIDE DEF m
  <1>3. RamType(ram') /\ sp' \in Byte /\ depth' \in Int
    BY <1>2, PushedType DEF EnterHandler, m, half
  <1>4. R' \in RegisterFile
    <2>1. status \cup {"IRQ_DIS"} \in Statuses
      BY RegisterTypes, BitValues DEF Statuses
    <2> QED
      BY <2>1, StatusOnly DEF EnterHandler
  <1>5. PICK lo \in Programs[program].pcs, hi \in Programs[program].pcs : pc' = Word(hi, lo)
    BY DEF EnterHandler
  <1>6. pc' \in Address
    BY <1>5, PcsType, WordType DEF Typed
  <1> QED
    BY <1>3, <1>4, <1>6

LEMMA ExecuteBrkType ==
    ASSUME Typed, ExecuteBrk
    PROVE  Performed
  <1>1. Next1 \in Address
    BY AddressPlus DEF Typed, Next1
  <1>2. R' \in RegisterFile /\ sp' \in Byte /\ pc' \in Address /\ RamType(ram') /\ depth' \in Int
    BY <1>1, EnterHandlerType DEF ExecuteBrk
  <1>3. Accesses(info.opcode, info.mode) = 5
    BY AccessesOf DEF Typed, ExecuteBrk
  <1>4. extra' \in 0 .. 2 /\ consumed' = consumed + 5
    BY DEF Typed, ExecuteBrk
  <1> QED
    BY <1>2, <1>3, <1>4 DEF Performed

LEMMA ExecuteStep ==
    ASSUME Typed, Execute
    PROVE  Performed
  BY ExecuteReadType, ExecuteModifyType, ExecuteAccumulatorType, ExecuteInternalType,
     ExecuteStoreType, ExecuteTxsType, ExecuteBranchType, ExecutePushType, ExecutePullType,
     ExecuteJmpType, ExecuteJsrType, ExecuteRtsType, ExecuteRtiType, ExecuteBrkType
  DEF Execute

-----------------------------------------------------------------------------
(* The steps of an instruction, one after another.                         *)

LEMMA SameTyped ==
    ASSUME Typed, UNCHANGED <<registers, stack, ram, pc, operand, extra>>,
           program' = program, steps' = steps, consumed' \in Nat,
           at' \in {"fetch", "resolve", "execute", "idle", "nmi", "irq"}
    PROVE  Typed'
  <1>1. R' = R /\ sp' = sp /\ depth' = depth /\ ram' = ram /\ pc' = pc /\ extra' = extra
    BY DEF registers, stack, R
  <1>2. info' = info /\ addr' = addr /\ page_crossed' = page_crossed
    BY DEF operand
  <1> QED
    BY <1>1, <1>2 DEF Typed

LEMMA FetchTyped ==
    ASSUME Typed, Fetch
    PROVE  Typed' /\ Staged'
  <1>1. R' = R /\ sp' = sp /\ depth' = depth /\ ram' = ram
    BY DEF Fetch, registers, stack, R
  <1>2. pc' \in Address
    BY AddressPlus DEF Typed, Fetch
  <1>3. info' \in Table
    BY DEF Fetch
  <1>4. steps' \in Nat
    BY DEF Typed, Fetch
  <1>5. /\ addr' = addr /\ page_crossed' = page_crossed /\ extra' = extra /\ program' = program
        /\ consumed' = 1 /\ at' = "resolve"
    BY DEF Fetch
  <1> QED
    BY <1>1, <1>2, <1>3, <1>4, <1>5 DEF Typed, Staged

LEMMA ResolveTyped ==
    ASSUME Typed, Staged, ResolveAddr
    PROVE  Typed' /\ Staged'
  <1>1. Addressed(Reads[info.mode])
    BY ResolveStep
  <1>2. consumed = 1
    BY DEF Staged, ResolveAddr
  <1>3. Reads[info.mode] \in Nat
    <2>1. info.mode \in DOMAIN Reads
      BY TableFits DEF Typed, Fits
    <2> QED
      BY <2>1 DEF Reads
  <1>4. R' = R /\ sp' = sp /\ depth' = depth /\ ram' = ram
    BY DEF ResolveAddr, registers, stack, R
  <1>5. info' = info /\ extra' = extra /\ program' = program /\ steps' = steps /\ at' = "execute"
    BY DEF ResolveAddr
  <1> QED
    BY <1>1, <1>2, <1>3, <1>4, <1>5 DEF Typed, Staged, Addressed

LEMMA ExecuteTyped ==
    ASSUME Typed, Staged, Execute
    PROVE  Typed' /\ Staged'
  <1>1. Performed
    BY ExecuteStep
  <1>2. consumed = 1 + Reads[info.mode]
    BY DEF Staged, Execute
  <1>3. Accesses(info.opcode, info.mode) \in 0 .. 5
    BY AccessBounds
  <1>4. /\ info' = info /\ addr' = addr /\ page_crossed' = page_crossed /\ program' = program
        /\ steps' = steps /\ at' = "idle"
    BY DEF Execute, operand
  <1>5. consumed' \in Nat
    BY <1>1, <1>3 DEF Performed, Typed
  <1>6. Typed'
    BY <1>1, <1>4, <1>5 DEF Typed, Performed
  <1>7. consumed' <= info.cycles
    <2>1. 1 + Reads[info.mode] + Accesses(info.opcode, info.mode) <= info.cycles
      BY TableFits DEF Typed, Fits
    <2> QED
      BY <1>1, <1>2, <2>1 DEF Performed
  <1> QED
    BY <1>4, <1>6, <1>7 DEF Staged

LEMMA IdleTyped ==
    ASSUME Typed, Idle
    PROVE  Typed' /\ Staged'
  <1>1. Target \in Nat
    BY TableFits DEF Typed, Fits, Target
  <1>2. consumed' \in Nat /\ at' = "nmi"
    BY <1>1 DEF Idle, Typed
  <1>3. Typed'
    BY <1>2, SameTyped DEF Idle
  <1> QED
    BY <1>2, <1>3 DEF Staged

LEMMA InterruptTyped ==
    ASSUME Typed, Nmi \/ Irq
    PROVE  Typed' /\ Staged'
  <1>1. EnterHandler(pc, FALSE) /\ at' \in {"irq", "fetch"}
    BY DEF Nmi, Irq
  <1>2. R' \in RegisterFile /\ sp' \in Byte /\ pc' \in Address /\ RamType(ram') /\ depth' \in Int
    BY <1>1, EnterHandlerType DEF Typed
  <1>3. /\ info' = info /\ addr' = addr /\ page_crossed' = page_crossed /\ extra' = extra
        /\ consumed' = consumed /\ program' = program /\ steps' = steps
    BY DEF Nmi, Irq, operand
  <1> QED
    BY <1>1, <1>2, <1>3 DEF Typed, Staged

LEMMA NoInterruptTyped ==
    ASSUME Typed, NoNmi \/ NoIrq
    PROVE  Typed' /\ Staged'
  <1>1. at' \in {"irq", "fetch"} /\ consumed' \in Nat
    BY DEF NoNmi, NoIrq, Typed
  <1>2. Typed'
    BY <1>1, SameTyped DEF NoNmi, NoIrq
  <1> QED
    BY <1>1, <1>2 DEF Staged

LEMMA NextTyped ==
    ASSUME Typed, Staged, [Next]_vars
    PROVE  Typed' /\ Staged'
  <1>1. CASE Next
    BY <1>1, FetchTyped, ResolveTyped, ExecuteTyped, IdleTyped, InterruptTyped, NoInterruptTyped
    DEF Next
  <1>2. CASE UNCHANGED vars
    <2>1. /\ UNCHANGED <<registers, stack, ram, pc, operand, extra>> /\ program' = program
          /\ steps' = steps /\ consumed' = consumed /\ at' = at
      BY <1>2 DEF vars
    <2>2. Typed'
      BY <2>1, SameTyped DEF Typed
    <2> QED
      BY <2>1, <2>2 DEF Staged, operand
  <1> QED
    BY <1>1, <1>2

LEMMA AlwaysTyped == Spec => [](Typed /\ Staged)
  <1>1. Init => Typed /\ Staged
    BY InitTyped
  <1>2. (Typed /\ Staged) /\ [Next]_vars => (Typed /\ Staged)'
    BY NextTyped
  <1> QED
    BY <1>1, <1>2, PTL DEF Spec

\* The registers stay bytes, whatever the program and the interrupts, and the
\* BREAK flag is never set in the status register.
THEOREM TypeCorrect == Spec => []TypeOK
  <1>1. Typed => TypeOK
    BY TypedMeans
  <1> QED
    BY <1>1, AlwaysTyped, PTL

\* No instruction makes more bus accesses than the table gives it cycles: the
\* reads of its addressing mode and the accesses of its effect fit, row by row.
THEOREM AccessesFit == Spec => []AccessesFitCycles
  <1>1. Typed /\ Staged => AccessesFitCycles
    <2> SUFFICES ASSUME Typed, Staged, at = "idle"
                 PROVE  consumed <= Target
      BY DEF AccessesFitCycles
    <2>1. consumed <= info.cycles /\ info.cycles \in Nat
      BY TableFits DEF Typed, Staged, Fits
    <2> QED
      BY <2>1 DEF Typed, Target
  <1> QED
    BY <1>1, AlwaysTyped, PTL

-----------------------------------------------------------------------------
(* ADC and SBC.                                                            *)

LEMMA InSet ==
    ASSUME NEW s, NEW flag, NEW other, NEW on \in BOOLEAN
    PROVE  other \in Set(s, flag, on) <=> IF other = flag THEN on ELSE other \in s
  BY DEF Set

LEMMA InSetZN ==
    ASSUME NEW s, NEW val, NEW flag \in {"CARRY", "OVERFLOW"}
    PROVE  flag \in SetZN(s, val) <=> flag \in s
  <1> DEFINE zero == Set(s, "ZERO", val = 0)
  <1>1. flag # "ZERO" /\ flag # "NEGATIVE"
    OBVIOUS
  <1>2. flag \in zero <=> flag \in s
    BY <1>1 DEF Set
  <1> HIDE DEF zero
  <1>3. flag \in Set(zero, "NEGATIVE", val >= 128) <=> flag \in zero
    BY <1>1 DEF Set
  <1> QED
    BY <1>2, <1>3 DEF SetZN, zero

\* The overflow test, in signs: two numbers of one sign, a sum of the other.
LEMMA OverflowSigns ==
    ASSUME NEW m \in Byte, NEW n \in Byte, NEW c \in 0 .. 1, NEW sum, sum = m + n + c
    PROVE  And(Xor(m, n), 128) = 0 /\ And(Xor(m, sum), 128) # 0
             <=> Signed(m) + Signed(n) + c \notin -128 .. 127
  <1>1. m \in Int /\ n \in Int /\ sum \in Int
    BY SMT DEF Byte
  <1>2. Xor(m, n) \in Int /\ Xor(m, sum) \in Int
    BY LogicType, SMT DEF Byte
  <1>3. And(Xor(m, n), 128) = 0 <=> (Negative(m) <=> Negative(n))
    <2>1. Negative(Xor(m, n)) <=> ~(Negative(m) <=> Negative(n))
      BY <1>1, SignOfXor
    <2>2. And(Xor(m, n), 128) # 0 <=> Negative(Xor(m, n))
      BY <1>2, SignOfAnd
    <2> QED
      BY <2>1, <2>2
  <1>4. And(Xor(m, sum), 128) # 0 <=> ~(Negative(m) <=> Negative(sum))
    <2>1. Negative(Xor(m, sum)) <=> ~(Negative(m) <=> Negative(sum))
      BY <1>1, SignOfXor
    <2>2. And(Xor(m, sum), 128) # 0 <=> Negative(Xor(m, sum))
      BY <1>2, SignOfAnd
    <2> QED
      BY <2>1, <2>2
  <1>5. /\ Negative(m) <=> m % 256 >= 128
        /\ Negative(n) <=> n % 256 >= 128
        /\ Negative(sum) <=> sum % 256 >= 128
    BY <1>1, NegativeByte
  <1>6. (m >= 128 <=> n >= 128) /\ ~(m >= 128 <=> sum % 256 >= 128)
          <=> Signed(m) + Signed(n) + c \notin -128 .. 127
    BY SMT DEF Byte, Signed
  <1>7. m % 256 = m /\ n % 256 = n
    BY SMT DEF Byte
  <1> QED
    BY <1>3, <1>4, <1>5, <1>6, <1>7

LEMMA AddWithCarryExact ==
    ASSUME NEW r \in RegisterFile, NEW m \in Byte, NEW c, c = Carry(r.status)
    PROVE  LET out == AddWithCarry(r, m)
           IN  /\ out.a = (r.a + m + c) % 256
               /\ "CARRY" \in out.status <=> r.a + m + c > 255
               /\ "OVERFLOW" \in out.status <=> Signed(r.a) + Signed(m) + c \notin -128 .. 127
  <1> DEFINE sum      == r.a + m + c
             overflow == And(Xor(r.a, m), 128) = 0 /\ And(Xor(r.a, sum), 128) # 0
             carried  == Set(r.status, "CARRY", sum > 255)
             signed   == Set(carried, "OVERFLOW", overflow)
             flags    == SetZN(signed, sum % 256)
  <1>1. r.a \in Byte /\ c \in 0 .. 1
    BY CarryType DEF RegisterFile
  <1>2. AddWithCarry(r, m).a = sum % 256 /\ AddWithCarry(r, m).status = flags
    BY DEF AddWithCarry, RegisterFile
  <1>3. "CARRY" \in carried <=> sum > 255
    BY DEF Set
  <1> HIDE DEF carried
  <1>4. overflow <=> Signed(r.a) + Signed(m) + c \notin -128 .. 127
    BY <1>1, OverflowSigns
  <1> HIDE DEF sum, overflow
  <1>5. ("CARRY" \in signed <=> "CARRY" \in carried) /\ ("OVERFLOW" \in signed <=> overflow)
    BY DEF Set
  <1> HIDE DEF signed
  <1>6. ("CARRY" \in flags <=> "CARRY" \in signed) /\ ("OVERFLOW" \in flags <=> "OVERFLOW" \in signed)
    BY InSetZN
  <1> HIDE DEF flags
  <1> QED
    BY <1>2, <1>3, <1>4, <1>5, <1>6 DEF sum

\* Adding the complement subtracts: SBC's borrow is the carry's absence.
LEMMA SubtractExact ==
    ASSUME NEW r \in RegisterFile, NEW m \in Byte, NEW borrow, borrow = 1 - Carry(r.status)
    PROVE  LET out == AddWithCarry(r, Xor(m, 255))
           IN  /\ out.a = (r.a - m - borrow) % 256
               /\ "CARRY" \in out.status <=> r.a - m - borrow >= 0
               /\ "OVERFLOW" \in out.status <=> Signed(r.a) - Signed(m) - borrow \notin -128 .. 127
  <1> DEFINE n   == 255 - m
             c   == Carry(r.status)
             out == AddWithCarry(r, n)
  <1>1. Xor(m, 255) = n /\ n \in Byte
    BY Complement, SMT DEF Byte
  <1>2. r.a \in Byte /\ c \in 0 .. 1
    BY CarryType DEF RegisterFile
  <1>3. Signed(n) = -1 - Signed(m) /\ Signed(m) \in Int /\ Signed(r.a) \in Int
    BY <1>2, SMT DEF Byte, Signed
  <1> HIDE DEF n
  <1>4. /\ out.a = (r.a + n + c) % 256
        /\ "CARRY" \in out.status <=> r.a + n + c > 255
        /\ "OVERFLOW" \in out.status <=> Signed(r.a) + Signed(n) + c \notin -128 .. 127
    BY <1>1, AddWithCarryExact
  <1> HIDE DEF out, c
  <1>5. /\ (r.a + n + c) % 256 = (r.a - m - borrow) % 256
        /\ r.a + n + c > 255 <=> r.a - m - borrow >= 0
    <2> DEFINE d == r.a - m - borrow
    <2>1. d \in Int /\ borrow = 1 - c /\ r.a \in Int /\ m \in Int /\ c \in Int
      BY <1>2, SMT DEF c, Byte
    <2>2. r.a + n + c = d + 256
      BY <2>1, SMT DEF n
    <2> HIDE DEF d
    <2>3. (d + 256) % 256 = d % 256 /\ (d + 256 > 255 <=> d >= 0)
      BY <2>1, SMT
    <2> QED
      BY <2>2, <2>3 DEF d
  <1>6. Signed(r.a) + Signed(n) + c = Signed(r.a) - Signed(m) - borrow
    BY <1>2, <1>3, SMT DEF c
  <1> QED
    BY <1>1, <1>4, <1>5, <1>6 DEF out

\* Which instructions take which disjunct of execute.
LEMMA OpcodesOf ==
    /\ ExecuteRead        => info.opcode \in ReadOpcodes
    /\ ExecuteModify      => info.opcode \in ModifyOpcodes /\ info.mode # "Accumulator"
    /\ ExecuteAccumulator => info.mode = "Accumulator"
    /\ ExecuteInternal    => info.opcode \in InternalOpcodes
    /\ ExecuteStore       => info.opcode \in {"STA", "STX", "STY", "SAX", "SHY", "SHX"}
    /\ ExecuteTxs         => info.opcode = "TXS"
    /\ ExecuteBranch      => info.opcode \in BranchOpcodes
    /\ ExecutePush        => info.opcode \in {"PHA", "PHP"}
    /\ ExecutePull        => info.opcode \in {"PLA", "PLP"}
    /\ ExecuteJmp         => info.opcode = "JMP"
    /\ ExecuteJsr         => info.opcode = "JSR"
    /\ ExecuteRts         => info.opcode = "RTS"
    /\ ExecuteRti         => info.opcode = "RTI"
    /\ ExecuteBrk         => info.opcode = "BRK"
  <1>1. ExecuteRead => info.opcode \in ReadOpcodes
    BY Zenon DEF ExecuteRead
  <1>2. ExecuteModify => info.opcode \in ModifyOpcodes /\ info.mode # "Accumulator"
    BY Zenon DEF ExecuteModify
  <1>3. ExecuteAccumulator => info.mode = "Accumulator"
    BY Zenon DEF ExecuteAccumulator
  <1>4. ExecuteInternal => info.opcode \in InternalOpcodes
    BY Zenon DEF ExecuteInternal
  <1>5. ExecuteStore => info.opcode \in {"STA", "STX", "STY", "SAX", "SHY", "SHX"}
    BY Zenon DEF ExecuteStore
  <1>6. ExecuteTxs => info.opcode = "TXS"
    BY Zenon DEF ExecuteTxs
  <1>7. ExecuteBranch => info.opcode \in BranchOpcodes
    BY Zenon DEF ExecuteBranch
  <1>8. ExecutePush => info.opcode \in {"PHA", "PHP"}
    BY Zenon DEF ExecutePush
  <1>9. ExecutePull => info.opcode \in {"PLA", "PLP"}
    BY Zenon DEF ExecutePull
  <1>10. ExecuteJmp => info.opcode = "JMP"
    BY Zenon DEF ExecuteJmp
  <1>11. ExecuteJsr => info.opcode = "JSR"
    BY SMT DEF ExecuteJsr
  <1>12. ExecuteRts => info.opcode = "RTS"
    BY SMT DEF ExecuteRts
  <1>13. ExecuteRti => info.opcode = "RTI"
    BY Zenon DEF ExecuteRti
  <1>14. ExecuteBrk => info.opcode = "BRK"
    BY Zenon DEF ExecuteBrk
  <1> QED
    BY <1>1, <1>2, <1>3, <1>4, <1>5, <1>6, <1>7, <1>8, <1>9, <1>10, <1>11, <1>14, <1>12, <1>13

LEMMA ArithmeticStep ==
    ASSUME Typed, Execute
    PROVE  /\ info.opcode = "ADC" => \E m \in Mem(addr) :
                LET c == Carry(status)
                IN Exact(a + m + c, a + m + c > 255, Signed(a) + Signed(m) + c)
           /\ info.opcode = "SBC" => \E m \in Mem(addr) :
                LET borrow == 1 - Carry(status)
                IN Exact(a - m - borrow, a - m - borrow >= 0,
                         Signed(a) - Signed(m) - borrow)
  <1> USE DEF Exact
  <1>1. R \in RegisterFile /\ R.a = a /\ R.status = status
    BY DEF Typed, R
  <1>2. ASSUME info.opcode \in {"ADC", "SBC"}
        PROVE  ExecuteRead
    <2>1. info.opcode \in ReadOpcodes
      BY <1>2 DEF ReadOpcodes
    <2>2. /\ info.opcode \in OneAccess /\ info.opcode \notin ModifyOpcodes
          /\ info.opcode \notin SilentOpcodes
      BY <1>2 DEF OneAccess, ReadOpcodes, ModifyOpcodes, SilentOpcodes, InternalOpcodes,
                  BranchOpcodes
    <2>3. info.mode # "Accumulator"
      BY <2>2, AccessesOf DEF Typed
    <2>4. info.opcode \notin InternalOpcodes /\ info.opcode \notin BranchOpcodes
      BY <2>2 DEF SilentOpcodes
    <2> QED
      BY <1>2, <2>2, <2>3, <2>4, OpcodesOf DEF Execute
  <1>3. ASSUME info.opcode = "ADC"
        PROVE  \E m \in Mem(addr) :
                 LET c == Carry(status)
                 IN Exact(a + m + c, a + m + c > 255, Signed(a) + Signed(m) + c)
    <2>1. PICK m \in Mem(addr) : Become(Read(info.opcode, R, m))
      BY <1>2, <1>3 DEF ExecuteRead
    <2>2. m \in Byte
      BY MemType DEF Typed
    <2>3. Become(AddWithCarry(R, m))
      BY <1>3, <2>1 DEF Read
    <2> DEFINE c == Carry(status)
    <2>4. /\ a' = (a + m + c) % 256
          /\ "CARRY" \in status' <=> a + m + c > 255
          /\ "OVERFLOW" \in status' <=> Signed(a) + Signed(m) + c \notin -128 .. 127
      BY <1>1, <2>2, <2>3, AddWithCarryExact DEF Become
    <2> HIDE DEF c
    <2>5. Exact(a + m + c, a + m + c > 255, Signed(a) + Signed(m) + c)
      BY <2>4
    <2> QED
      BY <2>5 DEF c
  <1>4. ASSUME info.opcode = "SBC"
        PROVE  \E m \in Mem(addr) :
                 LET borrow == 1 - Carry(status)
                 IN Exact(a - m - borrow, a - m - borrow >= 0, Signed(a) - Signed(m) - borrow)
    <2>1. PICK m \in Mem(addr) : Become(Read(info.opcode, R, m))
      BY <1>2, <1>4 DEF ExecuteRead
    <2>2. m \in Byte
      BY MemType DEF Typed
    <2>3. Become(AddWithCarry(R, Xor(m, 255)))
      BY <1>4, <2>1 DEF Read
    <2> DEFINE borrow == 1 - Carry(status)
    <2>4. /\ a' = (a - m - borrow) % 256
          /\ "CARRY" \in status' <=> a - m - borrow >= 0
          /\ "OVERFLOW" \in status' <=> Signed(a) - Signed(m) - borrow \notin -128 .. 127
      BY <1>1, <2>2, <2>3, SubtractExact DEF Become
    <2> HIDE DEF borrow
    <2>5. Exact(a - m - borrow, a - m - borrow >= 0, Signed(a) - Signed(m) - borrow)
      BY <2>4
    <2> QED
      BY <2>5 DEF borrow
  <1> QED
    BY <1>3, <1>4

-----------------------------------------------------------------------------
(* The combined instructions.                                              *)

\* The zero and sign flags say nothing to what sets them anew.
LEMMA SetZNAgain ==
    ASSUME NEW s, NEW v, NEW w
    PROVE  SetZN(SetZN(s, v), w) = SetZN(s, w)
  BY DEF SetZN, Set

LEMMA SetZNApart ==
    ASSUME NEW s, NEW v, NEW flag \in {"CARRY", "OVERFLOW"}, NEW on
    PROVE  Set(SetZN(s, v), flag, on) = SetZN(Set(s, flag, on), v)
  <1>1. flag # "ZERO" /\ flag # "NEGATIVE"
    OBVIOUS
  <1> QED
    BY <1>1 DEF SetZN, Set

LEMMA SameRecord ==
    ASSUME NEW r \in RegisterFile, NEW q \in RegisterFile,
           r.a = q.a, r.x = q.x, r.y = q.y, r.status = q.status
    PROVE  r = q
  BY DEF RegisterFile

LEMMA ZeroAndSignForgotten ==
    ASSUME NEW r \in RegisterFile, NEW v, NEW reg, NEW m \in Byte, NEW r2,
           r2 = [r EXCEPT !.status = SetZN(r.status, v)]
    PROVE  /\ Compare(r2, reg, m) = Compare(r, reg, m)
           /\ InA(r2, m) = InA(r, m)
           /\ AddWithCarry(r2, m) = AddWithCarry(r, m)
  <1> DEFINE s == SetZN(r.status, v)
  <1>1. /\ r2.a = r.a /\ r2.x = r.x /\ r2.y = r.y /\ r2.status = s
        /\ r2 = [a |-> r.a, x |-> r.x, y |-> r.y, status |-> s]
        /\ r = [a |-> r.a, x |-> r.x, y |-> r.y, status |-> r.status]
    BY DEF RegisterFile
  <1>2. r2 \in RegisterFile
    BY SetZNType, InStatus DEF RegisterFile
  <1>3. ASSUME NEW on, NEW w
        PROVE  SetZN(Set(s, "CARRY", on), w) = SetZN(Set(r.status, "CARRY", on), w)
    <2>1. Set(s, "CARRY", on) = SetZN(Set(r.status, "CARRY", on), v)
      BY SetZNApart
    <2> QED
      BY <2>1, SetZNAgain
  <1>4. ASSUME NEW on, NEW over, NEW w
        PROVE  SetZN(Set(Set(s, "CARRY", on), "OVERFLOW", over), w)
                 = SetZN(Set(Set(r.status, "CARRY", on), "OVERFLOW", over), w)
    <2> DEFINE t == Set(r.status, "CARRY", on)
    <2>1. Set(s, "CARRY", on) = SetZN(t, v)
      BY SetZNApart
    <2> HIDE DEF t
    <2>2. Set(SetZN(t, v), "OVERFLOW", over) = SetZN(Set(t, "OVERFLOW", over), v)
      BY SetZNApart
    <2>3. SetZN(SetZN(Set(t, "OVERFLOW", over), v), w) = SetZN(Set(t, "OVERFLOW", over), w)
      BY SetZNAgain
    <2> HIDE DEF s
    <2> QED
      BY <2>1, <2>2, <2>3 DEF t
  <1>5. Carry(s) = Carry(r.status)
    BY InSetZN DEF Carry
  <1>6. SetZN(s, m) = SetZN(r.status, m)
    BY SetZNAgain
  <1> HIDE DEF s
  <1>7. Compare(r2, reg, m) = Compare(r, reg, m)
    <2>1. SetZN(Set(s, "CARRY", reg >= m), (reg - m) % 256)
            = SetZN(Set(r.status, "CARRY", reg >= m), (reg - m) % 256)
      BY <1>3
    <2> QED
      BY <1>1, <2>1, ZenonT(60) DEF Compare
  <1>8. InA(r2, m) = InA(r, m)
    BY <1>1, <1>6 DEF InA
  <1>9. AddWithCarry(r2, m) = AddWithCarry(r, m)
    <2> DEFINE sum  == r.a + m + Carry(r.status)
               over == And(Xor(r.a, m), 128) = 0 /\ And(Xor(r.a, sum), 128) # 0
    <2>1. SetZN(Set(Set(s, "CARRY", sum > 255), "OVERFLOW", over), sum % 256)
            = SetZN(Set(Set(r.status, "CARRY", sum > 255), "OVERFLOW", over), sum % 256)
      BY <1>4
    <2>2. /\ AddWithCarry(r, m).a = sum % 256
          /\ AddWithCarry(r, m).x = r.x /\ AddWithCarry(r, m).y = r.y
          /\ AddWithCarry(r, m).status
               = SetZN(Set(Set(r.status, "CARRY", sum > 255), "OVERFLOW", over), sum % 256)
      BY DEF AddWithCarry, RegisterFile
    <2>3. /\ AddWithCarry(r2, m).a = sum % 256
          /\ AddWithCarry(r2, m).x = r.x /\ AddWithCarry(r2, m).y = r.y
      BY <1>1, <1>5, <1>2 DEF AddWithCarry, RegisterFile
    <2>4. AddWithCarry(r2, m).status
            = SetZN(Set(Set(s, "CARRY", sum > 255), "OVERFLOW", over), sum % 256)
      BY <1>1, <1>5, <1>2 DEF AddWithCarry, RegisterFile
    <2>5. AddWithCarry(r, m) \in RegisterFile /\ AddWithCarry(r2, m) \in RegisterFile
      BY <1>2, AddWithCarryType
    <2> HIDE DEF sum, over
    <2>6. AddWithCarry(r2, m).status = AddWithCarry(r, m).status
      BY <2>1, <2>2, <2>4
    <2> QED
      BY <2>2, <2>3, <2>6, <2>5, SameRecord
  <1> QED
    BY <1>7, <1>8, <1>9

LEMMA HalvesCombine ==
    ASSUME NEW r \in RegisterFile, NEW val \in Byte, NEW opcode \in DOMAIN Halves,
           NEW out, out = Written(Halves[opcode][1], r, val)
    PROVE  /\ Written(opcode, r, val) = out
           /\ Modify(opcode, r, val) = Read(Halves[opcode][2], Modify(Halves[opcode][1], r, val), out)
  <1> DEFINE one     == Halves[opcode][1]
             two     == Halves[opcode][2]
             shifted == [r EXCEPT !.status = ShiftedOut(opcode, r, val)]
             r2      == [shifted EXCEPT !.status = SetZN(@, out)]
  <1>1. \/ opcode = "DCP" /\ one = "DEC" /\ two = "CMP"
        \/ opcode = "ISC" /\ one = "INC" /\ two = "SBC"
        \/ opcode = "SLO" /\ one = "ASL" /\ two = "ORA"
        \/ opcode = "RLA" /\ one = "ROL" /\ two = "AND"
        \/ opcode = "SRE" /\ one = "LSR" /\ two = "EOR"
        \/ opcode = "RRA" /\ one = "ROR" /\ two = "ADC"
    BY DEF Halves
  <1>2. out = Written(one, r, val)
    OBVIOUS
  <1> HIDE DEF one, two
  <1>3. Written(opcode, r, val) = out
    <2>1. /\ Written("DCP", r, val) = Written("DEC", r, val)
          /\ Written("ISC", r, val) = Written("INC", r, val)
          /\ Written("SLO", r, val) = Written("ASL", r, val)
          /\ Written("RLA", r, val) = Written("ROL", r, val)
          /\ Written("SRE", r, val) = Written("LSR", r, val)
          /\ Written("RRA", r, val) = Written("ROR", r, val)
      BY DEF Written
    <2> QED
      BY <1>1, <1>2, <2>1
  <1>4. ShiftedOut(one, r, val) = ShiftedOut(opcode, r, val)
    BY <1>1 DEF ShiftedOut
  <1>5. shifted \in RegisterFile /\ shifted.a = r.a
    BY ShiftedOutType DEF RegisterFile
  <1>6. out \in Byte
    BY <1>1, <1>2, WrittenType DEF ModifyOpcodes
  <1>7. Modify(one, r, val) = r2
    BY <1>1, <1>2, <1>4 DEF Modify
  <1>8. r2.a = r.a
    BY <1>5 DEF RegisterFile
  <1>9. Modify(opcode, r, val) =
          CASE opcode = "DCP" -> Compare(shifted, r.a, out)
            [] opcode = "ISC" -> AddWithCarry(shifted, Xor(out, 255))
            [] opcode = "SLO" -> InA(shifted, Or(r.a, out))
            [] opcode = "RLA" -> InA(shifted, And(r.a, out))
            [] opcode = "SRE" -> InA(shifted, Xor(r.a, out))
            [] opcode = "RRA" -> AddWithCarry(shifted, out)
            [] OTHER -> [shifted EXCEPT !.status = SetZN(@, out)]
    BY <1>3 DEF Modify
  <1>10. r2 = [shifted EXCEPT !.status = SetZN(shifted.status, out)]
    BY <1>5 DEF RegisterFile
  <1> HIDE DEF shifted, r2
  <1>11. ASSUME NEW m \in Byte, NEW reg
         PROVE  /\ Compare(r2, reg, m) = Compare(shifted, reg, m)
                /\ InA(r2, m) = InA(shifted, m)
                /\ AddWithCarry(r2, m) = AddWithCarry(shifted, m)
    BY <1>5, <1>10, ZeroAndSignForgotten, SMTT(30)
  <1>12. /\ Compare(r2, r.a, out) = Compare(shifted, r.a, out)
         /\ AddWithCarry(r2, out) = AddWithCarry(shifted, out)
         /\ AddWithCarry(r2, Xor(out, 255)) = AddWithCarry(shifted, Xor(out, 255))
         /\ InA(r2, Or(r.a, out)) = InA(shifted, Or(r.a, out))
         /\ InA(r2, And(r.a, out)) = InA(shifted, And(r.a, out))
         /\ InA(r2, Xor(r.a, out)) = InA(shifted, Xor(r.a, out))
    BY <1>6, <1>11, LogicType
  <1>13. Modify(opcode, r, val) = Read(two, r2, out)
    BY <1>1, <1>8, <1>9, <1>12 DEF Read
  <1> QED
    BY <1>3, <1>7, <1>13 DEF one, two

LEMMA CombinedStep ==
    ASSUME Typed, Execute, info.opcode \in DOMAIN Halves
    PROVE  \E val \in Mem(addr) :
             LET half == Halves[info.opcode]
                 out == Written(half[1], R, val)
             IN /\ InRam(addr) => ram'[Cell(addr)] = out
                /\ Become(Read(half[2], Modify(half[1], R, val), out))
  <1>1. info.opcode \in {"DCP", "ISC", "SLO", "RLA", "SRE", "RRA"}
    BY DEF Halves
  <1>2. /\ info.opcode \in ModifyOpcodes /\ info.opcode \notin ReadOpcodes
        /\ info.opcode \notin InternalOpcodes /\ info.opcode \notin BranchOpcodes
        /\ info.opcode \notin ShiftOpcodes
    BY <1>1 DEF ModifyOpcodes, ReadOpcodes, InternalOpcodes, BranchOpcodes, ShiftOpcodes
  <1>3. info.mode # "Accumulator"
    BY <1>2, TableFits DEF Typed, Fits
  <1>4. ExecuteModify
    BY <1>1, <1>2, <1>3, OpcodesOf DEF Execute
  <1>5. PICK val \in Mem(addr) : /\ Become(Modify(info.opcode, R, val))
                                 /\ StoredAt(addr, Written(info.opcode, R, val))
    BY <1>4 DEF ExecuteModify
  <1> DEFINE half == Halves[info.opcode]
             out  == Written(half[1], R, val)
  <1>6. val \in Byte /\ R \in RegisterFile
    BY MemType DEF Typed
  <1>7. /\ Written(info.opcode, R, val) = out
        /\ Modify(info.opcode, R, val) = Read(half[2], Modify(half[1], R, val), out)
    BY <1>6, HalvesCombine
  <1>8. InRam(addr) => ram'[Cell(addr)] = out
    <2>1. ram' = Overlay(ram, addr, out)
      BY <1>5, <1>7 DEF StoredAt
    <2> HIDE DEF out
    <2> QED
      BY <2>1 DEF Overlay
  <1> QED
    BY <1>5, <1>7, <1>8

-----------------------------------------------------------------------------

\* ADC and SBC add and subtract, modulo 256 and with the flags of the unsigned
\* and the signed result, for every accumulator, operand and carry.
THEOREM ArithmeticExact == Spec => ArithmeticIsExact
  <1>1. Typed /\ Staged /\ [Next]_vars =>
          [ at = "execute" =>
              /\ info.opcode = "ADC" => \E m \in Mem(addr) :
                   LET c == Carry(status)
                   IN Exact(a + m + c, a + m + c > 255, Signed(a) + Signed(m) + c)
              /\ info.opcode = "SBC" => \E m \in Mem(addr) :
                   LET borrow == 1 - Carry(status)
                   IN Exact(a - m - borrow, a - m - borrow >= 0,
                            Signed(a) - Signed(m) - borrow) ]_vars
    <2> SUFFICES ASSUME Typed, Next, at = "execute"
                 PROVE  Execute
      BY ArithmeticStep
    <2> QED
      BY DEF Next, Fetch, ResolveAddr, Idle, Nmi, NoNmi, Irq, NoIrq
  <1> QED
    BY <1>1, AlwaysTyped, PTL DEF Spec, ArithmeticIsExact

\* A combined instruction does what its two halves do one after the other, on
\* the memory and on every register and flag.
THEOREM CombinedExact == Spec => CombinedInstructions
  <1>1. Typed /\ Staged /\ [Next]_vars =>
          [ at = "execute" /\ info.opcode \in DOMAIN Halves =>
              \E val \in Mem(addr) :
                LET half == Halves[info.opcode]
                    out == Written(half[1], R, val)
                IN /\ InRam(addr) => ram'[Cell(addr)] = out
                   /\ Become(Read(half[2], Modify(half[1], R, val), out)) ]_vars
    <2> SUFFICES ASSUME Typed, Next, at = "execute"
                 PROVE  Execute
      BY CombinedStep
    <2> QED
      BY DEF Next, Fetch, ResolveAddr, Idle, Nmi, NoNmi, Irq, NoIrq
  <1> QED
    BY <1>1, AlwaysTyped, PTL DEF Spec, CombinedInstructions

-----------------------------------------------------------------------------
(* The stack: what is kept of a handler or a call until it returns.        *)

\* Byte d of a stack of k bytes lies here, and it is val.
CellOf(m, k, d) == StackPage + ((m.sp + k - d + 1) % 256)
Holds(m, k, d, val) == CellOf(m, k, d) \in DOMAIN m.ram /\ m.ram[CellOf(m, k, d)] = val

\* What entered the handler pushed, or what the call did.
SavedStatus(f) == Bits(Set(Set(f.status, "BREAK", f.brk), "UNUSED", TRUE))
SavedPc(f) == IF f.handler THEN f.pc ELSE (f.pc - 1) % 65536

Frame(f) ==
    /\ f.handler \in BOOLEAN /\ f.brk \in BOOLEAN /\ f.depth \in Int /\ f.pc \in Address
    /\ f.handler => f.status \in Statuses

\* The bytes of a frame are on the stack, which has not come round to them.
Kept(m, k, f) ==
    /\ f.depth <= k /\ k - 256 <= f.depth - Size(f)
    /\ f.handler => Holds(m, k, f.depth, SavedStatus(f))
    /\ Holds(m, k, f.depth - Size(f) + 2, SavedPc(f) % 256)
    /\ Holds(m, k, f.depth - Size(f) + 1, Page(SavedPc(f)))

Framed == \A f \in frames : Frame(f) /\ Kept(Stack, depth, f)

LEMMA KeptWhen ==
    ASSUME NEW m, NEW k, NEW f, NEW low, low = f.depth - Size(f),
           f.depth <= k, k - 256 <= low,
           f.handler => Holds(m, k, f.depth, SavedStatus(f)),
           Holds(m, k, low + 2, SavedPc(f) % 256), Holds(m, k, low + 1, Page(SavedPc(f)))
    PROVE  Kept(m, k, f)
  BY DEF Kept

LEMMA StackCell ==
    ASSUME NEW n \in Byte
    PROVE  /\ InRam(StackPage + n) /\ Cell(StackPage + n) = StackPage + n
           /\ Page(StackPage + n) = 1
  BY SMT DEF Byte, InRam, Cell, RamSize, StackPage, Page

LEMMA SizeIs ==
    ASSUME NEW f, f.handler \in BOOLEAN
    PROVE  Size(f) \in {2, 3} /\ (f.handler => Size(f) = 3) /\ (~f.handler => Size(f) = 2)
  BY DEF Size

LEMMA NotAllAround ==
    ASSUME NEW p \in Byte, NEW n \in 1 .. 255
    PROVE  (p + n) % 256 # p
  BY SMT DEF Byte

\* A push leaves the bytes below, up to a page of them ...
LEMMA PushKeeps ==
    ASSUME NEW m, m.sp \in Byte, NEW k \in Int, NEW d \in Int, NEW val, NEW w,
           d <= k, k - d <= 254, Holds(m, k, d, val)
    PROVE  Holds(Push(m, w), k + 1, d, val)
  <1> DEFINE c   == CellOf(m, k, d)
             top == StackPage + m.sp
  <1>1. CellOf(Push(m, w), k + 1, d) = c
    <2>1. (((m.sp - 1) % 256) + (k + 1) - d + 1) % 256 = (m.sp + k - d + 1) % 256
      BY SMT DEF Byte
    <2> QED
      BY <2>1, PushIs DEF CellOf
  <1>2. c # top
    <2>1. k - d + 1 \in 1 .. 255
      BY SMT
    <2>2. (m.sp + (k - d + 1)) % 256 # m.sp
      BY <2>1, NotAllAround
    <2>3. m.sp + k - d + 1 = m.sp + (k - d + 1)
      BY SMT DEF Byte
    <2> QED
      BY <2>2, <2>3, SMT DEF CellOf, StackPage, Byte
  <1>3. InRam(top) /\ Cell(top) = top
    BY StackCell
  <1>4. c \in DOMAIN m.ram /\ m.ram[c] = val
    BY DEF Holds
  <1> HIDE DEF c, top
  <1>5. c \in DOMAIN Overlay(m.ram, top, w) /\ Overlay(m.ram, top, w)[c] = val
    BY <1>2, <1>3, <1>4 DEF Overlay
  <1>6. Push(m, w).ram = Overlay(m.ram, top, w)
    BY PushIs DEF top
  <1> QED
    BY <1>1, <1>5, <1>6 DEF Holds

\* ... and puts its own on top.
LEMMA PushPuts ==
    ASSUME NEW m, m.sp \in Byte, NEW k \in Int, NEW w
    PROVE  Holds(Push(m, w), k + 1, k + 1, w)
  <1> DEFINE top == StackPage + m.sp
  <1>1. CellOf(Push(m, w), k + 1, k + 1) = top
    <2>1. (((m.sp - 1) % 256) + (k + 1) - (k + 1) + 1) % 256 = m.sp
      BY SMT DEF Byte
    <2> QED
      BY <2>1, PushIs DEF CellOf
  <1>2. InRam(top) /\ Cell(top) = top
    BY StackCell
  <1> HIDE DEF top
  <1>3. top \in DOMAIN Overlay(m.ram, top, w) /\ Overlay(m.ram, top, w)[top] = w
    BY <1>2 DEF Overlay
  <1>4. Push(m, w).ram = Overlay(m.ram, top, w)
    BY PushIs DEF top
  <1> QED
    BY <1>1, <1>3, <1>4 DEF Holds

LEMMA PullHolds ==
    ASSUME NEW m, m.sp \in Byte, NEW k \in Int, NEW d \in Int, NEW val, NEW n \in Int, NEW q,
           q.sp = (m.sp + n) % 256, q.ram = m.ram, Holds(m, k, d, val)
    PROVE  Holds(q, k - n, d, val)
  <1>1. CellOf(q, k - n, d) = CellOf(m, k, d)
    <2>1. (((m.sp + n) % 256) + (k - n) - d + 1) % 256 = (m.sp + k - d + 1) % 256
      BY SMT DEF Byte
    <2> QED
      BY <2>1 DEF CellOf
  <1> QED
    BY <1>1 DEF Holds

\* A frame outlives a push that does not reach it.
LEMMA PushKeepsFrame ==
    ASSUME NEW m, m.sp \in Byte, NEW k \in Int, NEW w, NEW f, Frame(f), Kept(m, k, f),
           k + 1 - 256 <= f.depth - Size(f)
    PROVE  Kept(Push(m, w), k + 1, f)
  <1> DEFINE dl == f.depth - Size(f) + 2
             dh == f.depth - Size(f) + 1
  <1>1. Size(f) \in {2, 3} /\ (f.handler => Size(f) = 3)
    BY SizeIs DEF Frame
  <1>2. f.depth \in Int /\ f.depth <= k
    BY DEF Frame, Kept
  <1>3. /\ dl \in Int /\ dl <= k /\ k - dl <= 254
        /\ dh \in Int /\ dh <= k /\ k - dh <= 254
        /\ k - f.depth <= 254
    BY <1>1, <1>2, SMT
  <1>4. Holds(Push(m, w), k + 1, dl, SavedPc(f) % 256)
    BY <1>3, PushKeeps DEF Kept
  <1>5. Holds(Push(m, w), k + 1, dh, Page(SavedPc(f)))
    BY <1>3, PushKeeps DEF Kept
  <1>6. f.handler => Holds(Push(m, w), k + 1, f.depth, SavedStatus(f))
    BY <1>2, <1>3, PushKeeps DEF Kept
  <1>7. f.depth <= k + 1
    BY <1>2, SMT
  <1> QED
    BY <1>4, <1>5, <1>6, <1>7 DEF Kept

\* A frame outlives a pull that does not take it.
LEMMA PullKeepsFrame ==
    ASSUME NEW m, m.sp \in Byte, NEW k \in Int, NEW n \in Nat, NEW q, NEW f, Frame(f),
           q.sp = (m.sp + n) % 256, q.ram = m.ram, Kept(m, k, f), f.depth <= k - n
    PROVE  Kept(q, k - n, f)
  <1> DEFINE dl == f.depth - Size(f) + 2
             dh == f.depth - Size(f) + 1
  <1>1. Size(f) \in {2, 3} /\ f.depth \in Int
    BY SizeIs DEF Frame
  <1>2. dl \in Int /\ dh \in Int
    BY <1>1, SMT
  <1>3. Holds(q, k - n, dl, SavedPc(f) % 256)
    BY <1>2, PullHolds DEF Kept
  <1>4. Holds(q, k - n, dh, Page(SavedPc(f)))
    BY <1>2, PullHolds DEF Kept
  <1>5. f.handler => Holds(q, k - n, f.depth, SavedStatus(f))
    BY <1>1, PullHolds DEF Kept
  <1>6. k - n - 256 <= f.depth - Size(f)
    BY <1>1, SMT DEF Kept
  <1> QED
    BY <1>3, <1>4, <1>5, <1>6 DEF Kept

-----------------------------------------------------------------------------
(* The steps keep the frames.                                              *)

LEMMA FramedAfter ==
    ASSUME NEW m, m = [sp |-> sp', ram |-> ram'], NEW k, depth' = k,
           \A f \in frames' : Frame(f) /\ Kept(m, k, f)
    PROVE  Framed'
  BY DEF Framed, Stack

LEMMA PushRecord ==
    ASSUME NEW m, NEW w
    PROVE  Push(m, w) = [sp |-> Push(m, w).sp, ram |-> Push(m, w).ram]
  BY DEF Push

LEMMA OnePushFramed ==
    ASSUME Typed, Framed, NEW val \in Byte, Pushed(Push(Stack, val), 1, {})
    PROVE  Framed'
  <1> DEFINE m == Push(Stack, val)
  <1>1. depth \in Int /\ Stack.sp \in Byte
    BY StackType DEF Typed
  <1>2. ASSUME NEW f \in frames, depth + 1 - 256 <= f.depth - Size(f)
        PROVE  Kept(m, depth + 1, f)
    BY <1>1, <1>2, PushKeepsFrame DEF Framed
  <1>3. m = [sp |-> m.sp, ram |-> m.ram]
    BY PushRecord
  <1>4. /\ m = [sp |-> sp', ram |-> ram'] /\ depth' = depth + 1
        /\ \A f \in frames' : f \in frames /\ depth + 1 - 256 <= f.depth - Size(f)
    BY <1>3 DEF Pushed
  <1> HIDE DEF m
  <1>5. \A f \in frames' : Frame(f) /\ Kept(m, depth + 1, f)
    BY <1>2, <1>4 DEF Framed
  <1> QED
    BY <1>4, <1>5, FramedAfter

\* Two bytes, or three: the stack after each of them.
LEMMA TwoPushesKeep ==
    ASSUME NEW m, m.sp \in Byte, RamType(m.ram), NEW k \in Int, NEW v \in Byte, NEW w,
           NEW f, Frame(f), Kept(m, k, f), k + 2 - 256 <= f.depth - Size(f)
    PROVE  Kept(Push(Push(m, v), w), k + 2, f)
  <1> DEFINE half == Push(m, v)
  <1>1. k + 1 - 256 <= f.depth - Size(f) /\ (k + 1) + 1 - 256 <= f.depth - Size(f)
    BY SizeIs, SMT DEF Frame
  <1>2. half.sp \in Byte
    BY PushType
  <1>3. Kept(half, k + 1, f)
    BY <1>1, PushKeepsFrame
  <1> HIDE DEF half
  <1>4. Kept(Push(half, w), (k + 1) + 1, f)
    BY <1>1, <1>2, <1>3, PushKeepsFrame
  <1>5. (k + 1) + 1 = k + 2
    BY SMT
  <1> QED
    BY <1>4, <1>5 DEF half

\* The two bytes of a word.
LEMMA WordPushed ==
    ASSUME NEW m, m.sp \in Byte, RamType(m.ram), NEW k \in Int, NEW word \in Address
    PROVE  /\ Holds(PushWord(m, word), k + 2, k + 2, word % 256)
           /\ Holds(PushWord(m, word), k + 2, k + 1, Page(word))
  <1> DEFINE half == Push(m, Page(word))
  <1>1. Page(word) \in Byte /\ word % 256 \in Byte
    BY BytesOfWord
  <1>2. half.sp \in Byte
    BY <1>1, PushType
  <1>3. Holds(half, k + 1, k + 1, Page(word))
    BY PushPuts
  <1> HIDE DEF half
  <1>4. /\ k + 1 \in Int /\ k + 1 <= k + 1 /\ (k + 1) - (k + 1) <= 254 /\ (k + 1) + 1 = k + 2
    BY SMT
  <1>5. Holds(Push(half, word % 256), k + 2, k + 1, Page(word))
    BY <1>2, <1>3, <1>4, PushKeeps
  <1>6. Holds(Push(half, word % 256), k + 2, k + 2, word % 256)
    BY <1>2, <1>4, PushPuts, ZenonT(60)
  <1> QED
    BY <1>5, <1>6 DEF PushWord, half

LEMMA JsrFramed ==
    ASSUME Typed, Framed, ExecuteJsr
    PROVE  Framed'
  <1> DEFINE last == (pc - 1) % 65536
             m    == PushWord(Stack, last)
             call == [handler |-> FALSE, brk |-> FALSE, depth |-> depth + 2, pc |-> pc,
                      status |-> {}]
  <1>1. depth \in Int /\ Stack.sp \in Byte /\ RamType(Stack.ram)
    BY StackType DEF Typed
  <1>2. last \in Address /\ pc \in Address
    BY AddressLimits, FitsAddress DEF Typed
  <1>3. SavedPc(call) = last
    BY SMT DEF SavedPc
  <1>4. /\ m = [sp |-> sp', ram |-> ram'] /\ depth' = depth + 2
        /\ \A f \in frames' : \/ f \in frames /\ depth + 2 - 256 <= f.depth - Size(f)
                              \/ f = call
    <2>1. Pushed(m, 2, {call})
      BY SMT DEF ExecuteJsr
    <2>2. m = [sp |-> m.sp, ram |-> m.ram]
      BY PushRecord DEF PushWord
    <2> HIDE DEF m, call
    <2> QED
      BY <2>1, <2>2 DEF Pushed
  <1> HIDE DEF last
  <1>5. Page(last) \in Byte
    BY <1>2, BytesOfWord
  <1>6. ASSUME NEW f \in frames, depth + 2 - 256 <= f.depth - Size(f)
        PROVE  Kept(m, depth + 2, f)
    BY <1>1, <1>5, <1>6, TwoPushesKeep DEF Framed, PushWord
  <1>7. Holds(m, depth + 2, depth + 2, last % 256) /\ Holds(m, depth + 2, depth + 1, Page(last))
    BY <1>1, <1>2, WordPushed
  <1> HIDE DEF m
  <1>8. /\ ~call.handler /\ call.handler \in BOOLEAN /\ call.brk \in BOOLEAN
        /\ call.depth = depth + 2 /\ call.pc = pc /\ Size(call) = 2
    BY DEF Size
  <1> HIDE DEF call
  <1>9. Frame(call)
    BY <1>1, <1>2, <1>8 DEF Frame
  <1>10. Kept(m, depth + 2, call)
    <2>1. /\ depth = call.depth - Size(call)
          /\ call.depth <= depth + 2 /\ depth + 2 - 256 <= depth
      BY <1>1, <1>8, SMT
    <2>2. call.handler => Holds(m, depth + 2, call.depth, SavedStatus(call))
      BY <1>8
    <2>3. /\ Holds(m, depth + 2, depth + 2, SavedPc(call) % 256)
          /\ Holds(m, depth + 2, depth + 1, Page(SavedPc(call)))
      BY <1>3, <1>7, Zenon
    <2> QED
      BY <2>1, <2>2, <2>3, KeptWhen
  <1>11. \A f \in frames' : Frame(f) /\ Kept(m, depth + 2, f)
    BY <1>4, <1>6, <1>9, <1>10 DEF Framed
  <1> QED
    BY <1>4, <1>11, FramedAfter

LEMMA EnterHandlerFramed ==
    ASSUME Typed, Framed, NEW return \in Address, NEW brk \in BOOLEAN, EnterHandler(return, brk)
    PROVE  Framed'
  <1> DEFINE word    == PushWord(Stack, return)
             m       == Push(word, PushedStatus(brk))
             handler == [handler |-> TRUE, brk |-> brk, depth |-> depth + 3, pc |-> return,
                         status |-> status]
  <1>1. depth \in Int /\ Stack.sp \in Byte /\ RamType(Stack.ram) /\ status \in Statuses
    BY StackType, RegisterTypes DEF Typed
  <1>2. Page(return) \in Byte /\ return % 256 \in Byte
    BY BytesOfWord
  <1>3. word.sp \in Byte /\ RamType(word.ram)
    BY <1>1, PushWordType
  <1>4. PushedStatus(brk) \in Byte /\ SavedStatus(handler) = PushedStatus(brk)
    BY PushedStatusType DEF SavedStatus, PushedStatus
  <1>5. /\ m = [sp |-> sp', ram |-> ram'] /\ depth' = depth + 3
        /\ \A f \in frames' : \/ f \in frames /\ depth + 3 - 256 <= f.depth - Size(f)
                              \/ f = handler
    <2>1. Pushed(m, 3, {handler})
      BY DEF EnterHandler
    <2>2. m = [sp |-> m.sp, ram |-> m.ram]
      BY PushRecord
    <2> HIDE DEF m, handler
    <2> QED
      BY <2>1, <2>2 DEF Pushed
  <1>6. /\ Holds(word, depth + 2, depth + 2, return % 256)
        /\ Holds(word, depth + 2, depth + 1, Page(return))
    BY <1>1, WordPushed
  <1>7. ASSUME NEW f \in frames, depth + 3 - 256 <= f.depth - Size(f)
        PROVE  Kept(m, depth + 3, f)
    <2>1. Frame(f) /\ Kept(Stack, depth, f)
      BY DEF Framed
    <2>2. /\ depth + 2 - 256 <= f.depth - Size(f) /\ (depth + 2) + 1 - 256 <= f.depth - Size(f)
          /\ depth + 2 \in Int /\ (depth + 2) + 1 = depth + 3
      BY <1>1, <1>7, <2>1, SizeIs, SMT DEF Frame
    <2>3. Kept(word, depth + 2, f)
      BY <1>1, <1>2, <2>1, <2>2, TwoPushesKeep DEF PushWord
    <2> HIDE DEF word
    <2> QED
      BY <1>3, <2>1, <2>2, <2>3, PushKeepsFrame
  <1> HIDE DEF word
  <1>8. /\ Holds(m, depth + 3, depth + 2, return % 256)
        /\ Holds(m, depth + 3, depth + 1, Page(return))
        /\ Holds(m, depth + 3, depth + 3, PushedStatus(brk))
    <2>1. /\ depth + 2 \in Int /\ depth + 1 \in Int /\ (depth + 2) + 1 = depth + 3
          /\ depth + 2 <= depth + 2 /\ depth + 1 <= depth + 2
          /\ (depth + 2) - (depth + 2) <= 254 /\ (depth + 2) - (depth + 1) <= 254
      BY <1>1, SMT
    <2>2. Holds(m, depth + 3, depth + 2, return % 256)
      BY <1>3, <1>6, <2>1, PushKeeps
    <2>3. Holds(m, depth + 3, depth + 1, Page(return))
      BY <1>3, <1>6, <2>1, PushKeeps
    <2>4. Holds(m, depth + 3, depth + 3, PushedStatus(brk))
      BY <1>3, <2>1, PushPuts
    <2> QED
      BY <2>2, <2>3, <2>4
  <1> HIDE DEF m
  <1>9. /\ handler.handler \in BOOLEAN /\ handler.brk \in BOOLEAN /\ handler.depth = depth + 3
         /\ handler.pc = return /\ handler.status = status /\ Size(handler) = 3
         /\ SavedPc(handler) = return
    BY SMT DEF Size, SavedPc
  <1> HIDE DEF handler
  <1>10. Frame(handler)
    BY <1>1, <1>9 DEF Frame
  <1>11. Kept(m, depth + 3, handler)
    <2>1. /\ depth = handler.depth - Size(handler)
          /\ handler.depth <= depth + 3 /\ depth + 3 - 256 <= depth
      BY <1>1, <1>9, SMT
    <2>2. /\ Holds(m, depth + 3, depth + 2, SavedPc(handler) % 256)
          /\ Holds(m, depth + 3, depth + 1, Page(SavedPc(handler)))
          /\ Holds(m, depth + 3, handler.depth, SavedStatus(handler))
      BY <1>4, <1>8, <1>9, Zenon
    <2> QED
      BY <2>1, <2>2, KeptWhen
  <1>12. \A f \in frames' : Frame(f) /\ Kept(m, depth + 3, f)
    BY <1>5, <1>7, <1>10, <1>11 DEF Framed
  <1> QED
    BY <1>5, <1>12, FramedAfter

LEMMA PulledFramed ==
    ASSUME Typed, Framed, NEW n \in Nat, Pulled(n)
    PROVE  Framed'
  <1> DEFINE q == [sp |-> sp', ram |-> ram']
  <1>1. depth \in Int /\ Stack.sp \in Byte
    BY StackType DEF Typed
  <1>2. q.sp = (Stack.sp + n) % 256 /\ q.ram = Stack.ram /\ depth' = depth - n
    BY DEF Pulled, Stack
  <1> HIDE DEF q
  <1>3. \A f \in frames' : f \in frames /\ f.depth <= depth - n
    BY DEF Pulled
  <1>4. \A f \in frames' : Frame(f) /\ Kept(q, depth - n, f)
    <2> TAKE f \in frames'
    <2>1. Frame(f) /\ Kept(Stack, depth, f) /\ f.depth <= depth - n
      BY <1>3 DEF Framed
    <2> QED
      BY <1>1, <1>2, <2>1, PullKeepsFrame
  <1> QED
    BY <1>2, <1>4, FramedAfter DEF q

\* A store beside the stack page leaves every frame.
LEMMA StoredFramed ==
    ASSUME Typed, Framed, NEW ad \in Address, NEW val \in Byte, StoredAt(ad, val)
    PROVE  Framed'
  <1> DEFINE q == [sp |-> sp', ram |-> ram']
  <1>1. q.sp = sp /\ q.ram = Overlay(ram, ad, val) /\ depth' = depth
    BY DEF StoredAt
  <1>2. Stack.sp = sp /\ Stack.ram = ram /\ sp \in Byte /\ depth \in Int
    BY RegisterTypes DEF Stack, Typed
  <1> HIDE DEF q
  <1>3. CASE InRam(ad) /\ Page(Cell(ad)) = 1
    <2>1. frames' = {}
      BY <1>3 DEF StoredAt
    <2> QED
      BY <2>1 DEF Framed
  <1>4. CASE ~(InRam(ad) /\ Page(Cell(ad)) = 1)
    <2>1. frames' = frames
      BY <1>4 DEF StoredAt
    <2>2. ASSUME NEW d \in Int, NEW v, Holds(Stack, depth, d, v)
          PROVE  Holds(q, depth, d, v)
      <3> DEFINE c == CellOf(Stack, depth, d)
      <3>1. (sp + depth - d + 1) % 256 \in Byte
        BY <1>2, SMT DEF Byte
      <3>2. Page(c) = 1
        BY <1>2, <3>1, StackCell DEF CellOf
      <3>3. CellOf(q, depth, d) = c
        BY <1>1, <1>2 DEF CellOf
      <3>4. c \in DOMAIN ram /\ ram[c] = v
        BY <1>2, <2>2 DEF Holds
      <3> HIDE DEF c
      <3>5. c \in DOMAIN Overlay(ram, ad, val) /\ Overlay(ram, ad, val)[c] = v
        BY <1>4, <3>2, <3>4 DEF Overlay
      <3> QED
        BY <1>1, <3>3, <3>5 DEF Holds
    <2>3. \A f \in frames : Frame(f) /\ Kept(q, depth, f)
      <3> TAKE f \in frames
      <3>1. Frame(f) /\ Kept(Stack, depth, f)
        BY DEF Framed
      <3>2. f.depth \in Int /\ f.depth - Size(f) + 2 \in Int /\ f.depth - Size(f) + 1 \in Int
        BY <3>1, SizeIs, SMT DEF Frame
      <3> QED
        BY <2>2, <3>1, <3>2 DEF Kept
    <2> QED
      BY <1>1, <2>1, <2>3, FramedAfter DEF q
  <1> QED
    BY <1>3, <1>4

LEMMA SameFramed ==
    ASSUME Framed, UNCHANGED <<stack, ram>>
    PROVE  Framed'
  BY DEF Framed, stack, Stack

LEMMA ExecuteFramed ==
    ASSUME Typed, Framed, Execute
    PROVE  Framed'
  <1>1. CASE ExecuteRead \/ ExecuteAccumulator \/ ExecuteInternal \/ ExecuteBranch \/ ExecuteJmp
    <2>1. UNCHANGED <<stack, ram>>
      BY <1>1 DEF ExecuteRead, ExecuteAccumulator, ExecuteInternal, ExecuteBranch, ExecuteJmp
    <2> QED
      BY <2>1, SameFramed
  <1>2. CASE ExecuteModify
    <2>1. PICK val \in Mem(addr) : StoredAt(addr, Written(info.opcode, R, val))
      BY <1>2 DEF ExecuteModify
    <2>2. Written(info.opcode, R, val) \in Byte
      BY <1>2, MemType, WrittenType DEF Typed, ExecuteModify
    <2> QED
      BY <2>1, <2>2, StoredFramed DEF Typed
  <1>3. CASE ExecuteStore
    <2>1. PICK ad \in Address, val \in Byte : StoredAt(ad, val)
      BY <1>3, StoreIs
    <2> QED
      BY <2>1, StoredFramed
  <1>4. CASE ExecuteTxs
    BY <1>4 DEF ExecuteTxs, Framed
  <1>5. CASE ExecutePush
    <2>1. PICK val \in Byte : Pushed(Push(Stack, val), 1, {})
      BY <1>5, RegisterTypes, PushedStatusType DEF ExecutePush
    <2> QED
      BY <2>1, OnePushFramed
  <1>6. CASE ExecutePull \/ ExecuteRts \/ ExecuteRti
    <2>1. Pulled(1) \/ Pulled(2) \/ Pulled(3)
      BY <1>6 DEF ExecutePull, ExecuteRts, ExecuteRti
    <2> QED
      BY <2>1, PulledFramed
  <1>7. CASE ExecuteJsr
    BY <1>7, JsrFramed
  <1>8. CASE ExecuteBrk
    <2>1. Next1 \in Address
      BY AddressPlus DEF Typed, Next1
    <2> QED
      BY <1>8, <2>1, EnterHandlerFramed DEF ExecuteBrk
  <1> QED
    BY <1>1, <1>2, <1>3, <1>4, <1>5, <1>6, <1>7, <1>8 DEF Execute

LEMMA NextFramed ==
    ASSUME Typed, Framed, [Next]_vars
    PROVE  Framed'
  <1>1. CASE Execute
    BY <1>1, ExecuteFramed
  <1>2. CASE Nmi \/ Irq
    <2>1. EnterHandler(pc, FALSE) /\ pc \in Address
      BY <1>2 DEF Nmi, Irq, Typed
    <2> QED
      BY <2>1, EnterHandlerFramed
  <1>3. CASE Fetch \/ ResolveAddr \/ Idle \/ NoNmi \/ NoIrq \/ UNCHANGED vars
    <2>1. UNCHANGED <<stack, ram>>
      BY <1>3 DEF Fetch, ResolveAddr, Idle, NoNmi, NoIrq, vars
    <2> QED
      BY <2>1, SameFramed
  <1> QED
    BY <1>1, <1>2, <1>3 DEF Next

LEMMA AlwaysFramed == Spec => [](Typed /\ Framed)
  <1>1. Init => Framed
    BY DEF Init, Framed
  <1>2. Typed /\ Framed /\ [Next]_vars => Framed'
    BY NextFramed
  <1> QED
    BY <1>1, <1>2, AlwaysTyped, PTL DEF Spec

-----------------------------------------------------------------------------
(* What a handler and what follows a call find.                            *)

\* A byte of the stack is the one that was pushed.
LEMMA TopIs ==
    ASSUME Typed, NEW i \in Nat, NEW val, Holds(Stack, depth, depth + 1 - i, val)
    PROVE  Top(i) = {val}
  <1> DEFINE c == StackPage + ((sp + i) % 256)
  <1>1. sp \in Byte /\ depth \in Int
    BY RegisterTypes DEF Typed
  <1>2. (sp + i) % 256 \in Byte /\ sp + depth - (depth + 1 - i) + 1 = sp + i
    BY <1>1, SMT DEF Byte
  <1>3. InRam(c) /\ Cell(c) = c
    BY <1>2, StackCell
  <1>4. c \in DOMAIN ram /\ ram[c] = val
    BY <1>2 DEF Holds, CellOf, Stack
  <1> HIDE DEF c
  <1>5. Mem(c) = {val}
    BY <1>3, <1>4 DEF Mem
  <1> QED
    BY <1>5 DEF Top, c

\* The status comes back as it was, BREAK and all.
LEMMA StatusComesBack ==
    ASSUME NEW f, Frame(f), f.handler
    PROVE  /\ PulledStatus(SavedStatus(f)) = f.status
           /\ ("BREAK" \in FromBits(SavedStatus(f))) = f.brk
  <1> DEFINE s == Set(Set(f.status, "BREAK", f.brk), "UNUSED", TRUE)
  <1>1. f.status \subseteq Flags /\ "UNUSED" \in f.status /\ "BREAK" \notin f.status /\ f.brk \in BOOLEAN
    BY DEF Frame, Statuses
  <1>2. s = IF f.brk THEN f.status \cup {"BREAK"} ELSE f.status
    BY <1>1 DEF Set
  <1>3. s \subseteq Flags
    BY <1>1, <1>2, BitValues
  <1>4. FromBits(SavedStatus(f)) = s
    BY <1>3, FlagsOfBits DEF SavedStatus
  <1> HIDE DEF s
  <1>5. Set(Set(s, "BREAK", FALSE), "UNUSED", TRUE) = f.status
    BY <1>1, <1>2 DEF Set
  <1>6. ("BREAK" \in s) = f.brk
    BY <1>1, <1>2
  <1> QED
    BY <1>4, <1>5, <1>6 DEF PulledStatus

LEMMA FramesTell ==
    ASSUME Typed, Framed
    PROVE  BreakFlagTells
  <1> SUFFICES ASSUME NEW f \in frames, f.handler
               PROVE  ("BREAK" \in FromBits(ram[StackPage + ((sp + depth - f.depth + 1) % 256)])) = f.brk
    BY DEF BreakFlagTells
  <1>1. Frame(f) /\ Holds(Stack, depth, f.depth, SavedStatus(f))
    BY DEF Framed, Kept
  <1>2. ram[StackPage + ((sp + depth - f.depth + 1) % 256)] = SavedStatus(f)
    BY <1>1 DEF Holds, CellOf, Stack
  <1> QED
    BY <1>1, <1>2, StatusComesBack

LEMMA RtiStep ==
    ASSUME Typed, Framed, ExecuteRti, NEW f \in frames, f.depth = depth, f.handler
    PROVE  pc' = f.pc /\ status' = f.status
  <1>1. Frame(f) /\ Kept(Stack, depth, f) /\ Size(f) = 3 /\ depth \in Int
    BY SizeIs DEF Framed, Frame, Typed
  <1>2. SavedPc(f) = f.pc /\ f.pc \in Address
    <2>1. f.pc \in Address
      BY <1>1 DEF Frame
    <2> QED
      BY <2>1, SMT DEF SavedPc
  <1>3. /\ f.depth = depth + 1 - 1 /\ f.depth - Size(f) + 2 = depth + 1 - 2
        /\ f.depth - Size(f) + 1 = depth + 1 - 3
    BY <1>1, SMT
  <1>4. /\ Holds(Stack, depth, depth + 1 - 1, SavedStatus(f))
        /\ Holds(Stack, depth, depth + 1 - 2, f.pc % 256)
        /\ Holds(Stack, depth, depth + 1 - 3, Page(f.pc))
    BY <1>1, <1>2, <1>3 DEF Kept
  <1>5. Top(1) = {SavedStatus(f)} /\ Top(2) = {f.pc % 256} /\ Top(3) = {Page(f.pc)}
    BY <1>4, TopIs
  <1>6. status' = f.status
    <2>1. Become([R EXCEPT !.status = PulledStatus(SavedStatus(f))])
      BY <1>5 DEF ExecuteRti
    <2>2. status' = PulledStatus(SavedStatus(f))
      BY <2>1 DEF Become, R
    <2> QED
      BY <1>1, <2>2, StatusComesBack
  <1>7. pc' = f.pc
    <2>1. pc' = Word(Page(f.pc), f.pc % 256)
      BY <1>5 DEF ExecuteRti
    <2> QED
      BY <1>2, <2>1, BytesOfWord
  <1> QED
    BY <1>6, <1>7

LEMMA RtsStep ==
    ASSUME Typed, Framed, ExecuteRts, NEW f \in frames, f.depth = depth, ~f.handler
    PROVE  pc' = f.pc
  <1> DEFINE last == (f.pc - 1) % 65536
  <1>1. Frame(f) /\ Kept(Stack, depth, f) /\ Size(f) = 2 /\ depth \in Int
    BY SizeIs DEF Framed, Frame, Typed
  <1>2. SavedPc(f) = last /\ f.pc \in Address
    <2>1. f.pc \in Address
      BY <1>1 DEF Frame
    <2> QED
      BY <2>1, SMT DEF SavedPc
  <1>3. f.pc \in Nat /\ f.pc < 65536 /\ last \in Address
    BY <1>2, AddressLimits, FitsAddress
  <1>4. (last + 1) % 65536 = f.pc
    BY <1>3, SMT
  <1> HIDE DEF last
  <1>5. f.depth - Size(f) + 2 = depth + 1 - 1 /\ f.depth - Size(f) + 1 = depth + 1 - 2
    BY <1>1, SMT
  <1>6. /\ Holds(Stack, depth, depth + 1 - 1, last % 256)
        /\ Holds(Stack, depth, depth + 1 - 2, Page(last))
    BY <1>1, <1>2, <1>5 DEF Kept
  <1>7. Top(1) = {last % 256} /\ Top(2) = {Page(last)}
    BY <1>6, TopIs
  <1>8. PICK lo \in Top(1), hi \in Top(2) : pc' = (Word(hi, lo) + 1) % 65536
    BY DEF ExecuteRts
  <1>9. lo = last % 256 /\ hi = Page(last)
    BY <1>7
  <1> QED
    BY <1>3, <1>4, <1>8, <1>9, BytesOfWord

LEMMA ReturnStep ==
    ASSUME Typed, Framed, Execute, NEW f \in frames, f.depth = depth
    PROVE  /\ info.opcode = "RTI" /\ f.handler => pc' = f.pc /\ status' = f.status
           /\ info.opcode = "RTS" /\ ~f.handler => pc' = f.pc
  <1>1. ASSUME info.opcode \in {"RTI", "RTS"}
        PROVE  (info.opcode = "RTI" => ExecuteRti) /\ (info.opcode = "RTS" => ExecuteRts)
    <2>1. /\ info.opcode \notin ReadOpcodes /\ info.opcode \notin ModifyOpcodes
          /\ info.opcode \notin InternalOpcodes /\ info.opcode \notin BranchOpcodes
          /\ info.opcode \notin ShiftOpcodes
      BY <1>1 DEF ReadOpcodes, ModifyOpcodes, InternalOpcodes, BranchOpcodes, ShiftOpcodes
    <2>2. info.mode # "Accumulator"
      BY <2>1, TableFits DEF Typed, Fits
    <2> QED
      BY <1>1, <2>1, <2>2, OpcodesOf DEF Execute
  <1> QED
    BY <1>1, RtiStep, RtsStep

\* However calls, interrupts, pushes and stores are nested, every RTI at the
\* level of its handler continues the interrupted program with its flags, every
\* RTS behind its call, and a handler reads off the stack what entered it: for
\* every program, up to the bytes that a full stack page overwrites.
THEOREM EveryHandlerReturns == Spec => HandlersReturn
  <1>1. Typed /\ Framed => BreakFlagTells
    BY FramesTell
  <1>2. Typed /\ Framed /\ [Next]_vars =>
          [ at = "execute" =>
              \A f \in frames : f.depth = depth =>
                /\ info.opcode = "RTI" /\ f.handler => pc' = f.pc /\ status' = f.status
                /\ info.opcode = "RTS" /\ ~f.handler => pc' = f.pc ]_vars
    <2> SUFFICES ASSUME Typed, Next, at = "execute"
                 PROVE  Execute
      BY ReturnStep
    <2> QED
      BY DEF Next, Fetch, ResolveAddr, Idle, Nmi, NoNmi, Irq, NoIrq
  <1> QED
    BY <1>1, <1>2, AlwaysFramed, PTL DEF Spec, HandlersReturn

=============================================================================
