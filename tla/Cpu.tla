-------------------------------- MODULE Cpu --------------------------------
(***************************************************************************)
(* One instruction after another (src/src/cpu/mod.rs, opcodes.rs): fetch,  *)
(* operand address, effect, idle cycles, interrupts.  Bytes and addresses  *)
(* have their real width; every bus access is one cycle.  A read finds what *)
(* the CPU has written to its RAM, and elsewhere (ROM, registers, RAM that *)
(* has not been written) any of the program's values.                      *)
(***************************************************************************)
EXTENDS Integers, Functions

CONSTANT
    Programs  \* programs, by name: [opcodes: its instructions, values: the bytes
              \* it finds in memory, regs, flags, sps: what its registers start
              \* with, pcs: the bytes of where it starts and of the vectors,
              \* steps: instructions it runs, interrupts: whether any arrive]

Byte == 0 .. 255
Word(hi, lo) == hi * 256 + lo
Address == 0 .. Word(255, 255)
Bit == [CARRY |-> 1, ZERO |-> 2, IRQ_DIS |-> 4, DECIMAL |-> 8, BREAK |-> 16,
        UNUSED |-> 32, OVERFLOW |-> 64, NEGATIVE |-> 128]
Flags == DOMAIN Bit

ASSUME ProgramsAssumption ==
    \A p \in DOMAIN Programs :
      /\ Programs[p].values \cup Programs[p].regs \cup Programs[p].sps
             \cup Programs[p].pcs \subseteq Byte
      /\ Programs[p].flags \subseteq Flags \ {"BREAK"}
      /\ Programs[p].steps \in Nat /\ Programs[p].interrupts \in BOOLEAN

VARIABLES
    a, x, y, sp, pc,
    status,    \* the set of flags that are set
    ram,       \* what the CPU has written, by address
    at,        \* where Cpu::step is
    info,      \* the instruction's row of the table
    addr, page_crossed,
    extra,     \* cycles beyond info.cycles
    consumed,  \* bus cycles since the instruction began
    program, steps,
    depth,     \* history: bytes on the stack
    frames     \* history: the calls and handlers that can still return

registers == <<a, x, y, status>>
stack == <<sp, depth, frames>>
operand == <<info, addr, page_crossed>>
vars == <<registers, stack, pc, ram, at, operand, extra, consumed, program, steps>>

-----------------------------------------------------------------------------
(* Flags.                                                                   *)

\* CpuFlags::bits and CpuFlags::from_bits_truncate.
Weight(s, flag) == IF flag \in s THEN Bit[flag] ELSE 0
Bits(s) ==
    Weight(s, "CARRY") + Weight(s, "ZERO") + Weight(s, "IRQ_DIS") + Weight(s, "DECIMAL")
    + Weight(s, "BREAK") + Weight(s, "UNUSED") + Weight(s, "OVERFLOW") + Weight(s, "NEGATIVE")
FromBits(val) == {f \in Flags : (val \div Bit[f]) % 2 = 1}

\* Of the low bytes of two numbers; the bits go by the names of the flags.
And(m, n) == Bits(FromBits(m) \cap FromBits(n))
Or(m, n)  == Bits(FromBits(m) \cup FromBits(n))
Xor(m, n) == Bits((FromBits(m) \cup FromBits(n)) \ (FromBits(m) \cap FromBits(n)))

Set(s, flag, on) == IF on THEN s \cup {flag} ELSE s \ {flag}
SetZN(s, val) == Set(Set(s, "ZERO", val = 0), "NEGATIVE", val >= 128)
Carry(s) == IF "CARRY" \in s THEN 1 ELSE 0

Page(ad) == ad \div 256
Signed(val) == IF val >= 128 THEN val - 256 ELSE val

-----------------------------------------------------------------------------
(* The instruction table.  Rows of one kind differ only in their opcodes.   *)

Rows(opcodes, cycles, crossing) ==
    {[opcode |-> o, mode |-> m, cycles |-> cycles[m], extra_cycle |-> m \in crossing] :
        o \in opcodes, m \in DOMAIN cycles}

Crossing == {"AbsoluteX", "AbsoluteY", "IndirectY"}
LoadCycles == [Immediate |-> 2, ZeroPage |-> 3, ZeroPageX |-> 4, ZeroPageY |-> 4,
               Absolute |-> 4, AbsoluteX |-> 4, AbsoluteY |-> 4, IndirectX |-> 6,
               IndirectY |-> 5]
StoreCycles == [LoadCycles EXCEPT !["AbsoluteX"] = 5, !["AbsoluteY"] = 5, !["IndirectY"] = 6]
RmwCycles == [ZeroPage |-> 5, ZeroPageX |-> 6, Absolute |-> 6, AbsoluteX |-> 7]
Loads(opcodes, without) ==
    Rows(opcodes, Restrict(LoadCycles, DOMAIN LoadCycles \ without), Crossing)
Accumulator(opcodes) == Loads(opcodes, {"ZeroPageY"})
Implicit(opcodes, n) == Rows(opcodes, [Implicit |-> n], {})
Immediate(opcodes) == Rows(opcodes, [Immediate |-> 2], {})
Stores(opcodes, modes) == Rows(opcodes, Restrict(StoreCycles, modes), {})
Branches(opcodes) == Rows(opcodes, [Relative |-> 2], {})

\* Mutant: a combined instruction through a pointer is as fast as a load.
RmwCombinedFast(opcodes) ==
    Rows(opcodes, [ZeroPage |-> 5, ZeroPageX |-> 6, Absolute |-> 6, AbsoluteX |-> 7,
                   AbsoluteY |-> 7, IndirectX |-> 6, IndirectY |-> 6], {})
RmwCombined(opcodes) ==
    Rows(opcodes, [ZeroPage |-> 5, ZeroPageX |-> 6, Absolute |-> 6, AbsoluteX |-> 7,
                   AbsoluteY |-> 7, IndirectX |-> 8, IndirectY |-> 8], {})

Table00to7F ==
    Accumulator({"ORA", "AND", "EOR", "ADC"})
    \cup Rows({"ASL", "ROL", "LSR", "ROR"}, RmwCycles, {})
    \cup Rows({"ASL", "ROL", "LSR", "ROR"}, [Accumulator |-> 2], {})
    \cup RmwCombined({"SLO", "RLA", "SRE", "RRA"})
    \cup Rows({"BIT"}, [ZeroPage |-> 3, Absolute |-> 4], {})
    \cup Immediate({"ANC", "ALR", "ARR"})
    \cup Branches({"BPL", "BMI", "BVC", "BVS"})
    \cup Rows({"JMP"}, [Absolute |-> 3, Indirect |-> 5], {})
    \cup Rows({"JSR"}, [Absolute |-> 6], {})
    \cup Implicit({"BRK"}, 7) \cup Implicit({"RTI", "RTS"}, 6)
    \cup Implicit({"PHP", "PHA"}, 3) \cup Implicit({"PLP", "PLA"}, 4)
    \cup Implicit({"CLC", "SEC", "CLI", "SEI", "NOP", "XXX"}, 2)
    \cup Loads({"NOP"}, {"Immediate", "ZeroPageY", "AbsoluteY", "IndirectX", "IndirectY"})

Table80to9F ==
    Stores({"STA"}, DOMAIN StoreCycles \ {"Immediate", "ZeroPageY"})
    \cup Stores({"STX", "SAX"}, {"ZeroPage", "ZeroPageY", "Absolute"})
    \cup Stores({"SAX"}, {"IndirectX"})
    \cup Stores({"STY"}, {"ZeroPage", "ZeroPageX", "Absolute"})
    \cup Stores({"SHY"}, {"AbsoluteX"}) \cup Stores({"SHX"}, {"AbsoluteY"})
    \cup Stores({"XXX"}, {"AbsoluteY", "IndirectY"})
    \cup Immediate({"NOP", "XXX"}) \cup Branches({"BCC"})
    \cup Implicit({"DEY", "TXA", "TYA", "TXS", "XXX"}, 2)

TableA0toBF ==
    Accumulator({"LDA"})
    \cup Loads({"LAX"}, {"ZeroPageX", "AbsoluteX"})
    \cup Loads({"LDX"}, {"ZeroPageX", "AbsoluteX", "IndirectX", "IndirectY"})
    \cup Loads({"LDY"}, {"ZeroPageY", "AbsoluteY", "IndirectX", "IndirectY"})
    \cup Rows({"XXX"}, [AbsoluteY |-> 4], Crossing)
    \cup Branches({"BCS"}) \cup Implicit({"TAY", "TAX", "CLV", "TSX", "XXX"}, 2)

TableC0toFF ==
    Accumulator({"CMP", "SBC"})
    \cup Loads({"CPX", "CPY"}, {"ZeroPageX", "ZeroPageY", "AbsoluteX", "AbsoluteY",
                                "IndirectX", "IndirectY"})
    \cup Rows({"INC", "DEC"}, RmwCycles, {}) \cup RmwCombined({"DCP", "ISC"})
    \cup Immediate({"SBX", "NOP"}) \cup Branches({"BNE", "BEQ"})
    \cup Implicit({"INY", "DEX", "INX", "CLD", "SED", "NOP", "XXX"}, 2)
    \cup Loads({"NOP"}, {"Immediate", "ZeroPage", "ZeroPageY", "Absolute", "AbsoluteY",
                         "IndirectX", "IndirectY"})

Table == Table00to7F \cup Table80to9F \cup TableA0toBF \cup TableC0toFF

-----------------------------------------------------------------------------
(* What an instruction makes of its operand.  r is [a, x, y, status].       *)

\* Mutant: the overflow test forgets that the operands must have one sign.
AddWithCarryWrongSign(r, m) ==
    LET sum == r.a + m + Carry(r.status)
    IN [r EXCEPT !.a = sum % 256,
                 !.status = SetZN(Set(Set(@, "CARRY", sum > 255),
                                      "OVERFLOW", And(Xor(r.a, sum), 128) # 0), sum % 256)]

AddWithCarry(r, m) ==
    LET sum == r.a + m + Carry(r.status)
        overflow == And(Xor(r.a, m), 128) = 0 /\ And(Xor(r.a, sum), 128) # 0
    IN [r EXCEPT !.a = sum % 256,
                 !.status = SetZN(Set(Set(@, "CARRY", sum > 255), "OVERFLOW", overflow),
                                  sum % 256)]

Compare(r, reg, val) ==
    [r EXCEPT !.status = SetZN(Set(@, "CARRY", reg >= val), (reg - val) % 256)]

InA(r, val) == [r EXCEPT !.a = val, !.status = SetZN(@, val)]
InX(r, val) == [r EXCEPT !.x = val, !.status = SetZN(@, val)]
InY(r, val) == [r EXCEPT !.y = val, !.status = SetZN(@, val)]

\* ARR: the carry and overflow flags come from bits 6 and 5 of the result.
AndRotate(r, val) ==
    LET out == And(r.a, val) \div 2 + 128 * Carry(r.status)
        bit5 == (out \div 32) % 2
        bit6 == (out \div 64) % 2
    IN [InA(r, out) EXCEPT !.status = Set(Set(@, "CARRY", bit6 = 1), "OVERFLOW", bit5 # bit6)]

ReadOpcodes == {"LDA", "LDX", "LDY", "LAX", "ADC", "SBC", "AND", "ORA", "EOR", "BIT",
                "CMP", "CPX", "CPY", "ANC", "ALR", "ARR", "SBX"}

Read(opcode, r, val) ==
    CASE opcode = "LDA" -> InA(r, val)
      [] opcode = "LDX" -> InX(r, val)
      [] opcode = "LDY" -> InY(r, val)
      [] opcode = "LAX" -> InX(InA(r, val), val)
      [] opcode = "ADC" -> AddWithCarry(r, val)
      [] opcode = "SBC" -> AddWithCarry(r, Xor(val, 255))
      [] opcode = "AND" -> InA(r, And(r.a, val))
      [] opcode = "ORA" -> InA(r, Or(r.a, val))
      [] opcode = "EOR" -> InA(r, Xor(r.a, val))
      [] opcode = "BIT" ->
           [r EXCEPT !.status = Set(Set(Set(@, "ZERO", And(r.a, val) = 0),
                                "OVERFLOW", And(val, 64) # 0), "NEGATIVE", val >= 128)]
      [] opcode = "CMP" -> Compare(r, r.a, val)
      [] opcode = "CPX" -> Compare(r, r.x, val)
      [] opcode = "CPY" -> Compare(r, r.y, val)
      [] opcode = "ANC" ->
           [InA(r, And(r.a, val)) EXCEPT !.status = Set(@, "CARRY", And(r.a, val) >= 128)]
      [] opcode = "ALR" ->
           InA([r EXCEPT !.status = Set(@, "CARRY", And(r.a, val) % 2 = 1)], And(r.a, val) \div 2)
      [] opcode = "ARR" -> AndRotate(r, val)
      [] opcode = "SBX" ->
           [Compare(r, And(r.a, r.x), val) EXCEPT !.x = (And(r.a, r.x) - val) % 256]

ModifyOpcodes == {"INC", "DEC", "ASL", "LSR", "ROL", "ROR",
                  "DCP", "ISC", "SLO", "RLA", "SRE", "RRA"}

\* What a read-modify-write instruction writes back, and the carry it leaves.
Written(opcode, r, val) ==
    CASE opcode \in {"INC", "ISC"} -> (val + 1) % 256
      [] opcode \in {"DEC", "DCP"} -> (val - 1) % 256
      [] opcode \in {"ASL", "SLO"} -> (val * 2) % 256
      [] opcode \in {"ROL", "RLA"} -> ((val * 2) % 256) + Carry(r.status)
      [] opcode \in {"LSR", "SRE"} -> val \div 2
      [] opcode \in {"ROR", "RRA"} -> val \div 2 + 128 * Carry(r.status)

ShiftedOut(opcode, r, val) ==
    CASE opcode \in {"ASL", "SLO", "ROL", "RLA"} -> Set(r.status, "CARRY", val >= 128)
      [] opcode \in {"LSR", "SRE", "ROR", "RRA"} -> Set(r.status, "CARRY", val % 2 = 1)
      [] OTHER -> r.status

\* Mutant: RRA adds the carry of before its rotation.
ModifyOldCarry(opcode, r, val) ==
    LET out == Written(opcode, r, val)
        shifted == [r EXCEPT !.status = ShiftedOut(opcode, r, val)]
    IN CASE opcode = "DCP" -> Compare(shifted, r.a, out)
         [] opcode = "ISC" -> AddWithCarry(shifted, Xor(out, 255))
         [] opcode = "SLO" -> InA(shifted, Or(r.a, out))
         [] opcode = "RLA" -> InA(shifted, And(r.a, out))
         [] opcode = "SRE" -> InA(shifted, Xor(r.a, out))
         [] opcode = "RRA" -> AddWithCarry(r, out)
         [] OTHER -> [shifted EXCEPT !.status = SetZN(@, out)]

Modify(opcode, r, val) ==
    LET out == Written(opcode, r, val)
        shifted == [r EXCEPT !.status = ShiftedOut(opcode, r, val)]
    IN CASE opcode = "DCP" -> Compare(shifted, r.a, out)
         [] opcode = "ISC" -> AddWithCarry(shifted, Xor(out, 255))
         [] opcode = "SLO" -> InA(shifted, Or(r.a, out))
         [] opcode = "RLA" -> InA(shifted, And(r.a, out))
         [] opcode = "SRE" -> InA(shifted, Xor(r.a, out))
         [] opcode = "RRA" -> AddWithCarry(shifted, out)
         [] OTHER -> [shifted EXCEPT !.status = SetZN(@, out)]

\* Instructions on registers alone.
Internal(opcode, r) ==
    CASE opcode = "TAX" -> InX(r, r.a)
      [] opcode = "TAY" -> InY(r, r.a)
      [] opcode = "TXA" -> InA(r, r.x)
      [] opcode = "TYA" -> InA(r, r.y)
      [] opcode = "TSX" -> InX(r, sp)
      [] opcode = "INX" -> InX(r, (r.x + 1) % 256)
      [] opcode = "INY" -> InY(r, (r.y + 1) % 256)
      [] opcode = "DEX" -> InX(r, (r.x - 1) % 256)
      [] opcode = "DEY" -> InY(r, (r.y - 1) % 256)
      [] opcode = "SEC" -> [r EXCEPT !.status = Set(@, "CARRY", TRUE)]
      [] opcode = "CLC" -> [r EXCEPT !.status = Set(@, "CARRY", FALSE)]
      [] opcode = "SEI" -> [r EXCEPT !.status = Set(@, "IRQ_DIS", TRUE)]
      [] opcode = "CLI" -> [r EXCEPT !.status = Set(@, "IRQ_DIS", FALSE)]
      [] opcode = "SED" -> [r EXCEPT !.status = Set(@, "DECIMAL", TRUE)]
      [] opcode = "CLD" -> [r EXCEPT !.status = Set(@, "DECIMAL", FALSE)]
      [] opcode = "CLV" -> [r EXCEPT !.status = Set(@, "OVERFLOW", FALSE)]
      [] opcode \in {"NOP", "XXX"} -> r

InternalOpcodes == {"TAX", "TAY", "TXA", "TYA", "TSX", "INX", "INY", "DEX", "DEY", "SEC",
                    "CLC", "SEI", "CLI", "SED", "CLD", "CLV", "NOP", "XXX"}

-----------------------------------------------------------------------------
(* The bus.                                                                 *)

\* The RAM has 2 KB, which the first 8 KB of the address space show four times.
RamSize == 2048
InRam(ad) == ad < 4 * RamSize
Cell(ad) == ad % RamSize
Mem(ad) == IF InRam(ad) /\ Cell(ad) \in DOMAIN ram THEN {ram[Cell(ad)]}
           ELSE Programs[program].values
Overlay(mem, ad, val) ==
    IF InRam(ad)
    THEN [p \in DOMAIN mem \cup {Cell(ad)} |-> IF p = Cell(ad) THEN val ELSE mem[p]]
    ELSE mem

\* Cpu::push and push_u16, on the stack m as [sp, ram].
StackPage == 256
Stack == [sp |-> sp, ram |-> ram]
Push(m, val) == [sp |-> (m.sp - 1) % 256, ram |-> Overlay(m.ram, StackPage + m.sp, val)]
PushWord(m, word) == Push(Push(m, Page(word)), word % 256)

\* After n bytes, and what the program can return from: the stack has one page,
\* and what is pushed beyond takes the place of the oldest bytes.
Size(frame) == IF frame.handler THEN 3 ELSE 2
Pushed(m, n, entered) ==
    /\ sp' = m.sp /\ ram' = m.ram
    /\ depth' = depth + n
    /\ frames' = {f \in frames : depth + n - 256 <= f.depth - Size(f)} \cup entered

\* Cpu::pull: after n bytes, only what is below can still return.
Top(i) == Mem(StackPage + ((sp + i) % 256))
Pulled(n) ==
    /\ sp' = (sp + n) % 256
    /\ depth' = depth - n
    /\ frames' = {f \in frames : f.depth <= depth - n}
    /\ UNCHANGED ram

\* A program that stores into its own stack is on its own.
StoredAt(ad, val) ==
    /\ ram' = Overlay(ram, ad, val)
    /\ frames' = IF InRam(ad) /\ Page(Cell(ad)) = 1 THEN {} ELSE frames
    /\ UNCHANGED <<sp, depth>>

R == [a |-> a, x |-> x, y |-> y, status |-> status]
Become(r) == /\ a' = r.a /\ x' = r.x /\ y' = r.y /\ status' = r.status

-----------------------------------------------------------------------------
(* Cpu::step: the opcode and its operand address.                           *)

Fetch ==
    /\ at = "fetch" /\ steps > 0
    /\ \E row \in Table :
        /\ row.opcode \in Programs[program].opcodes
        /\ info' = row
    /\ pc' = (pc + 1) % 65536
    /\ consumed' = 1
    /\ at' = "resolve" /\ steps' = steps - 1
    /\ UNCHANGED <<registers, stack, ram, addr, page_crossed, extra, program>>

\* resolve_addr: an address of so many operand bytes, found by so many reads.
Resolved(ad, crossed, bytes, reads) ==
    /\ addr' = ad /\ page_crossed' = crossed
    /\ pc' = (pc + bytes) % 65536
    /\ consumed' = consumed + reads

Indexed(base, index, bytes, reads) ==
    LET target == (base + index) % 65536
    IN Resolved(target, Page(base) # Page(target), bytes, reads)

Next1 == (pc + 1) % 65536

NoOperand == info.mode \in {"Implicit", "Accumulator"} /\ Resolved(0, FALSE, 0, 0)
ImmediateOperand == info.mode = "Immediate" /\ Resolved(pc, FALSE, 1, 0)

ZeroPage == \E base \in Mem(pc) :
    \/ info.mode = "ZeroPage" /\ Resolved(base, FALSE, 1, 1)
    \/ info.mode = "ZeroPageX" /\ Resolved((base + x) % 256, FALSE, 1, 1)
    \/ info.mode = "ZeroPageY" /\ Resolved((base + y) % 256, FALSE, 1, 1)

Relative ==
    /\ info.mode = "Relative"
    /\ \E offset \in Mem(pc) : Indexed(Next1, Signed(offset), 1, 1)

Absolute == \E lo \in Mem(pc), hi \in Mem(Next1) :
    \/ info.mode = "Absolute" /\ Resolved(Word(hi, lo), FALSE, 2, 2)
    \/ info.mode = "AbsoluteX" /\ Indexed(Word(hi, lo), x, 2, 2)
    \/ info.mode = "AbsoluteY" /\ Indexed(Word(hi, lo), y, 2, 2)

\* The pointer does not leave its page.  (ptr + 1 is not wrapping_add: at $FFFF it
\* wraps to 0 in a release build, which is modelled, and panics in a debug build.)
Indirect ==
    /\ info.mode = "Indirect"
    /\ \E lo_ptr \in Mem(pc), hi_ptr \in Mem(Next1) :
       \E lo \in Mem(Word(hi_ptr, lo_ptr)), hi \in Mem(Word(hi_ptr, (lo_ptr + 1) % 256)) :
         Resolved(Word(hi, lo), FALSE, 2, 4)

IndirectX ==
    /\ info.mode = "IndirectX"
    /\ \E base \in Mem(pc) :
       \E lo \in Mem((base + x) % 256), hi \in Mem((base + x + 1) % 256) :
         Resolved(Word(hi, lo), FALSE, 1, 3)

IndirectY ==
    /\ info.mode = "IndirectY"
    /\ \E ptr \in Mem(pc) :
       \E lo \in Mem(ptr), hi \in Mem((ptr + 1) % 256) : Indexed(Word(hi, lo), y, 1, 3)

ResolveAddr ==
    /\ at = "resolve" /\ at' = "execute"
    /\ \/ NoOperand \/ ImmediateOperand \/ ZeroPage \/ Relative
       \/ Absolute \/ Indirect \/ IndirectX \/ IndirectY
    /\ UNCHANGED <<registers, stack, ram, info, extra, program, steps>>

-----------------------------------------------------------------------------
(* Cpu::step: execute, with n bus accesses and pc as the addressing left it. *)

Executed(n) ==
    /\ consumed' = consumed + n
    /\ extra' = IF info.extra_cycle /\ page_crossed THEN 1 ELSE 0
    /\ UNCHANGED pc

ExecuteRead ==
    /\ info.opcode \in ReadOpcodes
    /\ \E val \in Mem(addr) : Become(Read(info.opcode, R, val))
    /\ Executed(1)
    /\ UNCHANGED <<stack, ram>>

\* The original is written before the result.
ExecuteModify ==
    /\ info.opcode \in ModifyOpcodes /\ info.mode # "Accumulator"
    /\ \E val \in Mem(addr) :
        /\ Become(Modify(info.opcode, R, val))
        /\ StoredAt(addr, Written(info.opcode, R, val))
    /\ Executed(3)

ExecuteAccumulator ==
    /\ info.mode = "Accumulator"
    /\ Become([Modify(info.opcode, R, a) EXCEPT !.a = Written(info.opcode, R, a)])
    /\ Executed(0)
    /\ UNCHANGED <<stack, ram>>

ExecuteInternal ==
    /\ info.opcode \in InternalOpcodes
    /\ Become(Internal(info.opcode, R))
    /\ Executed(0)
    /\ UNCHANGED <<stack, ram>>

\* SHY and SHX: the register, and the high byte of the address before indexing
\* plus one; that value replaces the high byte when the page is crossed.
High(reg) ==
    LET base_hi == IF page_crossed THEN (Page(addr) - 1) % 256 ELSE Page(addr)
    IN And(reg, (base_hi + 1) % 256)

HighTarget(val) == IF page_crossed THEN Word(val, addr % 256) ELSE addr

ExecuteStore ==
    /\ \/ info.opcode = "STA" /\ StoredAt(addr, a)
       \/ info.opcode = "STX" /\ StoredAt(addr, x)
       \/ info.opcode = "STY" /\ StoredAt(addr, y)
       \/ info.opcode = "SAX" /\ StoredAt(addr, And(a, x))
       \/ info.opcode = "SHY" /\ StoredAt(HighTarget(High(y)), High(y))
       \/ info.opcode = "SHX" /\ StoredAt(HighTarget(High(x)), High(x))
    /\ Executed(1)
    /\ UNCHANGED registers

\* TXS: the program changes stacks, nothing on the old one returns.
ExecuteTxs ==
    /\ info.opcode = "TXS"
    /\ sp' = x /\ depth' = 0 /\ frames' = {}
    /\ Executed(0)
    /\ UNCHANGED <<registers, ram>>

BranchOpcodes == {"BCC", "BCS", "BNE", "BEQ", "BPL", "BMI", "BVC", "BVS"}
Taken(opcode) ==
    CASE opcode = "BCC" -> "CARRY" \notin status
      [] opcode = "BCS" -> "CARRY" \in status
      [] opcode = "BNE" -> "ZERO" \notin status
      [] opcode = "BEQ" -> "ZERO" \in status
      [] opcode = "BPL" -> "NEGATIVE" \notin status
      [] opcode = "BMI" -> "NEGATIVE" \in status
      [] opcode = "BVC" -> "OVERFLOW" \notin status
      [] opcode = "BVS" -> "OVERFLOW" \in status

\* branch: two cycles more to another page, one more on the same.
ExecuteBranch ==
    /\ info.opcode \in BranchOpcodes
    /\ IF Taken(info.opcode)
       THEN pc' = addr /\ extra' = IF page_crossed THEN 2 ELSE 1
       ELSE UNCHANGED pc /\ extra' = 0
    /\ UNCHANGED <<registers, stack, ram, consumed>>

-----------------------------------------------------------------------------
(* Cpu::step: the stack.                                                    *)

\* Mutant: every push of the status sets BREAK.
PushedStatusAlways(brk) == Bits(Set(Set(status, "BREAK", TRUE), "UNUSED", TRUE))

\* PHP and BRK push with BREAK set, nmi and irq with it clear.
PushedStatus(brk) == Bits(Set(Set(status, "BREAK", brk), "UNUSED", TRUE))

\* Mutant: PLP and RTI keep the BREAK flag of the byte they pull.
PulledStatusBreak(val) == Set(FromBits(val), "UNUSED", TRUE)
PulledStatus(val) == Set(Set(FromBits(val), "BREAK", FALSE), "UNUSED", TRUE)

ExecutePush ==
    /\ \/ info.opcode = "PHA" /\ Pushed(Push(Stack, a), 1, {})
       \/ info.opcode = "PHP" /\ Pushed(Push(Stack, PushedStatus(TRUE)), 1, {})
    /\ Executed(1)
    /\ UNCHANGED registers

ExecutePull ==
    /\ \E val \in Top(1) :
        \/ info.opcode = "PLA" /\ Become(InA(R, val))
        \/ info.opcode = "PLP" /\ Become([R EXCEPT !.status = PulledStatus(val)])
    /\ Pulled(1)
    /\ Executed(1)

ExecuteJmp ==
    /\ info.opcode = "JMP"
    /\ pc' = addr /\ extra' = 0
    /\ UNCHANGED <<registers, stack, ram, consumed>>

\* JSR pushes the address of its own last byte.
ExecuteJsr ==
    /\ info.opcode = "JSR"
    /\ Pushed(PushWord(Stack, (pc - 1) % 65536), 2,
              {[handler |-> FALSE, brk |-> FALSE, depth |-> depth + 2, pc |-> pc,
                status |-> {}]})
    /\ pc' = addr /\ consumed' = consumed + 2 /\ extra' = 0
    /\ UNCHANGED registers

ExecuteRts ==
    /\ info.opcode = "RTS"
    /\ \E lo \in Top(1), hi \in Top(2) : pc' = (Word(hi, lo) + 1) % 65536
    /\ Pulled(2)
    /\ consumed' = consumed + 2 /\ extra' = 0
    /\ UNCHANGED registers

ExecuteRti ==
    /\ info.opcode = "RTI"
    /\ \E val \in Top(1) : Become([R EXCEPT !.status = PulledStatus(val)])
    /\ \E lo \in Top(2), hi \in Top(3) : pc' = Word(hi, lo)
    /\ Pulled(3)
    /\ consumed' = consumed + 3 /\ extra' = 0

\* nmi, irq and BRK: the address to return to and the status, then the vector.
EnterHandler(return, brk) ==
    /\ Pushed(Push(PushWord(Stack, return), PushedStatus(brk)), 3,
              {[handler |-> TRUE, brk |-> brk, depth |-> depth + 3, pc |-> return,
                status |-> status]})
    /\ status' = status \cup {"IRQ_DIS"}
    /\ UNCHANGED <<a, x, y>>
    /\ \E lo, hi \in Programs[program].pcs : pc' = Word(hi, lo)

\* BRK skips the byte after it.
ExecuteBrk ==
    /\ info.opcode = "BRK"
    /\ EnterHandler(Next1, TRUE)
    /\ consumed' = consumed + 5 /\ extra' = 0

Execute ==
    /\ at = "execute" /\ at' = "idle"
    /\ \/ ExecuteRead \/ ExecuteModify \/ ExecuteAccumulator \/ ExecuteInternal
       \/ ExecuteStore \/ ExecuteTxs \/ ExecuteBranch \/ ExecutePush \/ ExecutePull
       \/ ExecuteJmp \/ ExecuteJsr \/ ExecuteRts \/ ExecuteRti \/ ExecuteBrk
    /\ UNCHANGED <<operand, program, steps>>

-----------------------------------------------------------------------------
(* Cpu::step: the cycles that are left, and the two interrupt lines.        *)

Target == info.cycles + extra

Idle ==
    /\ at = "idle" /\ at' = "nmi"
    /\ consumed' = IF consumed < Target THEN Target ELSE consumed
    /\ UNCHANGED <<registers, stack, ram, pc, operand, extra, program, steps>>

\* The lines are raised by the rest of the machine (NesLoop, FrameCounter, ...).
Nmi ==
    /\ at = "nmi" /\ Programs[program].interrupts
    /\ EnterHandler(pc, FALSE)
    /\ at' = "irq"
    /\ UNCHANGED <<operand, extra, consumed, program, steps>>

NoNmi ==
    /\ at = "nmi" /\ at' = "irq"
    /\ UNCHANGED <<registers, stack, ram, pc, operand, extra, consumed, program, steps>>

Irq ==
    /\ at = "irq" /\ Programs[program].interrupts /\ "IRQ_DIS" \notin status
    /\ EnterHandler(pc, FALSE)
    /\ at' = "fetch"
    /\ UNCHANGED <<operand, extra, consumed, program, steps>>

NoIrq ==
    /\ at = "irq" /\ at' = "fetch"
    /\ UNCHANGED <<registers, stack, ram, pc, operand, extra, consumed, program, steps>>

\* The registers of a program that has been running since Cpu::reset.
Init ==
    /\ program \in DOMAIN Programs /\ steps = Programs[program].steps
    /\ a \in Programs[program].regs /\ x \in Programs[program].regs /\ y \in Programs[program].regs
    /\ sp \in Programs[program].sps
    /\ \E lo, hi \in Programs[program].pcs : pc = Word(hi, lo)
    /\ \E flags \in SUBSET Programs[program].flags : status = flags \cup {"UNUSED"}
    /\ ram = [p \in {} |-> 0] /\ depth = 0 /\ frames = {}
    /\ at = "fetch" /\ info = [opcode |-> "NOP", mode |-> "Implicit", cycles |-> 2,
                               extra_cycle |-> FALSE]
    /\ addr = 0 /\ page_crossed = FALSE /\ extra = 0 /\ consumed = 0

Next == Fetch \/ ResolveAddr \/ Execute \/ Idle \/ Nmi \/ NoNmi \/ Irq \/ NoIrq

Spec == Init /\ [][Next]_vars

-----------------------------------------------------------------------------

\* The type invariant: registers stay bytes, and BREAK exists on the stack only.
TypeOK ==
    /\ {a, x, y, sp} \subseteq Byte /\ {pc, addr} \subseteq Address
    /\ status \subseteq Flags /\ "UNUSED" \in status /\ "BREAK" \notin status
    /\ \A p \in DOMAIN ram : p \in 0 .. RamSize - 1 /\ ram[p] \in Byte
    /\ at \in {"fetch", "resolve", "execute", "idle", "nmi", "irq"}
    /\ info \in Table /\ page_crossed \in BOOLEAN /\ extra \in 0 .. 2
    /\ consumed \in Nat /\ program \in DOMAIN Programs /\ steps \in Nat
    /\ depth \in Int

\* No instruction, in any addressing mode, makes more bus accesses than the
\* table gives it cycles: step() only ever has cycles to add, so that the
\* rest of the machine sees every instruction take its time.
AccessesFitCycles == at = "idle" => consumed <= Target

\* ADC and SBC, which share one piece of bit arithmetic, add and subtract:
\* modulo 256, with the carry telling the unsigned overflow (or the absence of
\* a borrow) and the overflow flag the signed one.
Exact(sum, unsigned, signed) ==
    /\ a' = sum % 256
    /\ ("CARRY" \in status') = unsigned
    /\ ("OVERFLOW" \in status') = (signed \notin -128 .. 127)

ArithmeticIsExact ==
    [][ at = "execute" =>
          /\ info.opcode = "ADC" => \E m \in Mem(addr) :
               LET c == Carry(status)
               IN Exact(a + m + c, a + m + c > 255, Signed(a) + Signed(m) + c)
          /\ info.opcode = "SBC" => \E m \in Mem(addr) :
               LET borrow == 1 - Carry(status)
               IN Exact(a - m - borrow, a - m - borrow >= 0,
                        Signed(a) - Signed(m) - borrow) ]_vars

\* The combined instructions do what opcodes.rs says of them: DCP is DEC then
\* CMP, RRA is ROR then ADC with the carry of the rotation, and so on.
Halves == [DCP |-> <<"DEC", "CMP">>, ISC |-> <<"INC", "SBC">>, SLO |-> <<"ASL", "ORA">>,
           RLA |-> <<"ROL", "AND">>, SRE |-> <<"LSR", "EOR">>, RRA |-> <<"ROR", "ADC">>]

CombinedInstructions ==
    [][ at = "execute" /\ info.opcode \in DOMAIN Halves =>
          \E val \in Mem(addr) :
            LET half == Halves[info.opcode]
                out == Written(half[1], R, val)
            IN /\ InRam(addr) => ram'[Cell(addr)] = out
               /\ Become(Read(half[2], Modify(half[1], R, val), out)) ]_vars

\* A handler can tell from the stack whether BRK or an interrupt entered it,
\* for as long as it has not returned.
BreakFlagTells ==
    \A f \in frames : f.handler =>
        ("BREAK" \in FromBits(ram[StackPage + ((sp + depth - f.depth + 1) % 256)])) = f.brk

\* However calls, handlers and pushes are nested, a handler knows what entered
\* it, an RTI at the level of its handler continues the interrupted program
\* where it was and with its flags, and an RTS at the level of its call behind
\* that call.
HandlersReturn ==
    /\ []BreakFlagTells
    /\ [][ at = "execute" =>
             \A f \in frames : f.depth = depth =>
                  /\ info.opcode = "RTI" /\ f.handler => pc' = f.pc /\ status' = f.status
                  /\ info.opcode = "RTS" /\ ~f.handler => pc' = f.pc ]_vars

=============================================================================
