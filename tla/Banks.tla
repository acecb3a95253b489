------------------------------- MODULE Banks -------------------------------
(***************************************************************************)
(* What the cartridge shows in the windows of the address space: the bank  *)
(* registers of every board (cartridge/mapper), how a program sets them,   *)
(* and how they pass through a save state.  A PRG page has 8 KB and a CHR  *)
(* page 1 KB, so PRG windows are 0 .. 3 ($8000, $A000, $C000, $E000) and   *)
(* CHR windows 0 .. 7.  Only page numbers are followed, never bytes.       *)
(***************************************************************************)
EXTENDS Integers, Sequences

CONSTANTS
    RomSizes,            \* pairs: pages of PRG ROM and pages of CHR ROM
    Values,              \* bytes that a program writes to bank registers
    ChrIndexes,          \* CHR registers that it uses, where there are eight
    MaxWrites,           \* bound: register writes and pattern reads
    MaxBits,             \* bound: writes of Mmc1, whose registers take five each
    MaxSavedWrites       \* bound: those before a save

\* Two bytes of the header count 16 KB of PRG ROM and 8 KB of CHR ROM, and
\* Cartridge::new takes what they say, 0 included.
SizesAssumption ==
    /\ RomSizes \subseteq (0 .. 510) \X {8 * n : n \in 0 .. 255}
    /\ Values \subseteq 0 .. 255 /\ ChrIndexes \subseteq 0 .. 7
    /\ MaxWrites \in Nat /\ MaxBits \in Nat /\ MaxSavedWrites \in Nat

Boards == {"Nrom", "Unrom", "Cnrom", "Axrom", "Mmc1", "Mmc2", "Mmc3", "Mmc5", "Vrc6", "Fme7"}

VARIABLES
    board, prg_pages, chr_pages,
    reg,      \* the board's registers, by name
    slot,     \* what a save state holds of them
    bits,     \* history: the bits sent to Mmc1 since its last reset or register
    last,     \* history: the register that the last step has set, if any
    seen,     \* history: the windows, and bits, when the state was saved
    writes

vars == <<board, prg_pages, chr_pages, reg, slot, bits, last, seen, writes>>

\* Of the bits of a byte, lowest first.
Place(n) == <<1, 2, 4, 8, 16, 32, 64, 128>>[n + 1]
Bit(val, n) == (val \div Place(n)) % 2 = 1
Even(n) == n - (n % 2)
Larger(m, n) == IF m > n THEN m ELSE n
Minus(m, n) == IF m > n THEN m - n ELSE 0

\* In place of a page: None, or the 0 that is read where there is no ROM.
Nothing == -1

-----------------------------------------------------------------------------
(* PRG windows.                                                             *)

Prg16 == prg_pages \div 2
InHalf(bank, w) == 2 * bank + (w % 2)
Wrapped(page) == IF prg_pages = 0 THEN Nothing ELSE page % prg_pages

\* The 16 KB bank that Mmc1 selects, and the one its 32 KB unit begins with.
Mmc1Mode == (reg.control \div 4) % 4
Mmc1Bank == (reg.prg_bank % 16) % Prg16
Mmc1Unit == Even(reg.prg_bank % 16) % Prg16

\* Mutant: the number of the unit is not masked.
Mmc1UnitOdd == (reg.prg_bank % 16) % Prg16

\* In modes 2 and 3 one half is switched and the other shows the first bank or
\* the last.
Mmc1Prg(w) ==
    CASE Prg16 = 0 -> Nothing
      [] Prg16 > 0 /\ Mmc1Mode < 2 -> 2 * Mmc1Unit + w
      [] Prg16 > 0 /\ Mmc1Mode = 2 -> Wrapped(InHalf(IF w < 2 THEN 0 ELSE Mmc1Bank, w))
      [] Prg16 > 0 /\ Mmc1Mode = 3 -> Wrapped(InHalf(IF w < 2 THEN Mmc1Bank ELSE Prg16 - 1, w))

\* Mutant: the mode swaps the first window with the last.
Mmc3PrgSwapsLast(w) ==
    LET swapped == IF reg.prg_mode THEN 3 ELSE 0
        bank == CASE w = swapped -> reg.registers[6]
                  [] w = 1 -> reg.registers[7]
                  [] w = 3 -> Minus(prg_pages, 1)
                  [] OTHER -> Minus(prg_pages, 2)
    IN  Wrapped(bank)

Mmc3Prg(w) ==
    LET swapped == IF reg.prg_mode THEN 2 ELSE 0
        bank == CASE w = 3 -> Minus(prg_pages, 1)
                  [] w = 1 -> reg.registers[7]
                  [] w = swapped -> reg.registers[6]
                  [] OTHER -> Minus(prg_pages, 2)
    IN  Wrapped(bank)

\* Mutant: bit 7 is added where it can be set already.
WithBit7Added(bank) == bank + 128

\* Bit 7 tells ROM from RAM; Mmc5 starts with the last page, which can be wider.
WithBit7(bank) == IF Bit(bank, 7) THEN bank ELSE bank + 128

\* get_prg_bank.
Mmc5Bank(w) ==
    CASE reg.prg_mode = 0 -> reg.prg_bank_e000 - (reg.prg_bank_e000 % 4) + w
      [] reg.prg_mode \in {1, 2} /\ w < 2 -> Even(reg.prg_bank_a000) + w
      [] reg.prg_mode = 1 /\ w >= 2 -> Even(reg.prg_bank_e000) + w - 2
      [] reg.prg_mode \in {2, 3} /\ w = 2 -> reg.prg_bank_c000
      [] reg.prg_mode \in {2, 3} /\ w = 3 -> WithBit7(reg.prg_bank_e000)
      [] reg.prg_mode = 3 /\ w < 2 -> IF w = 0 THEN reg.prg_bank_8000 ELSE reg.prg_bank_a000

ShowsRam(w) == board = "Mmc5" /\ ~Bit(Mmc5Bank(w), 7)

\* Without a ROM, % 0 panics, as an index outside does: 0 is outside then.
NromPrg(w) == IF prg_pages = 0 THEN 0 ELSE w % prg_pages
UnromPrg(w) == InHalf(IF w < 2 THEN reg.bank_select ELSE Minus(Prg16, 1), w)
AxromPrg(w) == IF prg_pages < 4 THEN Nothing ELSE 4 * (reg.prg_bank % (prg_pages \div 4)) + w
Mmc2Prg(w) == Wrapped(IF w = 0 THEN reg.prg_bank ELSE Minus(prg_pages, 4 - w))

Vrc6Prg(w) == CASE prg_pages = 0 -> Nothing
                [] prg_pages > 0 /\ w < 2 -> InHalf(reg.prg_bank_16k % Prg16, w)
                [] prg_pages > 0 /\ w = 2 -> reg.prg_bank_8k % prg_pages
                [] prg_pages > 0 /\ w = 3 -> prg_pages - 1

Fme7Prg(w) == Wrapped(IF w = 3 THEN Minus(prg_pages, 1) ELSE reg.prg_banks[w + 1])

Mmc5Prg(w) == IF ShowsRam(w) THEN Mmc5Bank(w) % 8 ELSE Wrapped(Mmc5Bank(w) % 128)

\* cpu_read: the page in a window, of RAM if it shows RAM.
PrgPage(w) ==
    CASE board \in {"Nrom", "Cnrom"} -> NromPrg(w)
      [] board = "Unrom" -> UnromPrg(w)
      [] board = "Axrom" -> AxromPrg(w)
      [] board = "Mmc1"  -> Mmc1Prg(w)
      [] board = "Mmc2"  -> Mmc2Prg(w)
      [] board = "Mmc3"  -> Mmc3Prg(w)
      [] board = "Vrc6"  -> Vrc6Prg(w)
      [] board = "Fme7"  -> Fme7Prg(w)
      [] board = "Mmc5"  -> Mmc5Prg(w)

\* $6000, where Fme7 and Mmc5 choose too: RAM, the page of RAM, or a page of ROM.
LowWindow ==
    CASE board = "Fme7" -> IF reg.prg_ram_select THEN <<"ram", reg.prg_ram_enable>>
                           ELSE <<"rom", Wrapped(reg.prg_banks[0])>>
      [] board = "Mmc5" -> <<"ram", reg.prg_ram_bank % 8>>
      [] OTHER -> <<"ram", TRUE>>

-----------------------------------------------------------------------------
(* CHR windows.                                                             *)

Chr4 == chr_pages \div 4
InQuarter(bank, w) == (4 * (bank % Chr4) + (w % 4)) % chr_pages

Mmc1Chr(w) ==
    IF Bit(reg.control, 4)
      THEN InQuarter(IF w < 4 THEN reg.chr_bank_0 ELSE reg.chr_bank_1, w)
      ELSE (8 * (Even(reg.chr_bank_0) % Larger(Chr4 \div 2, 1)) + w) % chr_pages

\* The latches choose between two registers for each half.
Mmc2Chr(w) ==
    IF chr_pages = 0 THEN Nothing ELSE
    InQuarter(IF w < 4 THEN IF reg.latch_0 THEN reg.chr_bank_0_r ELSE reg.chr_bank_0_l
                       ELSE IF reg.latch_1 THEN reg.chr_bank_1_r ELSE reg.chr_bank_1_l, w)

\* chr_mode swaps the half of two 2 KB banks with that of four 1 KB banks.
Mmc3Chr(w) ==
    LET v == IF reg.chr_mode THEN (w + 4) % 8 ELSE w
    IN  (IF v < 4 THEN Even(reg.registers[v \div 2]) + (v % 2) ELSE reg.registers[v - 2]) % chr_pages

\* While rendering, background and sprites have registers of their own if
\* sprites are 8x16 and shown; otherwise the set written last serves both.
UsesSetB(is_sprite) ==
    IF ~reg.in_frame THEN reg.last_written_chr_set_b
    ELSE ~is_sprite /\ (reg.exram_mode = 1 \/ reg.tall_sprites_shown)

\* A bank of 8, 4, 2 or 1 pages.  The four registers of set B repeat.
Mmc5Chr(w, is_sprite) ==
    LET b    == UsesSetB(is_sprite)
        v    == IF b THEN w % 4 ELSE w
        size == Place(3 - reg.chr_mode)
        i    == (v \div size) * size + size - 1
        base == IF b THEN reg.chr_banks_b[IF i > 3 THEN 3 ELSE i] ELSE reg.chr_banks_a[i]
        bank == IF ~is_sprite /\ reg.exram_mode = 1
                  THEN 4 * (64 * reg.chr_high + reg.exram_bank) + (w % 4)
                  ELSE base * size + (v % size)
    IN  bank % chr_pages

CnromChr(w) == 8 * reg.bank_select + w

\* A board without CHR ROM has 8 KB of CHR RAM; two have none, and two no ROM.
ChrIsRam == board \in {"Unrom", "Axrom"} \/ (chr_pages = 0 /\ board \notin {"Cnrom", "Mmc2"})

\* chr_read.
ChrPage(w, is_sprite) ==
    IF ChrIsRam THEN w ELSE
    CASE board = "Nrom" -> w
      [] board = "Cnrom" -> CnromChr(w)
      [] board = "Mmc1"  -> Mmc1Chr(w)
      [] board = "Mmc2"  -> Mmc2Chr(w)
      [] board = "Mmc3"  -> Mmc3Chr(w)
      [] board = "Mmc5"  -> Mmc5Chr(w, is_sprite)
      [] board \in {"Vrc6", "Fme7"} -> reg.chr_banks[w] % chr_pages

-----------------------------------------------------------------------------
(* Power on.                                                                *)

Zeros(n) == [i \in 0 .. n |-> 0]

NewLatch == [bank_select |-> 0]
NewAxrom == [prg_bank |-> 0, mirroring |-> 0]
NewMmc1 == [shift_register |-> 16, write_count |-> 0, control |-> 12,
            chr_bank_0 |-> 0, chr_bank_1 |-> 0, prg_bank |-> 0]
NewMmc2 == [prg_bank |-> 0, chr_bank_0_l |-> 0, chr_bank_0_r |-> 0,
            chr_bank_1_l |-> 0, chr_bank_1_r |-> 0,
            latch_0 |-> TRUE, latch_1 |-> TRUE, mirroring |-> 1]
NewMmc3 == [registers |-> Zeros(7), bank_select |-> 0,
            prg_mode |-> FALSE, chr_mode |-> FALSE, mirroring |-> 1]
NewVrc6 == [prg_bank_16k |-> 0, prg_bank_8k |-> 0, chr_banks |-> Zeros(7), mirroring |-> 0]
NewFme7 == [command |-> 0, chr_banks |-> Zeros(7), prg_banks |-> [i \in 0 .. 3 |-> Minus(i, 1)],
            prg_ram_enable |-> FALSE, prg_ram_select |-> FALSE, mirroring |-> 0]
NewMmc5(pages) ==
    [prg_mode |-> 3, chr_mode |-> 0, prg_ram_bank |-> 0,
     prg_bank_8000 |-> WithBit7(Minus(pages, 1)), prg_bank_a000 |-> WithBit7(Minus(pages, 1)),
     prg_bank_c000 |-> WithBit7(Minus(pages, 1)), prg_bank_e000 |-> WithBit7(Minus(pages, 1)),
     chr_banks_a |-> Zeros(7), chr_banks_b |-> Zeros(3), chr_high |-> 0,
     last_written_chr_set_b |-> FALSE, in_frame |-> FALSE,
     tall_sprites_shown |-> FALSE, exram_mode |-> 0, exram_bank |-> 0]

NewReg(b, pages) ==
    CASE b = "Nrom" -> <<>>
      [] b \in {"Unrom", "Cnrom"} -> NewLatch
      [] b = "Axrom" -> NewAxrom
      [] b = "Mmc1" -> NewMmc1
      [] b = "Mmc2" -> NewMmc2
      [] b = "Mmc3" -> NewMmc3
      [] b = "Vrc6" -> NewVrc6
      [] b = "Fme7" -> NewFme7
      [] b = "Mmc5" -> NewMmc5(pages)

Start(b, prg, chr) ==
    /\ board = b /\ prg_pages = prg /\ chr_pages = chr
    /\ reg = NewReg(b, prg)
    /\ slot = <<>> /\ bits = <<>> /\ last = "none" /\ seen = <<>>
    /\ writes = 0

\* Pages come in pairs, except in a test of Mmc5 (mapper_regressions.rs:36).
Init ==
    \E b \in Boards, rom \in RomSizes :
       /\ b # "Mmc5" => rom[1] % 2 = 0
       /\ Start(b, rom[1], rom[2])

-----------------------------------------------------------------------------
(* Register writes, cpu_write of each board.                                *)

Become(r) ==
    /\ writes < IF board = "Mmc1" THEN MaxBits ELSE MaxWrites
    /\ writes' = writes + 1
    /\ reg' = r
    /\ UNCHANGED <<board, prg_pages, chr_pages, slot, seen>>

Plain(b, r) == board = b /\ Become(r) /\ last' = "none" /\ UNCHANGED bits

WriteUnrom(val) ==
    Plain("Unrom", [reg EXCEPT !.bank_select = IF Prg16 = 0 THEN @ ELSE val % Prg16])

WriteCnrom(val) == Plain("Cnrom", [reg EXCEPT !.bank_select = val % Larger(chr_pages \div 8, 1)])

WriteAxrom(val) ==
    Plain("Axrom", [reg EXCEPT !.prg_bank = val % (IF prg_pages > 32 THEN 16 ELSE 8),
                               !.mirroring = IF Bit(val, 4) THEN 1 ELSE 0])

\* Bit 7 of a byte written to Mmc1.
ResetMmc1 ==
    /\ board = "Mmc1"
    /\ Become([reg EXCEPT !.shift_register = 16, !.write_count = 0,
                          !.control = @ - ((@ \div 4) % 4) * 4 + 12])
    /\ bits' = <<>> /\ last' = "none"

\* Mutant: what a reset leaves in the shift register stays set.
ShiftedOnto(bit) ==
    LET place == Place(reg.write_count)
    IN  IF Bit(reg.shift_register, reg.write_count) THEN reg.shift_register
        ELSE reg.shift_register + bit * place

\* Any other byte shifts its bit 0 in; the fifth goes to a register.
Shifted(bit) ==
    LET place == Place(reg.write_count)
    IN  reg.shift_register - (IF Bit(reg.shift_register, reg.write_count) THEN place ELSE 0)
          + bit * place

ShiftMmc1(bit) ==
    /\ board = "Mmc1" /\ reg.write_count < 4
    /\ Become([reg EXCEPT !.shift_register = Shifted(bit), !.write_count = @ + 1])
    /\ bits' = Append(IF Len(bits) = 5 THEN <<>> ELSE bits, bit) /\ last' = "none"

FillMmc1(bit, register) ==
    /\ board = "Mmc1" /\ reg.write_count = 4
    /\ Become([reg EXCEPT ![register] = Shifted(bit) % 32,
                          !.shift_register = 0, !.write_count = 0])
    /\ bits' = Append(bits, bit) /\ last' = register

WriteMmc1 ==
    \/ ResetMmc1
    \/ \E bit \in {0, 1} :
          \/ ShiftMmc1(bit)
          \/ \E register \in {"control", "chr_bank_0", "chr_bank_1", "prg_bank"} :
                FillMmc1(bit, register)

WriteMmc2(val) ==
    \/ Plain("Mmc2", [reg EXCEPT !.prg_bank = val % 16])
    \/ \E half \in {"chr_bank_0_l", "chr_bank_0_r", "chr_bank_1_l", "chr_bank_1_r"} :
          Plain("Mmc2", [reg EXCEPT ![half] = val % 32])
    \/ Plain("Mmc2", [reg EXCEPT !.mirroring = val % 2])

\* Reading one of two tiles of a half moves its latch, after the read.
ChrReadMmc2 ==
    /\ chr_pages > 0
    /\ \E right \in BOOLEAN :
          \/ Plain("Mmc2", [reg EXCEPT !.latch_0 = right])
          \/ Plain("Mmc2", [reg EXCEPT !.latch_1 = right])

WriteMmc3(val) ==
    \/ \E prg, chr \in BOOLEAN : \E i \in ChrIndexes :
          Plain("Mmc3", [reg EXCEPT !.bank_select = i, !.prg_mode = prg, !.chr_mode = chr])
    \/ Plain("Mmc3", [reg EXCEPT !.registers[reg.bank_select] = val])
    \/ Plain("Mmc3", [reg EXCEPT !.mirroring = val % 2])

WriteVrc6(val) ==
    \/ Plain("Vrc6", [reg EXCEPT !.prg_bank_16k = val % 16])
    \/ Plain("Vrc6", [reg EXCEPT !.prg_bank_8k = val % 32])
    \/ \E i \in ChrIndexes : Plain("Vrc6", [reg EXCEPT !.chr_banks[i] = val])
    \/ Plain("Vrc6", [reg EXCEPT !.mirroring = (val \div 4) % 4])

\* The parameter goes where the command written before it says.
WriteFme7(val) ==
    \/ \E command \in ChrIndexes \cup 8 .. 12 : Plain("Fme7", [reg EXCEPT !.command = command])
    \/ /\ reg.command < 8
       /\ Plain("Fme7", [reg EXCEPT !.chr_banks[reg.command] = val])
    \/ /\ reg.command = 8
       /\ Plain("Fme7", [reg EXCEPT !.prg_ram_enable = Bit(val, 7), !.prg_ram_select = Bit(val, 6),
                                    !.prg_banks[0] = val % 64])
    \/ /\ reg.command \in 9 .. 11
       /\ Plain("Fme7", [reg EXCEPT !.prg_banks[reg.command - 8] = val % 64])
    \/ /\ reg.command = 12
       /\ Plain("Fme7", [reg EXCEPT !.mirroring = val % 4])

\* $5100-$5130; in_frame follows the picture unit (module Mmc5Irq), and
\* tall_sprites_shown what the program writes to it.
WriteMmc5(val) ==
    \/ Plain("Mmc5", [reg EXCEPT !.prg_mode = val % 4])
    \/ Plain("Mmc5", [reg EXCEPT !.chr_mode = val % 4])
    \/ Plain("Mmc5", [reg EXCEPT !.exram_mode = val % 4])
    \/ Plain("Mmc5", [reg EXCEPT !.exram_bank = val % 64])
    \/ Plain("Mmc5", [reg EXCEPT !.prg_ram_bank = val % 8])
    \/ \E bank \in {"prg_bank_8000", "prg_bank_a000", "prg_bank_c000"} :
          Plain("Mmc5", [reg EXCEPT ![bank] = val])
    \/ Plain("Mmc5", [reg EXCEPT !.prg_bank_e000 = IF val < 128 THEN val + 128 ELSE val])
    \/ \E i \in ChrIndexes :
          Plain("Mmc5", [reg EXCEPT !.chr_banks_a[i] = val + 256 * reg.chr_high,
                                    !.last_written_chr_set_b = FALSE])
    \/ \E i \in ChrIndexes \cap 0 .. 3 :
          Plain("Mmc5", [reg EXCEPT !.chr_banks_b[i] = val + 256 * reg.chr_high,
                                    !.last_written_chr_set_b = TRUE])
    \/ Plain("Mmc5", [reg EXCEPT !.chr_high = val % 4])
    \/ \E on \in BOOLEAN : \/ Plain("Mmc5", [reg EXCEPT !.in_frame = on])
                           \/ Plain("Mmc5", [reg EXCEPT !.tall_sprites_shown = on])

Write ==
    \/ \E val \in Values :
          \/ WriteUnrom(val) \/ WriteCnrom(val) \/ WriteAxrom(val)
          \/ board = "Mmc2" /\ WriteMmc2(val)
          \/ board = "Mmc3" /\ WriteMmc3(val)
          \/ board = "Vrc6" /\ WriteVrc6(val)
          \/ board = "Fme7" /\ WriteFme7(val)
          \/ board = "Mmc5" /\ WriteMmc5(val)
    \/ WriteMmc1
    \/ board = "Mmc2" /\ ChrReadMmc2

-----------------------------------------------------------------------------
(* save_mapper_state and load_mapper_state.                                 *)

\* What the program finds in its windows.  Mmc5's state has no CHR registers.
View ==
    <<[w \in 0 .. 3 |-> <<PrgPage(w), ShowsRam(w)>>], LowWindow,
      [w \in 0 .. 7 |-> IF board = "Mmc5" THEN 0 ELSE ChrPage(w, FALSE)]>>

SavedByMmc5 == {"prg_mode", "chr_mode", "prg_ram_bank", "prg_bank_8000", "prg_bank_a000",
                "prg_bank_c000", "prg_bank_e000", "in_frame"}

\* Mutant: the modes of a board are taken for settings that stay.
SavedFieldsOnlyBanks ==
    (IF board = "Mmc5" THEN SavedByMmc5 ELSE DOMAIN reg) \ {"prg_mode", "chr_mode"}

SavedFields == IF board = "Mmc5" THEN SavedByMmc5 ELSE DOMAIN reg

SaveState ==
    /\ slot = <<>> /\ writes <= MaxSavedWrites
    /\ slot' = [f \in SavedFields |-> reg[f]]
    /\ seen' = <<View, bits>>
    /\ last' = "none"
    /\ UNCHANGED <<board, prg_pages, chr_pages, reg, bits, writes>>

LoadState ==
    /\ slot # <<>>
    /\ reg' = [f \in DOMAIN reg |-> IF f \in DOMAIN slot THEN slot[f] ELSE reg[f]]
    /\ last' = "load" /\ bits' = seen[2]
    /\ UNCHANGED <<board, prg_pages, chr_pages, slot, seen, writes>>

Next == Write \/ SaveState \/ LoadState

Spec == Init /\ [][Next]_vars

-----------------------------------------------------------------------------

\* Rust checks every index, so a read outside the ROM panics.  It does so for
\* ROMs that the loader accepts, in these cases: three boards look for a PRG
\* ROM that is not there, Mmc1's 32 KB unit begins with the last of an odd
\* number of 16 KB banks, and Cnrom has no CHR ROM.
PrgFails(w) ==
    \/ prg_pages = 0 /\ board \in {"Nrom", "Cnrom", "Unrom"}
    \/ /\ board = "Mmc1" /\ w >= 2
       /\ Prg16 % 2 = 1 /\ Mmc1Mode < 2 /\ Mmc1Unit = Prg16 - 1

ChrFails == board = "Cnrom" /\ chr_pages = 0

LastPrg(w) == IF ShowsRam(w) THEN 7 ELSE prg_pages - 1
LastChr == IF ChrIsRam THEN 7 ELSE chr_pages - 1

\* Whatever the size of the ROM and whatever is written to the registers, the
\* windows whose offsets leave the ROM (or RAM) in cpu_read and chr_read are
\* exactly those that PrgFails and ChrFails name; and a window shows nothing
\* only for want of 32 KB of PRG ROM, or of CHR ROM.
InsideRom ==
    /\ \A w \in 0 .. 3 :
          /\ PrgPage(w) \in Nothing .. LastPrg(w) <=> ~PrgFails(w)
          /\ PrgPage(w) = Nothing => prg_pages < 4
    /\ \A w \in 0 .. 7, is_sprite \in BOOLEAN :
          /\ ChrPage(w, is_sprite) \in Nothing .. LastChr <=> ~ChrFails
          /\ ChrPage(w, is_sprite) = Nothing => chr_pages = 0

\* The interrupt vectors do not move: boards that switch PRG banks keep the
\* last page in the last window, whatever modes they pass through.  (Axrom,
\* and Mmc1 outside mode 3, switch all of it; Mmc5 promises ROM only.)
VectorsStay ==
    /\ prg_pages > 0 =>
         /\ board \in {"Unrom", "Mmc2", "Mmc3", "Vrc6", "Fme7"} => PrgPage(3) = prg_pages - 1
         /\ board = "Mmc1" /\ Mmc1Mode = 3 => PrgPage(3) = prg_pages - 1
    /\ ~ShowsRam(3)

\* A register of Mmc1 takes exactly the five bits sent since the last reset or
\* register, the first one lowest; what was in the shift register before does
\* not shine through.
TakesFiveBits ==
    last' \in DOMAIN reg =>
      /\ Len(bits') = 5
      /\ reg'[last'] = bits'[1] + 2 * bits'[2] + 4 * bits'[3] + 8 * bits'[4] + 16 * bits'[5]

FiveBitsMakeARegister == [][TakesFiveBits]_vars

\* A loaded state shows the program what it saw when the state was saved, in
\* every window.
ShowsSaved == last' = "load" => View' = seen[1]

LoadShowsSaved == [][ShowsSaved]_vars

=============================================================================
