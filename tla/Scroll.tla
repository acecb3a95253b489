------------------------------- MODULE Scroll -------------------------------
(***************************************************************************)
(* Where the background comes from: the scroll and address registers of    *)
(* the picture unit (src/src/ppu/mod.rs) and what Ppu::tick and            *)
(* render_pixel (src/src/ppu/render.rs) make of them as the beam, which is *)
(* module PpuTiming's, passes over the screen.                             *)
(*                                                                         *)
(* An address is the record of its fields: the row and the column of a     *)
(* tile in one of the four nametables, and the line inside the tile.  The  *)
(* screen is as wide as a nametable.  What video memory holds, sprites and *)
(* colours are left out: a pixel is the place it is fetched from.          *)
(***************************************************************************)
EXTENDS PpuTiming

CONSTANTS
    Tile,         \* 8: pixels and lines of a tile
    Columns,      \* 32: tiles in a row of a nametable
    Rows,         \* 30: rows of tiles in a nametable
    RowSpan,      \* 32: rows that the field for them can name
    LowSpan,      \* 256: addresses with the same high byte
    Lines,        \* 240: visible scanlines
    FirstCopy,    \* 280: the vertical copy is made from this cycle
    LastCopy,     \* 304: to this one
    Overshoot,    \* the last scanline on which step_frame may return
    AccessCycles, \* bound: the cycles at which the program gets at a register
    Starts,       \* bound: the scroll positions to begin with, as addresses
    Scrolls,      \* bound: the values written to $2005
    Strays,       \* bound: what a frame drawn before a state is loaded left
                  \*   in render_vram_addr
    MaxAccesses   \* bound: accesses to the registers but $2002

Width == Tile * Columns

ASSUME ScrollAssumption ==
    /\ Tile \in Nat \ {0, 1} /\ Columns \in Nat \ {0} /\ LowSpan \in Nat \ {0}
    /\ Rows \in Nat \ {0} /\ RowSpan \in Nat /\ Rows < RowSpan
    /\ Lines \in Nat \ {0} /\ Lines <= VblankLine
    /\ FirstCopy \in Nat /\ LastCopy \in Nat
    /\ Width + 1 < FirstCopy /\ FirstCopy <= LastCopy /\ LastCopy < LastCycle
    /\ Overshoot \in -1 .. Lines /\ AccessCycles \subseteq 0 .. LastCycle
    /\ MaxAccesses \in Nat /\ Starts \subseteq Nat /\ Strays \subseteq Nat
    /\ \A n \in Scrolls : n \in Nat /\ n \div Tile < Columns /\ n \div Tile < RowSpan

VARIABLES
    ppu,                \* the beam and the flags (PpuTiming)
    vram_addr,          \* v
    temp_vram_addr,     \* t
    fine_x,
    write_latch,
    increment,          \* how far $2007 moves v: 1, or a row (ctrl & 0x04)
    render_vram_addr,   \* v as the current line uses it
    render_fine_x,
    render_was_enabled,
    accesses,           \* accesses so far
    settled,            \* history: none since the last horizontal copy
    anchor,             \* history: the row of the picture that a line starts at
    told                \* history: what the program may think of $2006

registers == <<vram_addr, temp_vram_addr, fine_x, write_latch, increment>>
line == <<render_vram_addr, render_fine_x, render_was_enabled>>
vars == <<ppu, registers, line, accesses, settled, anchor, told>>

None == [line |-> -1, y |-> -1]

Lost == [half |-> FALSE, whole |-> FALSE, value |-> -1]   \* which write is next?
Clear == [half |-> FALSE, whole |-> FALSE, value |-> 0]   \* the first
Half(h) == [half |-> TRUE, whole |-> FALSE, value |-> h]
Whole(n) == [half |-> FALSE, whole |-> TRUE, value |-> n]

-----------------------------------------------------------------------------
(* Addresses as the numbers they are in the registers.                      *)

Number(a) ==
    (((a.fine_y * 2 + a.nt_y) * 2 + a.nt_x) * RowSpan + a.coarse_y) * Columns + a.coarse_x

\* The bit above the fields is left out: nothing looks at it.
AddressOf(n) ==
    LET row == n \div Columns
        table == row \div RowSpan
    IN  [ fine_y   |-> (table \div 4) % Tile,
          nt_y     |-> (table \div 2) % 2,
          nt_x     |-> table % 2,
          coarse_y |-> row % RowSpan,
          coarse_x |-> n % Columns ]

Zero == AddressOf(0)

\* The first byte of an address has no bit for the top of fine_y.
HighSpan == (4 * Tile * RowSpan * Columns) \div (2 * LowSpan)

\* The two bytes name half of the addresses, all of them once.
ASSUME SpanAssumption == 2 * (HighSpan * LowSpan) = 4 * Tile * RowSpan * Columns

\* A byte written to $2006.
Bytes == 0 .. (IF HighSpan > LowSpan THEN HighSpan ELSE LowSpan) - 1

\* The place in the four nametables, two by two, that an address is about.
Left(a, fine) == (a.nt_x * Columns + a.coarse_x) * Tile + fine
Top(a) == (a.nt_y * Rows + a.coarse_y) * Tile + a.fine_y

\* A frame begins, and the program has scrolled somewhere.
Init ==
    /\ \E on \in BOOLEAN : ppu = WriteMask(NewPpu, on)
    /\ temp_vram_addr \in {AddressOf(n) : n \in Starts} /\ fine_x \in 0 .. Tile - 1
    /\ write_latch \in BOOLEAN /\ told = IF write_latch THEN Lost ELSE Clear
    /\ vram_addr = Zero /\ increment = 1
    /\ render_vram_addr = Zero /\ render_fine_x = 0 /\ render_was_enabled = FALSE
    /\ accesses = 0 /\ settled = FALSE /\ anchor = None

-----------------------------------------------------------------------------
(* The beam.                                                                *)

Visible == ppu.scanline \in 0 .. Lines - 1
PreRender == ppu.scanline = -1
Drawing == Visible /\ ppu.cycle \in 1 .. Width

\* Mutant: the nametable is left after the last row that can be named.
IncrementToTheEnd(a) ==
    IF a.fine_y < Tile - 1           THEN [a EXCEPT !.fine_y = @ + 1]
    ELSE IF a.coarse_y = RowSpan - 1 THEN [a EXCEPT !.fine_y = 0, !.coarse_y = 0, !.nt_y = 1 - @]
    ELSE [a EXCEPT !.fine_y = 0, !.coarse_y = @ + 1]

\* increment_coarse_y.  Rows - 1 is the last row; a row below it, where a
\* nametable keeps its attributes, wraps without leaving the nametable.
IncrementCoarseY(a) ==
    IF a.fine_y < Tile - 1         THEN [a EXCEPT !.fine_y = @ + 1]
    ELSE IF a.coarse_y = Rows - 1  THEN [a EXCEPT !.fine_y = 0, !.coarse_y = 0, !.nt_y = 1 - @]
    ELSE [a EXCEPT !.fine_y = 0, !.coarse_y = (@ + 1) % RowSpan]

\* increment_render_coarse_x
IncrementRenderCoarseX(a) ==
    IF a.coarse_x = Columns - 1 THEN [a EXCEPT !.coarse_x = 0, !.nt_x = 1 - @]
                                ELSE [a EXCEPT !.coarse_x = @ + 1]

CopyHorizontal(a, t) == [a EXCEPT !.coarse_x = t.coarse_x, !.nt_x = t.nt_x]

CopyVertical(a, t) ==
    [a EXCEPT !.coarse_y = t.coarse_y, !.nt_y = t.nt_y, !.fine_y = t.fine_y]

\* What a tick makes of v.
MoveAddress ==
    LET on == ppu.rendering /\ (Visible \/ PreRender)
    IN  vram_addr' =
          IF on /\ ppu.cycle = Width          THEN IncrementCoarseY(vram_addr)
          ELSE IF on /\ ppu.cycle = Width + 1 THEN CopyHorizontal(vram_addr, temp_vram_addr)
          ELSE IF on /\ PreRender /\ ppu.cycle \in FirstCopy .. LastCopy
                 THEN CopyVertical(vram_addr, temp_vram_addr)
          ELSE vram_addr

\* Mutant: the line's address is taken only when rendering is turned on.
TakesWhenTurnedOn == Visible /\ ppu.rendering /\ ~render_was_enabled

\* The line starts from v, and again where rendering is turned on.
TakesAddress == Visible /\ (ppu.cycle = 0 \/ (ppu.rendering /\ ~render_was_enabled))

\* The tick draws a pixel from the line's address and steps it.
DrawPixel ==
    LET a == IF TakesAddress THEN vram_addr ELSE render_vram_addr
        x == IF TakesAddress THEN fine_x ELSE render_fine_x
        steps == Drawing /\ ppu.rendering
    IN  /\ render_fine_x' = IF steps THEN (x + 1) % Tile ELSE x
        /\ render_vram_addr' = IF steps /\ x = Tile - 1 THEN IncrementRenderCoarseX(a) ELSE a
        /\ render_was_enabled' = ppu.rendering

\* History.  The vertical copy anchors the picture to the first line; a frame
\* on part of which nothing is rendered has lost its anchor.
TakeNotes ==
    /\ settled' = (settled \/ (ppu.cycle = Width + 1 /\ ppu.rendering))
    /\ anchor' = IF ~ppu.rendering \/ ppu.scanline >= Lines THEN None
                 ELSE IF PreRender /\ ppu.cycle = LastCopy
                   THEN IF temp_vram_addr.coarse_y < Rows
                          THEN [line |-> 0, y |-> Top(temp_vram_addr)] ELSE None
                 ELSE anchor
    /\ told' = IF told.whole /\ ppu.rendering /\ (Visible \/ PreRender) THEN Clear ELSE told

Tick ==
    /\ ppu' = PpuTick[ppu]
    /\ MoveAddress
    /\ DrawPixel
    /\ TakeNotes
    /\ UNCHANGED <<temp_vram_addr, fine_x, write_latch, increment, accesses>>

-----------------------------------------------------------------------------
(* The registers.  A write to $2005 or $2006 is the first or the second of  *)
(* a pair, as write_latch says; both registers share it.                    *)

Access ==
    /\ accesses < MaxAccesses
    /\ ppu.cycle \in AccessCycles
    /\ accesses' = accesses + 1

\* $2000: the nametable in t, and how far $2007 moves v.
write_ctrl(nt_y, nt_x, inc) ==
    /\ temp_vram_addr' = [temp_vram_addr EXCEPT !.nt_y = nt_y, !.nt_x = nt_x]
    /\ increment' = inc
    /\ settled' = FALSE
    /\ told' = IF told.half THEN Lost ELSE told
    /\ UNCHANGED <<ppu, vram_addr, fine_x, write_latch, line, anchor>>

\* $2001: rendering on or off.
write_mask(on) ==
    /\ ppu' = WriteMask(ppu, on)
    /\ settled' = FALSE
    /\ anchor' = IF on THEN anchor ELSE None
    /\ UNCHANGED <<registers, line, told>>

\* First write of $2005: the pixels of the line are shifted at once.
ScrollAcross(x) ==
    /\ fine_x' = x % Tile
    /\ render_fine_x' = IF Visible /\ ppu.rendering THEN x % Tile ELSE render_fine_x
    /\ temp_vram_addr' = [temp_vram_addr EXCEPT !.coarse_x = x \div Tile]

\* Second write of $2005: nothing shows before the next frame.
ScrollDown(y) ==
    /\ temp_vram_addr' = [temp_vram_addr EXCEPT !.coarse_y = y \div Tile, !.fine_y = y % Tile]
    /\ UNCHANGED <<fine_x, render_fine_x>>

write_scroll(val) ==
    /\ IF write_latch THEN ScrollDown(val) ELSE ScrollAcross(val)
    /\ write_latch' = ~write_latch
    /\ settled' = FALSE
    /\ told' = Lost
    /\ UNCHANGED <<ppu, vram_addr, increment, render_vram_addr, render_was_enabled, anchor>>

\* First write of $2006.
HighByte(val) ==
    /\ temp_vram_addr' =
         AddressOf((val % HighSpan) * LowSpan + (Number(temp_vram_addr) % LowSpan))
    /\ UNCHANGED vram_addr

\* Mutant: v is what t was before the write.
CopiedTooEarly(val) ==
    /\ temp_vram_addr' =
         AddressOf((Number(temp_vram_addr) \div LowSpan) * LowSpan + (val % LowSpan))
    /\ vram_addr' = temp_vram_addr

\* Second write of $2006: v moves at once, and the next line of the picture is
\* another one.
LowByte(val) ==
    /\ temp_vram_addr' =
         AddressOf((Number(temp_vram_addr) \div LowSpan) * LowSpan + (val % LowSpan))
    /\ vram_addr' = temp_vram_addr'

\* History.  Where an address written while the screen is drawn makes the
\* picture go on.
AnchorAt(a) ==
    IF ppu.rendering /\ (Visible \/ PreRender) /\ a.coarse_y < Rows
      THEN [line |-> IF ppu.cycle <= Width THEN ppu.scanline ELSE ppu.scanline + 1,
            y    |-> Top(a)]
      ELSE None

write_addr(val) ==
    /\ IF write_latch THEN LowByte(val) ELSE HighByte(val)
    /\ write_latch' = ~write_latch
    /\ settled' = FALSE
    /\ anchor' = IF write_latch THEN AnchorAt(vram_addr') ELSE anchor
    /\ told' = CASE told = Lost -> Lost
                 [] told.half   -> Whole(told.value * LowSpan + (val % LowSpan))
                 [] OTHER       -> Half(val % HighSpan)
    /\ UNCHANGED <<ppu, fine_x, increment, line>>

\* $2007, read or written: v moves on, which a frame being drawn shows.
AccessData ==
    /\ vram_addr' = AddressOf(Number(vram_addr) + increment)
    /\ settled' = FALSE /\ anchor' = None
    /\ told' = IF told.whole THEN Clear ELSE told
    /\ UNCHANGED <<ppu, temp_vram_addr, fine_x, write_latch, increment, line>>

\* Mutant: the latch is left as it is.
StatusLeavesLatch ==
    /\ ppu' = ReadStatus(ppu)
    /\ told' = IF told.whole THEN told ELSE Clear
    /\ UNCHANGED <<registers, line, settled, anchor, accesses>>

\* $2002: the two-write registers start over.
read_status ==
    /\ ppu' = ReadStatus(ppu)
    /\ write_latch' = FALSE
    /\ told' = IF told.whole THEN told ELSE Clear
    /\ UNCHANGED <<vram_addr, temp_vram_addr, fine_x, increment, line, settled, anchor, accesses>>

RegisterAccess ==
    /\ Access
    /\ \/ \E nt_y, nt_x \in 0 .. 1, inc \in {1, Columns} : write_ctrl(nt_y, nt_x, inc)
       \/ \E on \in BOOLEAN : write_mask(on)
       \/ \E val \in Scrolls : write_scroll(val)
       \/ \E val \in Bytes : write_addr(val)
       \/ AccessData

\* A state saved between two frames is loaded into a machine that has drawn
\* something else, or nothing: the line's own registers are not in the state.
restore_state(stray, x, on) ==
    /\ ppu.scanline <= Overshoot /\ ppu.cycle \in AccessCycles
    /\ render_vram_addr' = stray /\ render_fine_x' = x /\ render_was_enabled' = on
    /\ settled' = (settled /\ ~Drawing)
    /\ UNCHANGED <<ppu, registers, accesses, anchor, told>>

Next ==
    \/ Tick
    \/ RegisterAccess
    \/ ppu.cycle \in AccessCycles /\ read_status
    \/ \E stray \in Strays, on \in BOOLEAN : restore_state(AddressOf(stray), 0, on)

Spec == Init /\ [][Next]_vars

-----------------------------------------------------------------------------
(* Properties.                                                              *)

\* While nobody touches the registers in a line (tick, render_pixel), its pixel
\* x is fetched x pixels right of the scroll position that was written, and its
\* row is as far below the row the picture was anchored to (by the start of the
\* frame or by $2006 in the middle of it) as the line is below the anchor's.
\* Both wrap around the two by two nametables.  A line at the top of the screen
\* that a loaded state left half drawn is the only one this says nothing of.
PictureFollowsScroll ==
    Drawing /\ settled /\ anchor # None /\ anchor.line <= ppu.scanline
      => /\ Left(render_vram_addr, render_fine_x)
              = (Left(temp_vram_addr, fine_x) + ppu.cycle - 1) % (2 * Width)
         /\ Top(render_vram_addr)
              = (anchor.y + ppu.scanline - anchor.line) % (2 * Rows * Tile)

\* write_addr and read_status: the two halves of an address that follow a read
\* of $2002, or another whole address, are v until the program or the beam moves
\* it, whatever had been written before to the two registers that share the
\* latch.
AddressArrivesWhole == told.whole => Number(vram_addr) = told.value

=============================================================================
