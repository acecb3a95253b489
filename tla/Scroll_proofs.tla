---------------------------- MODULE Scroll_proofs ----------------------------
(***************************************************************************)
(* Proofs about Scroll, for screens, tiles and nametables of every size:   *)
(* the picture follows the scroll registers, and an address arrives whole. *)
(***************************************************************************)
EXTENDS Scroll, TLAPS

Address ==
    [ fine_y   : 0 .. Tile - 1,
      nt_y     : 0 .. 1,
      nt_x     : 0 .. 1,
      coarse_y : 0 .. RowSpan - 1,
      coarse_x : 0 .. Columns - 1 ]

\* The type invariant.  What a line uses is an address again, whatever a state
\* was loaded into.
TypeOK ==
    /\ ppu \in PpuType
    /\ vram_addr \in Address /\ temp_vram_addr \in Address /\ render_vram_addr \in Address
    /\ fine_x \in 0 .. Tile - 1 /\ render_fine_x \in 0 .. Tile - 1
    /\ write_latch \in BOOLEAN /\ increment \in {1, Columns}
    /\ render_was_enabled \in BOOLEAN
    /\ accesses \in Nat

-----------------------------------------------------------------------------
(* Across.  Once the columns are copied, and while nobody touches the       *)
(* registers, v has the columns of t; a pixel is fetched as far right of     *)
(* them as it is drawn.                                                      *)

SameColumn(a, b) == a.coarse_x = b.coarse_x /\ a.nt_x = b.nt_x
SameRow(a, b) == a.coarse_y = b.coarse_y /\ a.nt_y = b.nt_y /\ a.fine_y = b.fine_y

SettledInv ==
    /\ settled \in BOOLEAN
    /\ settled => ppu.rendering
    /\ settled /\ (Visible \/ (PreRender /\ ppu.cycle > Width + 1))
         => SameColumn(vram_addr, temp_vram_addr)

\* No line is begun twice.
LineInv ==
    settled /\ Drawing =>
      /\ render_was_enabled
      /\ SameRow(render_vram_addr, vram_addr)
      /\ Left(render_vram_addr, render_fine_x)
            = (Left(temp_vram_addr, fine_x) + ppu.cycle - 1) % (2 * Width)

(* Down.  The line that v is for; behind the last pixel it is the next one. *)

LineOfV == IF ppu.cycle <= Width THEN ppu.scanline ELSE ppu.scanline + 1

AnchorInv ==
    /\ anchor = None \/ (anchor.line \in Int /\ anchor.y \in 0 .. 2 * Rows * Tile - 1)
    /\ anchor # None => ppu.rendering
    /\ anchor # None /\ (Visible \/ (PreRender /\ ppu.cycle > LastCopy)) =>
         /\ anchor.line <= LineOfV
         /\ vram_addr.coarse_y < Rows
         /\ Top(vram_addr) = (anchor.y + LineOfV - anchor.line) % (2 * Rows * Tile)

(* What the program may think of $2006.                                      *)

ToldInv ==
    /\ \/ told = Lost
       \/ told = Clear /\ ~write_latch
       \/ /\ told = Half(told.value) /\ told.value \in 0 .. HighSpan - 1
          /\ write_latch /\ Number(temp_vram_addr) \div LowSpan = told.value
       \/ /\ told = Whole(told.value)
          /\ ~write_latch /\ Number(vram_addr) = told.value

IInv == TypeOK /\ SettledInv /\ LineInv /\ AnchorInv /\ ToldInv

-----------------------------------------------------------------------------
(* Quotients and remainders.                                                *)

LEMMA Euclid ==
    ASSUME NEW i \in Nat, NEW d \in Nat, d > 0
    PROVE  i = d * (i \div d) + (i % d)
  OBVIOUS

LEMMA DivMod ==
    ASSUME NEW n \in Nat, NEW m \in Nat \ {0}
    PROVE  n \div m \in Nat /\ n % m \in 0 .. m - 1 /\ n = m * (n \div m) + (n % m)
<1>1. n \div m \in Nat /\ n % m \in 0 .. m - 1
  OBVIOUS
<1>2. m \in Nat /\ m > 0
  OBVIOUS
<1>3. n = m * (n \div m) + (n % m)
  BY <1>2, Euclid, Zenon
<1>4. QED
  BY <1>1, <1>3, Zenon

LEMMA Unique ==
    ASSUME NEW m \in Nat \ {0}, NEW q \in Nat, NEW r \in 0 .. m - 1
    PROVE  (m * q + r) \div m = q /\ (m * q + r) % m = r
<1>1. PICK n, a, b : n = m * q + r /\ a = n \div m /\ b = n % m
  OBVIOUS
<1>2. n \in Nat /\ a \in Nat /\ b \in 0 .. m - 1 /\ n = m * a + b
  <2>1. n \in Nat
    BY <1>1
  <2>2. QED
    BY <1>1, <2>1, DivMod
<1>3. m * (q - a) = b - r
  BY <1>1, <1>2
<1>4. q = a
  <2>1. CASE q - a >= 1
    <3>1. m * (q - a) >= m * 1
      BY <1>2, <2>1
    <3>2. QED
      BY <1>2, <1>3, <3>1
  <2>2. CASE q - a <= -1
    <3>1. m * (q - a) <= m * (-1)
      BY <1>2, <2>2
    <3>2. QED
      BY <1>2, <1>3, <3>1
  <2>3. QED
    BY <1>2, <2>1, <2>2
<1>5. QED
  BY <1>1, <1>2, <1>3, <1>4

\* A number of less than k * m has less than k whole ms.
LEMMA DivLess ==
    ASSUME NEW n \in Nat, NEW m \in Nat \ {0}, NEW k \in Nat, n < k * m
    PROVE  n \div m < k
<1>1. PICK a : a = n \div m
  OBVIOUS
<1>2. a \in Nat /\ m * a <= n
  BY <1>1, DivMod
<1>3. CASE a >= k
  <2>1. m * a >= m * k
    BY <1>2, <1>3
  <2>2. QED
    BY <1>2, <2>1
<1>4. QED
  BY <1>1, <1>2, <1>3

\* Where adding one wraps, it does not matter when the remainder is taken.
LEMMA Succ ==
    ASSUME NEW x \in Nat, NEW m \in Nat \ {0}
    PROVE  ((x % m) + 1) % m = (x + 1) % m
<1>1. PICK q, r : q = x \div m /\ r = x % m
  OBVIOUS
<1>2. q \in Nat /\ r \in 0 .. m - 1 /\ x = m * q + r
  BY <1>1, DivMod
<1>3. CASE r + 1 = m
  <2>1. x + 1 = m * (q + 1) + 0 /\ r + 1 = m * 1 + 0
    BY <1>2, <1>3
  <2>2. (x + 1) % m = 0 /\ (r + 1) % m = 0
    BY <1>2, <2>1, Unique
  <2>3. QED
    BY <1>1, <2>2
<1>4. CASE r + 1 # m
  <2>1. x + 1 = m * q + (r + 1) /\ r + 1 = m * 0 + (r + 1) /\ r + 1 \in 0 .. m - 1
    BY <1>2, <1>4
  <2>2. (x + 1) % m = r + 1 /\ (r + 1) % m = r + 1
    BY <1>2, <2>1, Unique
  <2>3. QED
    BY <1>1, <2>2
<1>5. QED
  BY <1>3, <1>4

LEMMA Small ==
    ASSUME NEW m \in Nat \ {0}, NEW x \in 0 .. m - 1
    PROVE  x % m = x
<1>1. x = m * 0 + x
  OBVIOUS
<1>2. QED
  BY <1>1, Unique

\* One step along a row of k tiles of t pixels, which is a ring.
LEMMA Along ==
    ASSUME NEW k \in Nat \ {0}, NEW t \in Nat \ {0}, NEW a \in 0 .. k - 1, NEW f \in 0 .. t - 1
    PROVE  /\ k * t \in Nat \ {0}
           /\ a * t + f \in 0 .. k * t - 1
           /\ f < t - 1 => a * t + (f + 1) = (a * t + f + 1) % (k * t)
           /\ f = t - 1 /\ a < k - 1 => (a + 1) * t + 0 = (a * t + f + 1) % (k * t)
           /\ f = t - 1 /\ a = k - 1 => 0 * t + 0 = (a * t + f + 1) % (k * t)
<1>1. k * t \in Nat \ {0}
  OBVIOUS
<1>2. a * t <= (k - 1) * t /\ a * t >= 0 /\ (k - 1) * t = k * t - t
  OBVIOUS
<1>3. a * t \in Nat /\ a * t <= k * t - t
  BY <1>1, <1>2
<1>4. a * t + f \in 0 .. k * t - 1
  BY <1>1, <1>3
<1>5. ASSUME f < t - 1 PROVE a * t + (f + 1) = (a * t + f + 1) % (k * t)
  <2>1. a * t + f + 1 \in 0 .. k * t - 1 /\ a * t + (f + 1) = a * t + f + 1
    BY <1>1, <1>3, <1>5
  <2>2. QED
    BY <1>1, <2>1, Small
<1>6. ASSUME f = t - 1, a < k - 1 PROVE (a + 1) * t + 0 = (a * t + f + 1) % (k * t)
  <2>1. (a + 1) * t = a * t + t /\ (a + 1) * t <= (k - 1) * t
    BY <1>6
  <2>2. a * t + f + 1 \in 0 .. k * t - 1 /\ (a + 1) * t + 0 = a * t + f + 1
    BY <1>1, <1>2, <1>3, <1>6, <2>1
  <2>3. QED
    BY <1>1, <2>2, Small
<1>7. ASSUME f = t - 1, a = k - 1 PROVE 0 * t + 0 = (a * t + f + 1) % (k * t)
  <2>1. a * t + f + 1 = (k * t) * 1 + 0
    BY <1>1, <1>2, <1>7
  <2>2. QED
    BY <1>1, <2>1, Unique
<1>8. QED
  BY <1>1, <1>4, <1>5, <1>6, <1>7

-----------------------------------------------------------------------------
(* The screen.                                                              *)

LEMMA Sizes ==
    /\ Tile \in Nat \ {0} /\ Columns \in Nat \ {0} /\ Rows \in Nat \ {0}
    /\ RowSpan \in Nat \ {0} /\ LowSpan \in Nat \ {0} /\ HighSpan \in Nat \ {0}
    /\ Width \in Nat \ {0}
    /\ 2 * Columns \in Nat \ {0} /\ 2 * Rows \in Nat \ {0}
    /\ (2 * Columns) * Tile = 2 * Width
    /\ (2 * Rows) * Tile = 2 * Rows * Tile
<1>1. /\ Tile \in Nat \ {0} /\ Columns \in Nat \ {0} /\ Rows \in Nat \ {0}
      /\ RowSpan \in Nat \ {0} /\ LowSpan \in Nat \ {0}
  BY ScrollAssumption
<1>2. Width \in Nat \ {0} /\ (2 * Columns) * Tile = 2 * Width
  BY <1>1 DEF Width
<1>3. 4 * Tile * RowSpan * Columns \in Nat /\ 4 * Tile * RowSpan * Columns > 0
  <2>1. Tile * RowSpan \in Nat \ {0}
    BY <1>1
  <2>2. (Tile * RowSpan) * Columns \in Nat \ {0}
    BY <1>1, <2>1
  <2>3. 4 * Tile * RowSpan * Columns = 4 * ((Tile * RowSpan) * Columns)
    BY <1>1
  <2>4. QED
    BY <2>2, <2>3
<1>4. HighSpan \in Nat
  <2>1. 2 * LowSpan \in Nat \ {0}
    BY <1>1
  <2>2. QED
    BY <1>3, <2>1, DivMod, Zenon DEF HighSpan
<1>5. HighSpan # 0
  <2>1. SUFFICES ASSUME HighSpan = 0 PROVE FALSE
    OBVIOUS
  <2>2. 2 * (0 * LowSpan) = 4 * Tile * RowSpan * Columns
    BY <2>1, SpanAssumption, Zenon
  <2>3. 2 * (0 * LowSpan) = 0
    BY <1>1
  <2>4. QED
    BY <1>3, <2>2, <2>3
<1>6. 2 * Columns \in Nat \ {0} /\ 2 * Rows \in Nat \ {0} /\ (2 * Rows) * Tile = 2 * Rows * Tile
  BY <1>1
<1>7. QED
  BY <1>1, <1>2, <1>4, <1>5, <1>6, Zenon

\* Where the next tick finds the beam.
LEMMA BeamStep ==
    ASSUME NEW p \in PpuType
    PROVE  /\ PpuTick[p] \in PpuType
           /\ PpuTick[p].rendering = p.rendering
           /\ \/ /\ p.cycle < LastCycle
                 /\ PpuTick[p].cycle = p.cycle + 1 /\ PpuTick[p].scanline = p.scanline
              \/ /\ p.cycle = LastCycle /\ p.scanline < LastLine
                 /\ PpuTick[p].cycle = 0 /\ PpuTick[p].scanline = p.scanline + 1
              \/ /\ p.cycle = LastCycle /\ p.scanline = LastLine
                 /\ PpuTick[p].cycle = 0 /\ PpuTick[p].scanline = -1
              \/ /\ p.cycle = LastCycle - 1 /\ p.scanline = -1 /\ p.rendering
                 /\ PpuTick[p].cycle = 0 /\ PpuTick[p].scanline = 0
<1>1. PICK f : f = SetFlags(p)
  OBVIOUS
<1>2. /\ f \in PpuType
      /\ f.cycle = p.cycle /\ f.scanline = p.scanline /\ f.rendering = p.rendering
  <2>1. (p.nmi_triggered \/ p.nmi_enabled) \in BOOLEAN
    OBVIOUS
  <2>2. PICK b \in BOOLEAN : b = (p.nmi_triggered \/ p.nmi_enabled)
    BY <2>1
  <2>3. f \in {[p EXCEPT !.vblank = TRUE, !.nmi_triggered = b], [p EXCEPT !.vblank = FALSE], p}
    BY <1>1, <2>2, Zenon DEF SetFlags
  <2>4. QED
    BY <2>3, Zenon DEF PpuType
<1>3. PICK g : g = Advance(f)
  OBVIOUS
<1>4. /\ g \in PpuType /\ g.rendering = p.rendering
      /\ \/ p.cycle < LastCycle /\ g.cycle = p.cycle + 1 /\ g.scanline = p.scanline
         \/ /\ p.cycle = LastCycle /\ p.scanline < LastLine
            /\ g.cycle = 0 /\ g.scanline = p.scanline + 1
         \/ /\ p.cycle = LastCycle /\ p.scanline = LastLine
            /\ g.cycle = 0 /\ g.scanline = -1
  <2>1. /\ f.cycle \in 0 .. LastCycle /\ f.scanline \in -1 .. LastLine
        /\ 0 \in 0 .. LastCycle /\ -1 \in -1 .. LastLine
        /\ f.cycle < LastCycle => f.cycle + 1 \in 0 .. LastCycle
        /\ f.scanline < LastLine => f.scanline + 1 \in -1 .. LastLine
        /\ f.cycle < LastCycle \/ f.cycle = LastCycle
        /\ f.scanline < LastLine \/ f.scanline = LastLine
    <3>1. f.cycle \in 0 .. LastCycle /\ f.scanline \in -1 .. LastLine
      BY <1>2, Zenon DEF PpuType
    <3>2. QED
      BY <3>1, BeamAssumption
  <2>2. PICK b \in BOOLEAN : b = ~f.odd_frame
    OBVIOUS
  <2>3. CASE f.cycle < LastCycle
    <3>1. g = [f EXCEPT !.cycle = f.cycle + 1]
      BY <1>3, <2>3, Zenon DEF Advance
    <3>2. QED
      BY <1>2, <2>1, <2>3, <3>1, Zenon DEF PpuType
  <2>4. CASE ~(f.cycle < LastCycle) /\ f.scanline < LastLine
    <3>1. g = [f EXCEPT !.cycle = 0, !.scanline = f.scanline + 1]
      BY <1>3, <2>4, Zenon DEF Advance
    <3>2. QED
      BY <1>2, <2>1, <2>4, <3>1, Zenon DEF PpuType
  <2>5. CASE ~(f.cycle < LastCycle) /\ ~(f.scanline < LastLine)
    <3>1. g = [f EXCEPT !.cycle = 0, !.scanline = -1, !.frame_complete = TRUE, !.odd_frame = b]
      BY <1>3, <2>2, <2>5, Zenon DEF Advance
    <3>2. QED
      BY <1>2, <2>1, <2>5, <3>1, Zenon DEF PpuType
  <2>6. QED
    BY <2>3, <2>4, <2>5, Zenon
<1>5. PpuTick[p] = SkipOddCycle(g)
  BY <1>1, <1>3, Zenon DEF PpuTick
<1>6. CASE g.odd_frame /\ g.rendering /\ g.scanline = -1 /\ g.cycle = LastCycle
  <2>1. PpuTick[p] = [g EXCEPT !.cycle = 0, !.scanline = 0]
    BY <1>5, <1>6, Zenon DEF SkipOddCycle
  <2>2. 0 \in 0 .. LastCycle /\ 0 \in -1 .. LastLine
    BY BeamAssumption
  <2>3. PpuTick[p] \in PpuType
    BY <1>4, <2>1, <2>2, Zenon DEF PpuType
  <2>4. /\ PpuTick[p].rendering = p.rendering
        /\ PpuTick[p].cycle = 0 /\ PpuTick[p].scanline = 0
    BY <1>4, <2>1, Zenon DEF PpuType
  <2>5. p.cycle = LastCycle - 1 /\ p.scanline = -1 /\ p.rendering
    <3>1. p.cycle \in 0 .. LastCycle /\ p.scanline \in -1 .. LastLine
      BY Zenon DEF PpuType
    <3>2. QED
      BY <1>4, <1>6, <3>1, BeamAssumption
  <2>6. QED
    BY <2>3, <2>4, <2>5, Zenon
<1>7. CASE ~(g.odd_frame /\ g.rendering /\ g.scanline = -1 /\ g.cycle = LastCycle)
  <2>1. PpuTick[p] = g
    BY <1>5, <1>7, Zenon DEF SkipOddCycle
  <2>2. QED
    BY <1>4, <2>1, Zenon
<1>8. QED
  BY <1>6, <1>7

-----------------------------------------------------------------------------
(* Addresses and their numbers.                                             *)

LEMMA AddressType == \A n \in Nat : AddressOf(n) \in Address
<1> SUFFICES ASSUME NEW n \in Nat PROVE AddressOf(n) \in Address
  OBVIOUS
<1>1. PICK r : r = n \div Columns
  OBVIOUS
<1>2. PICK t : t = r \div RowSpan
  OBVIOUS
<1>3. r \in Nat /\ n % Columns \in 0 .. Columns - 1
  BY <1>1, Sizes, DivMod, Zenon
<1>4. t \in Nat /\ r % RowSpan \in 0 .. RowSpan - 1
  BY <1>2, <1>3, Sizes, DivMod, Zenon
<1>5. 2 \in Nat \ {0} /\ 4 \in Nat \ {0} /\ 2 - 1 = 1
  OBVIOUS
<1>6. t % 2 \in 0 .. 1 /\ t \div 2 \in Nat /\ t \div 4 \in Nat
  BY <1>4, <1>5, DivMod, Zenon
<1>7. (t \div 2) % 2 \in 0 .. 1 /\ (t \div 4) % Tile \in 0 .. Tile - 1
  BY <1>5, <1>6, Sizes, DivMod, Zenon
<1>8. AddressOf(n) = [ fine_y |-> (t \div 4) % Tile, nt_y |-> (t \div 2) % 2, nt_x |-> t % 2,
                       coarse_y |-> r % RowSpan, coarse_x |-> n % Columns ]
  BY <1>1, <1>2, Zenon DEF AddressOf
<1>9. QED
  <2>1. PICK f, ny, nx, cy, cx :
          /\ f = (t \div 4) % Tile /\ ny = (t \div 2) % 2 /\ nx = t % 2
          /\ cy = r % RowSpan /\ cx = n % Columns
    OBVIOUS
  <2>2. /\ f \in 0 .. Tile - 1 /\ ny \in 0 .. 1 /\ nx \in 0 .. 1
        /\ cy \in 0 .. RowSpan - 1 /\ cx \in 0 .. Columns - 1
    BY <1>3, <1>4, <1>6, <1>7, <2>1, Zenon
  <2>3. AddressOf(n) = [ fine_y |-> f, nt_y |-> ny, nt_x |-> nx, coarse_y |-> cy, coarse_x |-> cx ]
    BY <1>8, <2>1, Zenon
  <2>4. QED
    BY <2>2, <2>3 DEF Address

LEMMA NumberType == \A a \in Address : Number(a) \in Nat
<1> SUFFICES ASSUME NEW a \in Address PROVE Number(a) \in Nat
  OBVIOUS
<1>1. /\ a.fine_y \in 0 .. Tile - 1 /\ a.nt_y \in 0 .. 1 /\ a.nt_x \in 0 .. 1
      /\ a.coarse_y \in 0 .. RowSpan - 1 /\ a.coarse_x \in 0 .. Columns - 1
  BY Zenon DEF Address
<1>2. PICK t : t = (a.fine_y * 2 + a.nt_y) * 2 + a.nt_x
  OBVIOUS
<1>3. t \in Nat /\ a.coarse_y \in Nat /\ a.coarse_x \in Nat /\ RowSpan \in Nat /\ Columns \in Nat
  BY <1>1, <1>2, Sizes
<1>4. t * RowSpan + a.coarse_y \in Nat
  BY <1>3
<1>5. PICK r : r = t * RowSpan + a.coarse_y
  OBVIOUS
<1>6. r * Columns + a.coarse_x \in Nat
  BY <1>3, <1>4, <1>5
<1>7. QED
  BY <1>2, <1>5, <1>6, Zenon DEF Number

LEMMA RoundTrip ==
    ASSUME NEW n \in Nat, n < 4 * Tile * RowSpan * Columns
    PROVE  Number(AddressOf(n)) = n
<1>1. PICK r, cx : r = n \div Columns /\ cx = n % Columns
  OBVIOUS
<1>2. PICK t, cy : t = r \div RowSpan /\ cy = r % RowSpan
  OBVIOUS
<1>3. PICK h, nx : h = t \div 2 /\ nx = t % 2
  OBVIOUS
<1>4. PICK f, ny : f = h \div 2 /\ ny = h % 2
  OBVIOUS
<1>5. 2 \in Nat \ {0} /\ 2 - 1 = 1
  OBVIOUS
<1>6. r \in Nat /\ n = Columns * r + cx /\ cx \in 0 .. Columns - 1
  BY <1>1, Sizes, DivMod, Zenon
<1>7. t \in Nat /\ r = RowSpan * t + cy /\ cy \in 0 .. RowSpan - 1
  BY <1>2, <1>6, Sizes, DivMod, Zenon
<1>8. h \in Nat /\ t = 2 * h + nx /\ nx \in 0 .. 1
  BY <1>3, <1>5, <1>7, DivMod, Zenon
<1>9. f \in Nat /\ h = 2 * f + ny /\ ny \in 0 .. 1
  BY <1>4, <1>5, <1>8, DivMod, Zenon
<1>10. t \div 4 = f
  <2>1. t = 4 * f + (2 * ny + nx) /\ 2 * ny + nx \in 0 .. 4 - 1 /\ 4 \in Nat \ {0}
    BY <1>8, <1>9
  <2>2. QED
    BY <1>9, <2>1, Unique, Zenon
<1>11. f < Tile
  <2>1. 4 * Tile \in Nat /\ 4 * Tile = Tile * 4 /\ 4 \in Nat \ {0} /\ Tile \in Nat
    BY Sizes
  <2>2. (4 * Tile) * RowSpan \in Nat
    BY <2>1, Sizes
  <2>3. r < (4 * Tile) * RowSpan
    BY <1>1, <2>2, Sizes, DivLess, Zenon
  <2>4. t < Tile * 4
    BY <1>2, <1>6, <2>1, <2>3, Sizes, DivLess, Zenon
  <2>5. QED
    BY <1>7, <1>10, <2>1, <2>4, DivLess, Zenon
<1>12. f % Tile = f
  <2>1. f \in 0 .. Tile - 1
    BY <1>9, <1>11, Sizes
  <2>2. QED
    BY <2>1, Sizes, Small, Zenon
<1>13. PICK a : a = AddressOf(n)
  OBVIOUS
<1>14. a = [ fine_y |-> f, nt_y |-> ny, nt_x |-> nx, coarse_y |-> cy, coarse_x |-> cx ]
  BY <1>1, <1>2, <1>3, <1>4, <1>10, <1>12, <1>13, Zenon DEF AddressOf
<1>15. Number(a) = (((f * 2 + ny) * 2 + nx) * RowSpan + cy) * Columns + cx
  BY <1>14, Zenon DEF Number
<1>16. (f * 2 + ny) * 2 + nx = t
  BY <1>8, <1>9
<1>17. t * RowSpan + cy = r
  BY <1>7, Sizes
<1>18. r * Columns + cx = n
  BY <1>6, Sizes
<1>19. QED
  BY <1>13, <1>15, <1>16, <1>17, <1>18, Zenon

LEMMA FieldTypes ==
    ASSUME NEW a \in Address
    PROVE  /\ a.fine_y \in 0 .. Tile - 1 /\ a.nt_y \in 0 .. 1 /\ a.nt_x \in 0 .. 1
           /\ a.coarse_y \in 0 .. RowSpan - 1 /\ a.coarse_x \in 0 .. Columns - 1
  BY Zenon DEF Address

\* How far right of the corner of the nametables a place is, and how far down.
LEMMA LeftType ==
    ASSUME NEW a \in Address, NEW f \in 0 .. Tile - 1
    PROVE  Left(a, f) \in 0 .. 2 * Width - 1
<1>1. PICK k : k = a.nt_x * Columns + a.coarse_x
  OBVIOUS
<1>2. k \in 0 .. 2 * Columns - 1
  <2>1. CASE a.nt_x = 0
    BY <1>1, <2>1, FieldTypes, Sizes
  <2>2. CASE a.nt_x = 1
    BY <1>1, <2>2, FieldTypes, Sizes
  <2>3. a.nt_x = 0 \/ a.nt_x = 1
    BY FieldTypes
  <2>4. QED
    BY <2>1, <2>2, <2>3
<1>3. k * Tile + f \in 0 .. (2 * Columns) * Tile - 1
  BY <1>2, Sizes, Along, Zenon
<1>4. QED
  BY <1>1, <1>3, Sizes, Zenon DEF Left

LEMMA TopType ==
    ASSUME NEW a \in Address, a.coarse_y < Rows
    PROVE  Top(a) \in 0 .. 2 * Rows * Tile - 1
<1>1. PICK k : k = a.nt_y * Rows + a.coarse_y
  OBVIOUS
<1>2. k \in 0 .. 2 * Rows - 1
  <2>1. CASE a.nt_y = 0
    BY <1>1, <2>1, FieldTypes, Sizes
  <2>2. CASE a.nt_y = 1
    BY <1>1, <2>2, FieldTypes, Sizes
  <2>3. a.nt_y = 0 \/ a.nt_y = 1
    BY FieldTypes
  <2>4. QED
    BY <2>1, <2>2, <2>3
<1>3. k * Tile + a.fine_y \in 0 .. (2 * Rows) * Tile - 1
  BY <1>2, FieldTypes, Sizes, Along, Zenon
<1>4. QED
  BY <1>1, <1>3, Sizes, Zenon DEF Top

\* One step along two nametables of n tiles: the tile's place in the ring.
LEMMA TwoTables ==
    ASSUME NEW n \in Nat \ {0}, NEW nt \in 0 .. 1, NEW c \in 0 .. n - 1
    PROVE  /\ nt * n + c \in 0 .. 2 * n - 1
           /\ c < n - 1 => nt * n + c < 2 * n - 1 /\ nt * n + (c + 1) = (nt * n + c) + 1
           /\ c = n - 1 => \/ /\ nt * n + c < 2 * n - 1
                              /\ (1 - nt) * n + 0 = (nt * n + c) + 1
                           \/ nt * n + c = 2 * n - 1 /\ (1 - nt) * n + 0 = 0
<1>1. CASE nt = 0
  BY <1>1
<1>2. CASE nt = 1
  BY <1>2
<1>3. QED
  BY <1>1, <1>2

\* increment_coarse_y keeps the column, and moves a row that is in the picture
\* by one line.
LEMMA RowStep ==
    ASSUME NEW a \in Address
    PROVE  /\ IncrementCoarseY(a) \in Address
           /\ SameColumn(IncrementCoarseY(a), a)
           /\ a.coarse_y < Rows =>
                /\ IncrementCoarseY(a).coarse_y < Rows
                /\ Top(IncrementCoarseY(a)) = (Top(a) + 1) % (2 * Rows * Tile)
<1>1. PICK b : b = IncrementCoarseY(a)
  OBVIOUS
<1>2. PICK j : j = a.nt_y * Rows + a.coarse_y
  OBVIOUS
<1>3. /\ a.fine_y \in 0 .. Tile - 1 /\ a.nt_y \in 0 .. 1 /\ a.nt_x \in 0 .. 1
      /\ a.coarse_y \in 0 .. RowSpan - 1 /\ a.coarse_x \in 0 .. Columns - 1
  BY FieldTypes, Zenon
<1>4. Top(a) = j * Tile + a.fine_y
  BY <1>2, Zenon DEF Top
<1>5. Top(b) = (b.nt_y * Rows + b.coarse_y) * Tile + b.fine_y
  BY Zenon DEF Top
<1>6. /\ 0 \in 0 .. Tile - 1 /\ 0 \in 0 .. RowSpan - 1 /\ 1 - a.nt_y \in 0 .. 1
      /\ a.fine_y < Tile - 1 => a.fine_y + 1 \in 0 .. Tile - 1
      /\ ~(a.fine_y < Tile - 1) => a.fine_y = Tile - 1
      /\ a.coarse_y < Rows => a.coarse_y \in 0 .. Rows - 1
      /\ 0 < Rows /\ Rows - 1 < Rows
  BY <1>3, Sizes
<1>7. ASSUME a.coarse_y < Rows
      PROVE  /\ a.coarse_y < Rows - 1 =>
                  j < 2 * Rows - 1 /\ a.nt_y * Rows + (a.coarse_y + 1) = j + 1
             /\ a.coarse_y = Rows - 1 =>
                  \/ j < 2 * Rows - 1 /\ (1 - a.nt_y) * Rows + 0 = j + 1
                  \/ j = 2 * Rows - 1 /\ (1 - a.nt_y) * Rows + 0 = 0
             /\ a.fine_y < Tile - 1 =>
                  j * Tile + (a.fine_y + 1) = (j * Tile + a.fine_y + 1) % ((2 * Rows) * Tile)
             /\ a.fine_y = Tile - 1 /\ j < 2 * Rows - 1 =>
                  (j + 1) * Tile + 0 = (j * Tile + a.fine_y + 1) % ((2 * Rows) * Tile)
             /\ a.fine_y = Tile - 1 /\ j = 2 * Rows - 1 =>
                  0 * Tile + 0 = (j * Tile + a.fine_y + 1) % ((2 * Rows) * Tile)
  <2>1. Rows \in Nat \ {0} /\ a.coarse_y \in 0 .. Rows - 1
    BY <1>6, <1>7, Sizes
  <2>2. /\ j \in 0 .. 2 * Rows - 1
        /\ a.coarse_y < Rows - 1 =>
             j < 2 * Rows - 1 /\ a.nt_y * Rows + (a.coarse_y + 1) = j + 1
        /\ a.coarse_y = Rows - 1 =>
             \/ j < 2 * Rows - 1 /\ (1 - a.nt_y) * Rows + 0 = j + 1
             \/ j = 2 * Rows - 1 /\ (1 - a.nt_y) * Rows + 0 = 0
    BY <1>2, <1>3, <2>1, TwoTables
  <2>3. 2 * Rows \in Nat \ {0} /\ Tile \in Nat \ {0}
    BY Sizes, Zenon
  <2>4. PICK f : f = a.fine_y
    OBVIOUS
  <2>5. PICK k : k = 2 * Rows
    OBVIOUS
  <2>6. k \in Nat \ {0} /\ Tile \in Nat \ {0} /\ j \in 0 .. k - 1 /\ f \in 0 .. Tile - 1
    BY <1>3, <2>2, <2>3, <2>4, <2>5, Zenon
  <2>7. /\ k * Tile \in Nat \ {0}
        /\ j * Tile + f \in 0 .. k * Tile - 1
        /\ f < Tile - 1 => j * Tile + (f + 1) = (j * Tile + f + 1) % (k * Tile)
        /\ f = Tile - 1 /\ j < k - 1 => (j + 1) * Tile + 0 = (j * Tile + f + 1) % (k * Tile)
        /\ f = Tile - 1 /\ j = k - 1 => 0 * Tile + 0 = (j * Tile + f + 1) % (k * Tile)
    BY <2>6, Along, ZenonT(60)
  <2>8. QED
    BY <2>2, <2>4, <2>5, <2>7, Zenon
<1>8. CASE a.fine_y < Tile - 1
  <2>1. b = [a EXCEPT !.fine_y = a.fine_y + 1]
    BY <1>1, <1>8, Zenon DEF IncrementCoarseY
  <2>2. b \in Address
    BY <1>6, <1>8, <2>1, Zenon DEF Address
  <2>3. /\ b.coarse_x = a.coarse_x /\ b.nt_x = a.nt_x
        /\ b.fine_y = a.fine_y + 1 /\ b.coarse_y = a.coarse_y /\ b.nt_y = a.nt_y
    BY <2>1, Zenon DEF Address
  <2>4. ASSUME a.coarse_y < Rows PROVE Top(b) = (Top(a) + 1) % (2 * Rows * Tile)
    <3>1. j * Tile + (a.fine_y + 1) = (j * Tile + a.fine_y + 1) % ((2 * Rows) * Tile)
      BY <1>7, <1>8, <2>4, Zenon
    <3>2. QED
      BY <1>2, <1>4, <1>5, <2>3, <3>1, Sizes, Zenon
  <2>5. QED
    BY <1>1, <2>2, <2>3, <2>4, Zenon DEF SameColumn
<1>9. CASE ~(a.fine_y < Tile - 1) /\ a.coarse_y = Rows - 1
  <2>1. b = [a EXCEPT !.fine_y = 0, !.coarse_y = 0, !.nt_y = 1 - a.nt_y]
    BY <1>1, <1>9, Zenon DEF IncrementCoarseY
  <2>2. b \in Address
    BY <1>6, <2>1, Zenon DEF Address
  <2>3. /\ b.coarse_x = a.coarse_x /\ b.nt_x = a.nt_x
        /\ b.fine_y = 0 /\ b.coarse_y = 0 /\ b.nt_y = 1 - a.nt_y
    BY <2>1, Zenon DEF Address
  <2>4. a.coarse_y < Rows /\ a.coarse_y \in 0 .. Rows - 1
    BY <1>6, <1>9, Zenon
  <2>5. \/ j < 2 * Rows - 1 /\ (1 - a.nt_y) * Rows + 0 = j + 1
        \/ j = 2 * Rows - 1 /\ (1 - a.nt_y) * Rows + 0 = 0
    BY <1>7, <1>9, <2>4, Zenon
  <2>6. ((1 - a.nt_y) * Rows + 0) * Tile + 0 = (j * Tile + a.fine_y + 1) % ((2 * Rows) * Tile)
    <3>1. a.fine_y = Tile - 1
      BY <1>6, <1>9, Zenon
    <3>2. QED
      BY <1>7, <2>4, <2>5, <3>1, Zenon
  <2>7. Top(b) = (Top(a) + 1) % (2 * Rows * Tile)
    BY <1>4, <1>5, <2>3, <2>6, Sizes, Zenon
  <2>8. QED
    BY <1>1, <1>6, <2>2, <2>3, <2>7, Zenon DEF SameColumn
<1>10. CASE ~(a.fine_y < Tile - 1) /\ a.coarse_y # Rows - 1
  <2>1. PICK c : c = (a.coarse_y + 1) % RowSpan
    OBVIOUS
  <2>2. c \in 0 .. RowSpan - 1
    <3>1. a.coarse_y + 1 \in Nat
      BY <1>3, Sizes
    <3>2. QED
      BY <2>1, <3>1, Sizes, DivMod, Zenon
  <2>3. b = [a EXCEPT !.fine_y = 0, !.coarse_y = c]
    BY <1>1, <1>10, <2>1, Zenon DEF IncrementCoarseY
  <2>4. b \in Address
    BY <1>6, <2>2, <2>3, Zenon DEF Address
  <2>5. /\ b.coarse_x = a.coarse_x /\ b.nt_x = a.nt_x
        /\ b.fine_y = 0 /\ b.coarse_y = c /\ b.nt_y = a.nt_y
    BY <2>3, Zenon DEF Address
  <2>6. ASSUME a.coarse_y < Rows
        PROVE  b.coarse_y < Rows /\ Top(b) = (Top(a) + 1) % (2 * Rows * Tile)
    <3>1. a.coarse_y \in 0 .. Rows - 1 /\ a.coarse_y < Rows - 1
      BY <1>3, <1>10, <2>6, Sizes
    <3>2. c = a.coarse_y + 1
      <4>1. a.coarse_y + 1 \in 0 .. RowSpan - 1
        BY <3>1, ScrollAssumption, Sizes
      <4>2. QED
        BY <2>1, <4>1, Sizes, Small, Zenon
    <3>3. j < 2 * Rows - 1 /\ a.nt_y * Rows + c = j + 1
      BY <1>7, <2>6, <3>1, <3>2, Zenon
    <3>4. (j + 1) * Tile + 0 = (j * Tile + a.fine_y + 1) % ((2 * Rows) * Tile)
      BY <1>6, <1>7, <1>10, <2>6, <3>3, Zenon
    <3>5. Top(b) = (Top(a) + 1) % (2 * Rows * Tile)
      BY <1>4, <1>5, <2>5, <3>3, <3>4, Sizes, Zenon
    <3>6. c < Rows
      BY <3>1, <3>2, Sizes
    <3>7. QED
      BY <2>5, <3>5, <3>6, Zenon
  <2>7. QED
    BY <1>1, <2>4, <2>5, <2>6, Zenon DEF SameColumn
<1>11. QED
  BY <1>8, <1>9, <1>10, Zenon

\* increment_render_coarse_x keeps the row; the next pixel is one to the right.
LEMMA ColumnStep ==
    ASSUME NEW a \in Address, NEW f \in 0 .. Tile - 1
    PROVE  /\ IncrementRenderCoarseX(a) \in Address
           /\ SameRow(IncrementRenderCoarseX(a), a)
           /\ (f + 1) % Tile \in 0 .. Tile - 1
           /\ f # Tile - 1 => Left(a, (f + 1) % Tile) = (Left(a, f) + 1) % (2 * Width)
           /\ f = Tile - 1 => Left(IncrementRenderCoarseX(a), (f + 1) % Tile)
                                = (Left(a, f) + 1) % (2 * Width)
<1>1. PICK b : b = IncrementRenderCoarseX(a)
  OBVIOUS
<1>2. PICK j, k : j = a.nt_x * Columns + a.coarse_x /\ k = 2 * Columns
  OBVIOUS
<1>3. /\ a.fine_y \in 0 .. Tile - 1 /\ a.nt_y \in 0 .. 1 /\ a.nt_x \in 0 .. 1
      /\ a.coarse_y \in 0 .. RowSpan - 1 /\ a.coarse_x \in 0 .. Columns - 1
  BY FieldTypes, Zenon
<1>4. /\ j \in 0 .. k - 1
      /\ a.coarse_x < Columns - 1 =>
           j < k - 1 /\ a.nt_x * Columns + (a.coarse_x + 1) = j + 1
      /\ a.coarse_x = Columns - 1 =>
           \/ j < k - 1 /\ (1 - a.nt_x) * Columns + 0 = j + 1
           \/ j = k - 1 /\ (1 - a.nt_x) * Columns + 0 = 0
  BY <1>2, <1>3, Sizes, TwoTables
<1>5. k \in Nat \ {0} /\ Tile \in Nat \ {0} /\ k * Tile = 2 * Width
  BY <1>2, Sizes, Zenon
<1>6. /\ k * Tile \in Nat \ {0}
      /\ j * Tile + f \in 0 .. k * Tile - 1
      /\ f < Tile - 1 => j * Tile + (f + 1) = (j * Tile + f + 1) % (k * Tile)
      /\ f = Tile - 1 /\ j < k - 1 => (j + 1) * Tile + 0 = (j * Tile + f + 1) % (k * Tile)
      /\ f = Tile - 1 /\ j = k - 1 => 0 * Tile + 0 = (j * Tile + f + 1) % (k * Tile)
  BY <1>4, <1>5, Along, ZenonT(60)
<1>7. Left(a, f) = j * Tile + f
  BY <1>2, Zenon DEF Left
<1>8. (f + 1) % Tile \in 0 .. Tile - 1
  <2>1. f + 1 \in Nat
    BY Sizes
  <2>2. QED
    BY <2>1, Sizes, DivMod, Zenon
<1>9. ASSUME f # Tile - 1
      PROVE  Left(a, (f + 1) % Tile) = (Left(a, f) + 1) % (2 * Width)
  <2>1. f < Tile - 1 /\ f + 1 \in 0 .. Tile - 1
    BY <1>9, Sizes
  <2>2. (f + 1) % Tile = f + 1
    BY <2>1, Sizes, Small, Zenon
  <2>3. Left(a, f + 1) = j * Tile + (f + 1)
    BY <1>2, Zenon DEF Left
  <2>4. QED
    BY <1>5, <1>6, <1>7, <2>1, <2>2, <2>3, Zenon
<1>10. ASSUME f = Tile - 1 PROVE (f + 1) % Tile = 0
  <2>1. f + 1 = Tile * 1 + 0 /\ 1 \in Nat /\ 0 \in 0 .. Tile - 1
    BY <1>10, Sizes
  <2>2. (Tile * 1 + 0) % Tile = 0
    BY <2>1, Sizes, Unique, Zenon
  <2>3. QED
    BY <2>1, <2>2, Zenon
<1>11. /\ 0 \in 0 .. Columns - 1 /\ 1 - a.nt_x \in 0 .. 1
       /\ a.coarse_x # Columns - 1 =>
            a.coarse_x < Columns - 1 /\ a.coarse_x + 1 \in 0 .. Columns - 1
  BY <1>3, Sizes
<1>12. /\ b.fine_y = a.fine_y /\ b.nt_y = a.nt_y /\ b.coarse_y = a.coarse_y
       /\ b \in Address
       /\ f = Tile - 1 => Left(b, (f + 1) % Tile) = (Left(a, f) + 1) % (2 * Width)
  <2>1. Left(b, 0) = (b.nt_x * Columns + b.coarse_x) * Tile + 0
    BY Zenon DEF Left
  <2>2. CASE a.coarse_x = Columns - 1
    <3>1. b = [a EXCEPT !.coarse_x = 0, !.nt_x = 1 - a.nt_x]
      BY <1>1, <2>2, Zenon DEF IncrementRenderCoarseX
    <3>2. b \in Address
      BY <1>11, <3>1, Zenon DEF Address
    <3>3. /\ b.fine_y = a.fine_y /\ b.nt_y = a.nt_y /\ b.coarse_y = a.coarse_y
          /\ b.nt_x = 1 - a.nt_x /\ b.coarse_x = 0
      BY <3>1, Zenon DEF Address
    <3>4. Left(b, 0) = ((1 - a.nt_x) * Columns + 0) * Tile + 0
      BY <2>1, <3>3, Zenon
    <3>5. QED
      BY <1>4, <1>5, <1>6, <1>7, <1>10, <2>2, <3>2, <3>3, <3>4, Zenon
  <2>3. CASE a.coarse_x # Columns - 1
    <3>1. b = [a EXCEPT !.coarse_x = a.coarse_x + 1]
      BY <1>1, <2>3, Zenon DEF IncrementRenderCoarseX
    <3>2. b \in Address
      BY <1>11, <2>3, <3>1, Zenon DEF Address
    <3>3. /\ b.fine_y = a.fine_y /\ b.nt_y = a.nt_y /\ b.coarse_y = a.coarse_y
          /\ b.nt_x = a.nt_x /\ b.coarse_x = a.coarse_x + 1
      BY <3>1, Zenon DEF Address
    <3>4. Left(b, 0) = (a.nt_x * Columns + (a.coarse_x + 1)) * Tile + 0
      BY <2>1, <3>3, Zenon
    <3>5. QED
      BY <1>4, <1>5, <1>6, <1>7, <1>10, <1>11, <2>3, <3>2, <3>3, <3>4, Zenon
  <2>4. QED
    BY <2>2, <2>3
<1>13. QED
  BY <1>1, <1>8, <1>9, <1>12, Zenon DEF SameRow

LEMMA Copies ==
    ASSUME NEW a \in Address, NEW t \in Address
    PROVE  /\ CopyHorizontal(a, t) \in Address
           /\ SameColumn(CopyHorizontal(a, t), t) /\ SameRow(CopyHorizontal(a, t), a)
           /\ CopyVertical(a, t) \in Address
           /\ SameColumn(CopyVertical(a, t), a) /\ SameRow(CopyVertical(a, t), t)
<1>1. /\ t.fine_y \in 0 .. Tile - 1 /\ t.nt_y \in 0 .. 1 /\ t.nt_x \in 0 .. 1
      /\ t.coarse_y \in 0 .. RowSpan - 1 /\ t.coarse_x \in 0 .. Columns - 1
  BY FieldTypes, Zenon
<1>2. PICK h, v : h = CopyHorizontal(a, t) /\ v = CopyVertical(a, t)
  OBVIOUS
<1>3. h = [a EXCEPT !.coarse_x = t.coarse_x, !.nt_x = t.nt_x]
  BY <1>2, Zenon DEF CopyHorizontal
<1>4. v = [a EXCEPT !.coarse_y = t.coarse_y, !.nt_y = t.nt_y, !.fine_y = t.fine_y]
  BY <1>2, Zenon DEF CopyVertical
<1>5. h \in Address /\ SameColumn(h, t) /\ SameRow(h, a)
  BY <1>1, <1>3, Zenon DEF Address, SameColumn, SameRow
<1>6. v \in Address /\ SameColumn(v, a) /\ SameRow(v, t)
  BY <1>1, <1>4, Zenon DEF Address, SameColumn, SameRow
<1>7. QED
  BY <1>2, <1>5, <1>6, Zenon

\* Places with the same row are equally far down, and so on.
LEMMA SamePlace ==
    ASSUME NEW a, NEW b, NEW f
    PROVE  /\ SameRow(a, b) => Top(a) = Top(b)
           /\ SameColumn(a, b) => Left(a, f) = Left(b, f)
<1>1. ASSUME SameRow(a, b) PROVE Top(a) = Top(b)
  <2>1. a.coarse_y = b.coarse_y /\ a.nt_y = b.nt_y /\ a.fine_y = b.fine_y
    BY <1>1, Zenon DEF SameRow
  <2>2. Top(a) = (b.nt_y * Rows + b.coarse_y) * Tile + b.fine_y
    BY <2>1, Zenon DEF Top
  <2>3. QED
    BY <2>2, Zenon DEF Top
<1>2. ASSUME SameColumn(a, b) PROVE Left(a, f) = Left(b, f)
  <2>1. a.coarse_x = b.coarse_x /\ a.nt_x = b.nt_x
    BY <1>2, Zenon DEF SameColumn
  <2>2. Left(a, f) = (b.nt_x * Columns + b.coarse_x) * Tile + f
    BY <2>1, Zenon DEF Left
  <2>3. QED
    BY <2>2, Zenon DEF Left
<1>3. QED
  BY <1>1, <1>2, Zenon

-----------------------------------------------------------------------------
(* A tick.                                                                  *)

LEMMA Screen ==
    /\ Width \in Nat \ {0} /\ FirstCopy \in Nat /\ LastCopy \in Nat /\ LastCycle \in Nat
    /\ Width + 1 < FirstCopy /\ FirstCopy <= LastCopy /\ LastCopy < LastCycle
    /\ Lines \in Nat \ {0} /\ LastLine \in Nat /\ Lines <= LastLine
<1>1. /\ Lines \in Nat \ {0} /\ VblankLine \in Nat /\ LastLine \in Nat /\ LastCycle \in Nat
      /\ VblankLine <= LastLine /\ Lines <= VblankLine
  BY BeamAssumption, ScrollAssumption, Zenon
<1>2. Lines <= LastLine
  BY <1>1
<1>3. /\ Width + 1 < FirstCopy /\ FirstCopy <= LastCopy /\ LastCopy < LastCycle
      /\ FirstCopy \in Nat /\ LastCopy \in Nat
  BY ScrollAssumption, Zenon
<1>4. QED
  BY <1>1, <1>2, <1>3, Sizes, Zenon

LEMMA TickBeam ==
    ASSUME TypeOK, Tick
    PROVE  /\ ppu' \in PpuType
           /\ ppu'.rendering = ppu.rendering
           /\ ppu.cycle \in 0 .. LastCycle /\ ppu.scanline \in -1 .. LastLine
           /\ \/ /\ ppu.cycle < LastCycle
                 /\ ppu'.cycle = ppu.cycle + 1 /\ ppu'.scanline = ppu.scanline
              \/ /\ ppu.cycle = LastCycle /\ ppu.scanline < LastLine
                 /\ ppu'.cycle = 0 /\ ppu'.scanline = ppu.scanline + 1
              \/ /\ ppu.cycle = LastCycle /\ ppu.scanline = LastLine
                 /\ ppu'.cycle = 0 /\ ppu'.scanline = -1
              \/ /\ ppu.cycle = LastCycle - 1 /\ ppu.scanline = -1
                 /\ ppu'.cycle = 0 /\ ppu'.scanline = 0
<1>1. ppu \in PpuType /\ ppu' = PpuTick[ppu]
  BY Zenon DEF TypeOK, Tick
<1>2. ppu.cycle \in 0 .. LastCycle /\ ppu.scanline \in -1 .. LastLine
  BY <1>1, Zenon DEF PpuType
<1>3. QED
  BY <1>1, <1>2, BeamStep, Zenon

LEMMA TickAddress ==
    ASSUME TypeOK, Tick
    PROVE  LET on == ppu.rendering /\ (Visible \/ PreRender)
           IN  /\ vram_addr' \in Address
               /\ on /\ ppu.cycle = Width => vram_addr' = IncrementCoarseY(vram_addr)
               /\ on /\ ppu.cycle = Width + 1 =>
                    vram_addr' = CopyHorizontal(vram_addr, temp_vram_addr)
               /\ on /\ PreRender /\ ppu.cycle \in FirstCopy .. LastCopy =>
                    vram_addr' = CopyVertical(vram_addr, temp_vram_addr)
               /\ \/ ~on
                  \/ /\ ppu.cycle # Width /\ ppu.cycle # Width + 1
                     /\ ~(PreRender /\ ppu.cycle \in FirstCopy .. LastCopy)
                  => vram_addr' = vram_addr
<1> DEFINE on == ppu.rendering /\ (Visible \/ PreRender)
<1>1. vram_addr \in Address /\ temp_vram_addr \in Address
  BY Zenon DEF TypeOK
<1>2. vram_addr' =
        IF on /\ ppu.cycle = Width          THEN IncrementCoarseY(vram_addr)
        ELSE IF on /\ ppu.cycle = Width + 1 THEN CopyHorizontal(vram_addr, temp_vram_addr)
        ELSE IF on /\ PreRender /\ ppu.cycle \in FirstCopy .. LastCopy
               THEN CopyVertical(vram_addr, temp_vram_addr)
        ELSE vram_addr
  BY Zenon DEF Tick, MoveAddress
<1>3. /\ Width # Width + 1
      /\ ppu.cycle \in FirstCopy .. LastCopy => ppu.cycle # Width /\ ppu.cycle # Width + 1
  BY Screen
<1>4. vram_addr' \in Address
  BY <1>1, <1>2, RowStep, Copies, Zenon
<1>5. QED
  BY <1>2, <1>3, <1>4, Zenon

LEMMA TickType ==
    ASSUME TypeOK, Tick
    PROVE  TypeOK'
<1>1. ppu' \in PpuType /\ vram_addr' \in Address
  BY TickBeam, TickAddress, Zenon
<1>2. /\ vram_addr \in Address /\ render_vram_addr \in Address
      /\ fine_x \in 0 .. Tile - 1 /\ render_fine_x \in 0 .. Tile - 1
  BY Zenon DEF TypeOK
<1>3. PICK a, x : /\ a = IF TakesAddress THEN vram_addr ELSE render_vram_addr
                  /\ x = IF TakesAddress THEN fine_x ELSE render_fine_x
  OBVIOUS
<1>4. a \in Address /\ x \in 0 .. Tile - 1
  BY <1>2, <1>3, Zenon
<1>5. /\ render_fine_x' \in {(x + 1) % Tile, x}
      /\ render_vram_addr' \in {IncrementRenderCoarseX(a), a}
      /\ render_was_enabled' = ppu.rendering
  BY <1>3, Zenon DEF Tick, DrawPixel
<1>6. render_vram_addr' \in Address /\ render_fine_x' \in 0 .. Tile - 1
  BY <1>4, <1>5, ColumnStep, Zenon
<1>7. render_was_enabled' \in BOOLEAN
  BY <1>5, Zenon DEF TypeOK, PpuType
<1>8. UNCHANGED <<temp_vram_addr, fine_x, write_latch, increment, accesses>>
  BY Zenon DEF Tick
<1>9. QED
  BY <1>1, <1>6, <1>7, <1>8, Zenon DEF TypeOK

LEMMA TickSettled ==
    ASSUME TypeOK, SettledInv, Tick
    PROVE  SettledInv'
<1>1. /\ ppu'.rendering = ppu.rendering
      /\ ppu.rendering \in BOOLEAN
  BY TickBeam, Zenon DEF TypeOK, PpuType
<1>2. settled' = (settled \/ (ppu.cycle = Width + 1 /\ ppu.rendering))
  BY Zenon DEF Tick, TakeNotes
<1>3. settled' \in BOOLEAN /\ (settled' => ppu'.rendering)
  BY <1>1, <1>2, Zenon DEF SettledInv
<1>4. ASSUME settled', Visible' \/ (PreRender' /\ ppu'.cycle > Width + 1)
      PROVE  SameColumn(vram_addr', temp_vram_addr')
  <2>1. temp_vram_addr' = temp_vram_addr /\ ppu.rendering
    BY <1>1, <1>3, <1>4, Zenon DEF Tick
  <2>2. vram_addr \in Address /\ temp_vram_addr \in Address
    BY Zenon DEF TypeOK
  <2>3. /\ Visible \/ PreRender
        /\ ppu.cycle = Width + 1 \/ Visible \/ (PreRender /\ ppu.cycle > Width + 1)
    <3>1. /\ ppu'.scanline \in 0 .. Lines - 1 \/ (ppu'.scanline = -1 /\ ppu'.cycle > Width + 1)
      BY <1>4, Zenon DEF Visible, PreRender
    <3>2. /\ ppu.scanline \in 0 .. Lines - 1 \/ ppu.scanline = -1
          /\ \/ ppu.cycle = Width + 1 \/ ppu.scanline \in 0 .. Lines - 1
             \/ (ppu.scanline = -1 /\ ppu.cycle > Width + 1)
      BY <3>1, TickBeam, Screen
    <3>3. QED
      BY <3>2, Zenon DEF Visible, PreRender
  <2>4. CASE ppu.cycle = Width + 1
    BY <2>1, <2>2, <2>3, <2>4, TickAddress, Copies, Zenon
  <2>5. CASE ppu.cycle # Width + 1
    <3>1. SameColumn(vram_addr, temp_vram_addr)
      BY <1>2, <1>4, <2>3, <2>5, Zenon DEF SettledInv
    <3>2. \/ vram_addr' = IncrementCoarseY(vram_addr)
          \/ vram_addr' = CopyVertical(vram_addr, temp_vram_addr)
          \/ vram_addr' = vram_addr
      BY <2>1, <2>3, <2>5, TickAddress, Zenon
    <3>3. SameColumn(vram_addr', vram_addr)
      <4>1. SameColumn(vram_addr, vram_addr)
        BY Zenon DEF SameColumn
      <4>2. QED
        BY <2>2, <3>2, <4>1, RowStep, Copies, Zenon
    <3>4. QED
      BY <2>1, <3>1, <3>3, Zenon DEF SameColumn
  <2>6. QED
    BY <2>4, <2>5
<1>5. QED
  BY <1>3, <1>4, Zenon DEF SettledInv

\* A line takes its address from v at its first cycle, and keeps it.
LEMMA TickLine ==
    ASSUME TypeOK, SettledInv, LineInv, Tick
    PROVE  LineInv'
<1> SUFFICES ASSUME settled', Drawing'
    PROVE  /\ render_was_enabled'
           /\ SameRow(render_vram_addr', vram_addr')
           /\ Left(render_vram_addr', render_fine_x')
                 = (Left(temp_vram_addr', fine_x') + ppu'.cycle - 1) % (2 * Width)
  BY Zenon DEF LineInv
<1>1. /\ Visible /\ ppu'.cycle = ppu.cycle + 1
      /\ ppu.cycle \in 0 .. Width - 1 /\ ppu.cycle # Width /\ ppu.cycle # Width + 1
      /\ ~PreRender
      /\ ppu.cycle # 0 => Drawing
  <2>1. ppu'.scanline \in 0 .. Lines - 1 /\ ppu'.cycle \in 1 .. Width
    BY Zenon DEF Drawing, Visible
  <2>2. /\ ppu.scanline \in 0 .. Lines - 1 /\ ppu'.cycle = ppu.cycle + 1
        /\ ppu.cycle \in 0 .. Width - 1 /\ ppu.cycle # Width /\ ppu.cycle # Width + 1
        /\ ppu.scanline # -1
        /\ ppu.cycle # 0 => ppu.cycle \in 1 .. Width
    BY <2>1, TickBeam, Screen
  <2>3. QED
    BY <2>2, Zenon DEF Drawing, Visible, PreRender
<1>2. settled /\ ppu.rendering
  <2>1. settled
    BY <1>1, Zenon DEF Tick, TakeNotes
  <2>2. QED
    BY <2>1, Zenon DEF SettledInv
<1>3. /\ vram_addr' = vram_addr /\ temp_vram_addr' = temp_vram_addr /\ fine_x' = fine_x
      /\ render_was_enabled'
  <2>1. vram_addr' = vram_addr
    BY <1>1, TickAddress, Zenon
  <2>2. QED
    BY <1>2, <2>1, Zenon DEF Tick, DrawPixel
<1>4. /\ vram_addr \in Address /\ temp_vram_addr \in Address /\ render_vram_addr \in Address
      /\ fine_x \in 0 .. Tile - 1 /\ render_fine_x \in 0 .. Tile - 1
  BY Zenon DEF TypeOK
<1>5. PICK l : l = Left(temp_vram_addr, fine_x)
  OBVIOUS
<1>6. PICK w : w = 2 * Width
  OBVIOUS
<1>7. l \in 0 .. w - 1 /\ w \in Nat \ {0}
  <2>1. w \in Nat \ {0}
    BY <1>6, Screen
  <2>2. QED
    BY <1>4, <1>5, <1>6, <2>1, LeftType, Zenon
<1>8. CASE ppu.cycle = 0
  <2>1. TakesAddress /\ ~Drawing
    <3>1. 0 \notin 1 .. Width
      OBVIOUS
    <3>2. QED
      BY <1>1, <1>8, <3>1, Zenon DEF TakesAddress, Drawing
  <2>2. render_vram_addr' = vram_addr /\ render_fine_x' = fine_x
    BY <2>1, Zenon DEF Tick, DrawPixel
  <2>3. Left(vram_addr, fine_x) = l
    BY <1>1, <1>2, <1>5, SamePlace, Zenon DEF SettledInv
  <2>4. l + ppu'.cycle - 1 = l
    BY <1>1, <1>7, <1>8
  <2>5. l % w = l
    BY <1>7, Small, Zenon
  <2>6. SameRow(vram_addr, vram_addr)
    BY Zenon DEF SameRow
  <2>7. QED
    BY <1>3, <1>5, <1>6, <2>2, <2>3, <2>4, <2>5, <2>6, Zenon
<1>9. CASE ppu.cycle # 0
  <2>1. Drawing /\ render_was_enabled /\ ~TakesAddress
    BY <1>1, <1>2, <1>9, Zenon DEF LineInv, TakesAddress
  <2>2. /\ SameRow(render_vram_addr, vram_addr)
        /\ Left(render_vram_addr, render_fine_x) = (l + ppu.cycle - 1) % w
    BY <1>2, <1>5, <1>6, <2>1, Zenon DEF LineInv
  <2>3. /\ render_fine_x' = (render_fine_x + 1) % Tile
        /\ render_fine_x = Tile - 1 =>
             render_vram_addr' = IncrementRenderCoarseX(render_vram_addr)
        /\ render_fine_x # Tile - 1 => render_vram_addr' = render_vram_addr
    BY <1>2, <2>1, Zenon DEF Tick, DrawPixel
  <2>4. Left(render_vram_addr', render_fine_x')
          = (Left(render_vram_addr, render_fine_x) + 1) % w
    BY <1>4, <1>6, <2>3, ColumnStep, Zenon
  <2>5. SameRow(render_vram_addr', vram_addr')
    <3>1. \/ render_vram_addr' = render_vram_addr
          \/ SameRow(render_vram_addr', render_vram_addr)
      BY <1>4, <2>3, ColumnStep, Zenon
    <3>2. QED
      BY <1>3, <2>2, <3>1, Zenon DEF SameRow
  <2>6. PICK x : x = l + ppu.cycle - 1
    OBVIOUS
  <2>7. x \in Nat /\ x + 1 = l + ppu'.cycle - 1
    BY <1>1, <1>7, <1>9, <2>6
  <2>8. ((x % w) + 1) % w = (x + 1) % w
    BY <1>7, <2>7, Succ, Zenon
  <2>9. QED
    BY <1>3, <1>5, <1>6, <2>2, <2>4, <2>5, <2>6, <2>7, <2>8, Zenon
<1>10. QED
  BY <1>8, <1>9

\* v is moved to the next line behind the last pixel, and where the line begins
\* to count as the next one, LineOfV, it does.
LEMMA TickAnchor ==
    ASSUME TypeOK, AnchorInv, Tick
    PROVE  AnchorInv'
<1>1. vram_addr \in Address /\ temp_vram_addr \in Address /\ ppu'.rendering = ppu.rendering
  BY TickBeam, Zenon DEF TypeOK
<1>2. /\ ~ppu.rendering \/ ppu.scanline >= Lines => anchor' = None
      /\ ppu.rendering /\ ~(ppu.scanline >= Lines) /\ PreRender /\ ppu.cycle = LastCopy =>
           /\ temp_vram_addr.coarse_y < Rows => anchor' = [line |-> 0, y |-> Top(temp_vram_addr)]
           /\ ~(temp_vram_addr.coarse_y < Rows) => anchor' = None
      /\ ppu.rendering /\ ~(ppu.scanline >= Lines) /\ ~(PreRender /\ ppu.cycle = LastCopy) =>
           anchor' = anchor
  BY Zenon DEF Tick, TakeNotes
<1>3. CASE ~ppu.rendering \/ ppu.scanline >= Lines
  BY <1>2, <1>3, Zenon DEF AnchorInv
<1>4. CASE ppu.rendering /\ ~(ppu.scanline >= Lines) /\ PreRender /\ ppu.cycle = LastCopy
  <2>1. CASE ~(temp_vram_addr.coarse_y < Rows)
    BY <1>2, <1>4, <2>1, Zenon DEF AnchorInv
  <2>2. CASE temp_vram_addr.coarse_y < Rows
    <3>1. PICK y : y = Top(temp_vram_addr)
      OBVIOUS
    <3>2. anchor'.line = 0 /\ anchor'.y = y
      <4>1. anchor' = [line |-> 0, y |-> y]
        BY <1>2, <1>4, <2>2, <3>1, Zenon
      <4>2. QED
        BY <4>1, Zenon
    <3>3. y \in 0 .. 2 * Rows * Tile - 1
      BY <1>1, <2>2, <3>1, TopType, Zenon
    <3>4. vram_addr'.coarse_y < Rows /\ Top(vram_addr') = y
      <4>1. ppu.cycle \in FirstCopy .. LastCopy
        BY <1>4, Screen
      <4>2. vram_addr' = CopyVertical(vram_addr, temp_vram_addr)
        BY <1>4, <4>1, TickAddress, Zenon
      <4>3. SameRow(vram_addr', temp_vram_addr)
        BY <1>1, <4>2, Copies, Zenon
      <4>4. QED
        BY <2>2, <3>1, <4>3, SamePlace, Zenon DEF SameRow
    <3>5. PICK m : m = 2 * Rows * Tile
      OBVIOUS
    <3>6. m \in Nat \ {0} /\ y \in 0 .. m - 1
      <4>1. (2 * Rows) * Tile \in Nat \ {0}
        BY Sizes
      <4>2. QED
        BY <3>3, <3>5, <4>1, Sizes, Zenon
    <3>7. y % m = y
      BY <3>6, Small, Zenon
    <3>8. LineOfV' = 0
      <4>1. \/ ppu'.cycle > Width /\ ~(ppu'.cycle <= Width) /\ ppu'.scanline + 1 = 0
            \/ ppu'.cycle <= Width /\ ppu'.scanline = 0
        <5>1. ppu.scanline = -1
          BY <1>4, Zenon DEF PreRender
        <5>2. QED
          BY <1>4, <5>1, TickBeam, Screen
      <4>2. QED
        BY <4>1, Zenon DEF LineOfV
    <3>9. y + LineOfV' - anchor'.line = y /\ anchor'.line <= LineOfV' /\ anchor'.line \in Int
      BY <3>2, <3>6, <3>8
    <3>10. QED
      BY <1>1, <1>4, <3>2, <3>3, <3>4, <3>5, <3>7, <3>9, Zenon DEF AnchorInv
  <2>3. QED
    BY <2>1, <2>2
<1>5. CASE ppu.rendering /\ ~(ppu.scanline >= Lines) /\ ~(PreRender /\ ppu.cycle = LastCopy)
  <2>1. anchor' = anchor
    BY <1>2, <1>5, Zenon
  <2>2. SUFFICES ASSUME anchor # None, Visible' \/ (PreRender' /\ ppu'.cycle > LastCopy)
        PROVE  /\ anchor.line <= LineOfV'
               /\ vram_addr'.coarse_y < Rows
               /\ Top(vram_addr') = (anchor.y + LineOfV' - anchor.line) % (2 * Rows * Tile)
    BY <1>1, <2>1, Zenon DEF AnchorInv
  <2>3. /\ Visible \/ PreRender
        /\ Visible \/ (PreRender /\ ppu.cycle > LastCopy)
        /\ ~(PreRender /\ ppu.cycle \in FirstCopy .. LastCopy)
        /\ ppu.cycle # Width => LineOfV' = LineOfV
        /\ ppu.cycle = Width => LineOfV' = LineOfV + 1
    <3>1. ppu'.scanline \in 0 .. Lines - 1 \/ (ppu'.scanline = -1 /\ ppu'.cycle > LastCopy)
      BY <2>2, Zenon DEF Visible, PreRender
    <3>2. ~(ppu.scanline >= Lines) /\ ~(ppu.scanline = -1 /\ ppu.cycle = LastCopy)
      BY <1>5, Zenon DEF PreRender
    <3>3. /\ ppu.scanline \in 0 .. Lines - 1 \/ ppu.scanline = -1
          /\ ppu.scanline \in 0 .. Lines - 1 \/ (ppu.scanline = -1 /\ ppu.cycle > LastCopy)
          /\ ~(ppu.scanline = -1 /\ ppu.cycle \in FirstCopy .. LastCopy)
      BY <3>1, <3>2, TickBeam, Screen
    <3>4. /\ ppu.cycle # Width => LineOfV' = LineOfV
          /\ ppu.cycle = Width => LineOfV' = LineOfV + 1
      BY <3>1, <3>2, <3>3, TickBeam, Screen DEF LineOfV
    <3>5. QED
      BY <3>3, <3>4, Zenon DEF Visible, PreRender
  <2>4. /\ anchor.line <= LineOfV /\ vram_addr.coarse_y < Rows
        /\ Top(vram_addr) = (anchor.y + LineOfV - anchor.line) % (2 * Rows * Tile)
        /\ anchor.line \in Int /\ anchor.y \in 0 .. 2 * Rows * Tile - 1
    BY <2>2, <2>3, Zenon DEF AnchorInv
  <2>5. CASE ppu.cycle # Width
    <3>1. \/ vram_addr' = CopyHorizontal(vram_addr, temp_vram_addr)
          \/ vram_addr' = vram_addr
      BY <1>5, <2>3, <2>5, TickAddress, Zenon
    <3>2. SameRow(vram_addr', vram_addr)
      <4>1. SameRow(vram_addr, vram_addr)
        BY Zenon DEF SameRow
      <4>2. QED
        BY <1>1, <3>1, <4>1, Copies, Zenon
    <3>3. vram_addr'.coarse_y < Rows /\ Top(vram_addr') = Top(vram_addr)
      BY <2>4, <3>2, SamePlace, Zenon DEF SameRow
    <3>4. QED
      BY <2>3, <2>4, <2>5, <3>3, Zenon
  <2>6. CASE ppu.cycle = Width
    <3>1. vram_addr' = IncrementCoarseY(vram_addr)
      BY <1>5, <2>3, <2>6, TickAddress, Zenon
    <3>2. /\ vram_addr'.coarse_y < Rows
          /\ Top(vram_addr') = (Top(vram_addr) + 1) % (2 * Rows * Tile)
      BY <1>1, <2>4, <3>1, RowStep, Zenon
    <3>3. PICK m, x, d : /\ m = 2 * Rows * Tile /\ d = LineOfV
                         /\ x = anchor.y + d - anchor.line
      OBVIOUS
    <3>4. d \in Int
      BY <3>3, TickBeam, Screen DEF LineOfV
    <3>5. m \in Nat \ {0} /\ anchor.y \in 0 .. m - 1
      <4>1. (2 * Rows) * Tile \in Nat \ {0}
        BY Sizes
      <4>2. QED
        BY <2>4, <3>3, <4>1, Sizes, Zenon
    <3>6. /\ x \in Nat /\ x + 1 = anchor.y + (d + 1) - anchor.line
          /\ anchor.line <= d + 1
      BY <2>4, <3>3, <3>4, <3>5
    <3>7. ((x % m) + 1) % m = (x + 1) % m
      BY <3>5, <3>6, Succ, Zenon
    <3>8. QED
      BY <2>3, <2>4, <2>6, <3>2, <3>3, <3>6, <3>7, Zenon
  <2>7. QED
    BY <2>5, <2>6
<1>6. QED
  BY <1>3, <1>4, <1>5, Zenon

LEMMA Notes ==
    /\ ~Lost.half /\ ~Lost.whole /\ ~Clear.half /\ ~Clear.whole
    /\ \A v : /\ Half(v).half /\ ~Half(v).whole /\ Half(v).value = v
              /\ Whole(v).whole /\ ~Whole(v).half /\ Whole(v).value = v
  BY Zenon DEF Lost, Clear, Half, Whole

LEMMA TickTold ==
    ASSUME TypeOK, ToldInv, Tick
    PROVE  ToldInv'
<1>1. /\ write_latch' = write_latch /\ temp_vram_addr' = temp_vram_addr
      /\ told.whole /\ ppu.rendering /\ (Visible \/ PreRender) => told' = Clear
      /\ ~(told.whole /\ ppu.rendering /\ (Visible \/ PreRender)) => told' = told
  BY Zenon DEF Tick, TakeNotes
<1>2. CASE told.whole /\ ppu.rendering /\ (Visible \/ PreRender)
  <2>1. ~write_latch
    BY <1>2, Notes, Zenon DEF ToldInv
  <2>2. QED
    BY <1>1, <1>2, <2>1, Zenon DEF ToldInv
<1>3. CASE ~(told.whole /\ ppu.rendering /\ (Visible \/ PreRender))
  <2>1. told.whole => vram_addr' = vram_addr
    BY <1>3, TickAddress, Zenon
  <2>2. told = Whole(told.value) => told.whole
    BY Notes, Zenon
  <2>3. QED
    BY <1>1, <1>3, <2>1, <2>2, Zenon DEF ToldInv
<1>4. QED
  BY <1>2, <1>3

-----------------------------------------------------------------------------
(* The registers.                                                           *)

\* An access in the line unsettles it; an anchor that is kept needs v kept.
LEMMA AccessKeeps ==
    ASSUME AnchorInv, settled' = FALSE,
           ppu'.scanline = ppu.scanline, ppu'.cycle = ppu.cycle,
           \/ anchor' = None
           \/ /\ anchor' = anchor /\ vram_addr' = vram_addr
              /\ ppu.rendering => ppu'.rendering
    PROVE  SettledInv' /\ LineInv' /\ AnchorInv'
<1>1. SettledInv' /\ LineInv'
  BY Zenon DEF SettledInv, LineInv
<1>2. LineOfV' = LineOfV /\ (Visible' <=> Visible) /\ (PreRender' <=> PreRender)
  BY Zenon DEF LineOfV, Visible, PreRender
<1>3. AnchorInv'
  <2>1. CASE anchor' = None
    BY <2>1, Zenon DEF AnchorInv
  <2>2. CASE /\ anchor' = anchor /\ vram_addr' = vram_addr
             /\ ppu.rendering => ppu'.rendering
    BY <1>2, <2>2, Zenon DEF AnchorInv
  <2>3. QED
    BY <2>1, <2>2, Zenon
<1>4. QED
  BY <1>1, <1>3

LEMMA PpuWrites ==
    ASSUME NEW p \in PpuType, NEW on \in BOOLEAN
    PROVE  /\ WriteMask(p, on) \in PpuType
           /\ WriteMask(p, on).scanline = p.scanline /\ WriteMask(p, on).cycle = p.cycle
           /\ WriteMask(p, on).rendering = on
           /\ ReadStatus(p) \in PpuType
           /\ ReadStatus(p).scanline = p.scanline /\ ReadStatus(p).cycle = p.cycle
           /\ ReadStatus(p).rendering = p.rendering
<1>1. PICK w, r : w = [p EXCEPT !.rendering = on] /\ r = [p EXCEPT !.vblank = FALSE]
  OBVIOUS
<1>2. /\ w \in PpuType /\ w.scanline = p.scanline /\ w.cycle = p.cycle /\ w.rendering = on
      /\ r \in PpuType /\ r.scanline = p.scanline /\ r.cycle = p.cycle
      /\ r.rendering = p.rendering
  BY <1>1, Zenon DEF PpuType
<1>3. w = WriteMask(p, on) /\ r = ReadStatus(p)
  BY <1>1, Zenon DEF WriteMask, ReadStatus
<1>4. QED
  BY <1>2, <1>3, Zenon

LEMMA CtrlStep ==
    ASSUME IInv, RegisterAccess, NEW nt_y \in 0 .. 1, NEW nt_x \in 0 .. 1,
           NEW inc \in {1, Columns}, write_ctrl(nt_y, nt_x, inc)
    PROVE  IInv'
<1>1. accesses' \in Nat
  <2>1. accesses \in Nat /\ accesses' = accesses + 1
    BY Zenon DEF IInv, TypeOK, RegisterAccess, Access
  <2>2. QED
    BY <2>1
<1>2. temp_vram_addr' \in Address
  BY Zenon DEF write_ctrl, IInv, TypeOK, Address
<1>3. TypeOK'
  BY <1>1, <1>2, Zenon DEF IInv, TypeOK, write_ctrl, line
<1>4. SettledInv' /\ LineInv' /\ AnchorInv'
  BY AccessKeeps, Zenon DEF IInv, write_ctrl
<1>5. ToldInv'
  <2>1. /\ write_latch' = write_latch /\ vram_addr' = vram_addr
        /\ told.half => told' = Lost
        /\ ~told.half => told' = told
    BY Zenon DEF write_ctrl
  <2>2. told = Half(told.value) => told.half
    BY Notes, Zenon
  <2>3. QED
    BY <2>1, <2>2, Zenon DEF IInv, ToldInv
<1>6. QED
  BY <1>3, <1>4, <1>5, Zenon DEF IInv

LEMMA MaskStep ==
    ASSUME IInv, RegisterAccess, NEW on \in BOOLEAN, write_mask(on)
    PROVE  IInv'
<1>1. accesses' \in Nat
  <2>1. accesses \in Nat /\ accesses' = accesses + 1
    BY Zenon DEF IInv, TypeOK, RegisterAccess, Access
  <2>2. QED
    BY <2>1
<1>2. /\ ppu' \in PpuType /\ ppu'.scanline = ppu.scanline /\ ppu'.cycle = ppu.cycle
      /\ ppu'.rendering = on
  <2>1. ppu \in PpuType /\ ppu' = WriteMask(ppu, on)
    BY Zenon DEF IInv, TypeOK, write_mask
  <2>2. /\ WriteMask(ppu, on) \in PpuType
        /\ WriteMask(ppu, on).scanline = ppu.scanline /\ WriteMask(ppu, on).cycle = ppu.cycle
        /\ WriteMask(ppu, on).rendering = on
    BY <2>1, PpuWrites, ZenonT(60)
  <2>3. QED
    BY <2>1, <2>2, Zenon
<1>3. /\ vram_addr' = vram_addr /\ temp_vram_addr' = temp_vram_addr
      /\ write_latch' = write_latch /\ told' = told
  BY Zenon DEF write_mask, registers
<1>4. TypeOK'
  BY <1>1, <1>2, Zenon DEF IInv, TypeOK, write_mask, registers, line
<1>5. SettledInv' /\ LineInv' /\ AnchorInv'
  <2>1. settled' = FALSE /\ (on => anchor' = anchor) /\ (~on => anchor' = None)
    BY Zenon DEF write_mask
  <2>2. QED
    BY <1>2, <1>3, <2>1, AccessKeeps, Zenon DEF IInv
<1>6. ToldInv'
  BY <1>3, Zenon DEF IInv, ToldInv
<1>7. QED
  BY <1>4, <1>5, <1>6, Zenon DEF IInv

LEMMA ScrollStep ==
    ASSUME IInv, RegisterAccess, NEW val \in Scrolls, write_scroll(val)
    PROVE  IInv'
<1>1. accesses' \in Nat
  <2>1. accesses \in Nat /\ accesses' = accesses + 1
    BY Zenon DEF IInv, TypeOK, RegisterAccess, Access
  <2>2. QED
    BY <2>1
<1>2. PICK q, r : q = val \div Tile /\ r = val % Tile
  OBVIOUS
<1>3. q \in 0 .. Columns - 1 /\ q \in 0 .. RowSpan - 1 /\ r \in 0 .. Tile - 1
  <2>1. val \in Nat /\ q < Columns /\ q < RowSpan
    BY <1>2, ScrollAssumption, Zenon
  <2>2. q \in Nat /\ r \in 0 .. Tile - 1
    BY <1>2, <2>1, Sizes, DivMod, Zenon
  <2>3. QED
    BY <2>1, <2>2, Sizes
<1>4. /\ temp_vram_addr \in Address
      /\ fine_x \in 0 .. Tile - 1 /\ render_fine_x \in 0 .. Tile - 1
      /\ (~write_latch) \in BOOLEAN
  BY Zenon DEF IInv, TypeOK
<1>5. /\ temp_vram_addr' \in Address /\ fine_x' \in 0 .. Tile - 1
      /\ render_fine_x' \in 0 .. Tile - 1
  <2>1. CASE write_latch
    <3>1. temp_vram_addr' = [temp_vram_addr EXCEPT !.coarse_y = q, !.fine_y = r]
      BY <1>2, <2>1, Zenon DEF write_scroll, ScrollDown
    <3>2. temp_vram_addr' \in Address
      BY <1>3, <1>4, <3>1, Zenon DEF Address
    <3>3. fine_x' = fine_x /\ render_fine_x' = render_fine_x
      BY <2>1, Zenon DEF write_scroll, ScrollDown
    <3>4. QED
      BY <1>4, <3>2, <3>3, Zenon
  <2>2. CASE ~write_latch
    <3>1. temp_vram_addr' = [temp_vram_addr EXCEPT !.coarse_x = q]
      BY <1>2, <2>2, Zenon DEF write_scroll, ScrollAcross
    <3>2. temp_vram_addr' \in Address
      BY <1>3, <1>4, <3>1, Zenon DEF Address
    <3>3. fine_x' = r /\ render_fine_x' \in {r, render_fine_x}
      BY <1>2, <2>2, Zenon DEF write_scroll, ScrollAcross
    <3>4. QED
      BY <1>3, <1>4, <3>2, <3>3, Zenon
  <2>3. QED
    BY <2>1, <2>2
<1>6. TypeOK'
  BY <1>1, <1>4, <1>5, Zenon DEF IInv, TypeOK, write_scroll
<1>7. SettledInv' /\ LineInv' /\ AnchorInv'
  BY AccessKeeps, Zenon DEF IInv, write_scroll
<1>8. ToldInv'
  BY Zenon DEF write_scroll, ToldInv
<1>9. QED
  BY <1>6, <1>7, <1>8, Zenon DEF IInv

\* The two bytes of an address, put together and taken apart.
LEMMA TwoBytes ==
    ASSUME NEW h \in 0 .. HighSpan - 1, NEW l \in 0 .. LowSpan - 1
    PROVE  /\ h * LowSpan + l \in Nat
           /\ Number(AddressOf(h * LowSpan + l)) = h * LowSpan + l
           /\ (h * LowSpan + l) \div LowSpan = h
<1>1. PICK n : n = h * LowSpan + l
  OBVIOUS
<1>2. h \in Nat /\ l \in Nat /\ LowSpan \in Nat /\ h * LowSpan \in Nat
  BY Sizes
<1>3. n \in Nat /\ n = LowSpan * h + l
  BY <1>1, <1>2
<1>4. n \div LowSpan = h
  BY <1>2, <1>3, Sizes, Unique, Zenon
<1>5. n < HighSpan * LowSpan
  <2>1. h * LowSpan <= (HighSpan - 1) * LowSpan
    BY <1>2, Sizes
  <2>2. (HighSpan - 1) * LowSpan = HighSpan * LowSpan - LowSpan /\ HighSpan * LowSpan \in Nat
    BY Sizes
  <2>3. QED
    BY <1>1, <1>2, <2>1, <2>2
<1>6. PICK whole, half : whole = 4 * Tile * RowSpan * Columns /\ half = HighSpan * LowSpan
  OBVIOUS
<1>7. half \in Nat /\ whole = 2 * half
  BY <1>6, SpanAssumption, Sizes
<1>8. n < whole
  BY <1>3, <1>5, <1>6, <1>7
<1>9. Number(AddressOf(n)) = n
  BY <1>3, <1>6, <1>8, RoundTrip, Zenon
<1>10. QED
  BY <1>1, <1>3, <1>4, <1>9, Zenon

LEMMA AddrStep ==
    ASSUME IInv, RegisterAccess, NEW val \in Bytes, write_addr(val)
    PROVE  IInv'
<1>1. accesses' \in Nat
  <2>1. accesses \in Nat /\ accesses' = accesses + 1
    BY Zenon DEF IInv, TypeOK, RegisterAccess, Access
  <2>2. QED
    BY <2>1
<1>2. /\ vram_addr \in Address /\ temp_vram_addr \in Address
      /\ write_latch \in BOOLEAN /\ (~write_latch) \in BOOLEAN
  BY Zenon DEF IInv, TypeOK
<1>3. PICK h, l, th, tl : /\ h = val % HighSpan /\ l = val % LowSpan
                          /\ th = Number(temp_vram_addr) \div LowSpan
                          /\ tl = Number(temp_vram_addr) % LowSpan
  OBVIOUS
<1>4. h \in 0 .. HighSpan - 1 /\ l \in 0 .. LowSpan - 1 /\ th \in Nat /\ tl \in 0 .. LowSpan - 1
  <2>1. val \in Nat
    BY Sizes DEF Bytes
  <2>2. Number(temp_vram_addr) \in Nat
    BY <1>2, NumberType, Zenon
  <2>3. h \in 0 .. HighSpan - 1 /\ l \in 0 .. LowSpan - 1
    BY <1>3, <2>1, Sizes, DivMod, Zenon
  <2>4. th \in Nat /\ tl \in 0 .. LowSpan - 1
    BY <1>3, <2>2, Sizes, DivMod, Zenon
  <2>5. QED
    BY <2>3, <2>4
<1>5. /\ write_latch' = ~write_latch /\ settled' = FALSE
      /\ ppu' = ppu /\ fine_x' = fine_x /\ increment' = increment
      /\ render_vram_addr' = render_vram_addr /\ render_fine_x' = render_fine_x
      /\ render_was_enabled' = render_was_enabled
  BY Zenon DEF write_addr, line
<1>6. ASSUME write_latch
      PROVE  /\ temp_vram_addr' = AddressOf(th * LowSpan + l)
             /\ vram_addr' = temp_vram_addr'
             /\ temp_vram_addr' \in Address
  <2>1. temp_vram_addr' = AddressOf(th * LowSpan + l) /\ vram_addr' = temp_vram_addr'
    BY <1>3, <1>6, Zenon DEF write_addr, LowByte
  <2>2. th * LowSpan + l \in Nat
    <3>1. l \in Nat /\ LowSpan \in Nat
      BY <1>4, Sizes
    <3>2. QED
      BY <1>4, <3>1
  <2>3. QED
    BY <2>1, <2>2, AddressType, Zenon
<1>7. ASSUME ~write_latch
      PROVE  /\ temp_vram_addr' = AddressOf(h * LowSpan + tl)
             /\ vram_addr' = vram_addr
             /\ temp_vram_addr' \in Address
  <2>1. temp_vram_addr' = AddressOf(h * LowSpan + tl) /\ vram_addr' = vram_addr
    BY <1>3, <1>7, Zenon DEF write_addr, HighByte
  <2>2. QED
    BY <1>4, <2>1, TwoBytes, AddressType, Zenon
<1>8. TypeOK'
  <2>1. temp_vram_addr' \in Address /\ vram_addr' \in Address
    BY <1>2, <1>6, <1>7, Zenon
  <2>2. QED
    BY <1>1, <1>2, <1>5, <2>1, Zenon DEF IInv, TypeOK
<1>9. SettledInv' /\ LineInv' /\ AnchorInv'
  <2>1. CASE ~write_latch
    <3>1. anchor' = anchor /\ vram_addr' = vram_addr
      BY <1>7, <2>1, Zenon DEF write_addr
    <3>2. QED
      BY <1>5, <3>1, AccessKeeps, Zenon DEF IInv
  <2>2. CASE write_latch
    <3>1. SettledInv' /\ LineInv'
      BY <1>5, Zenon DEF SettledInv, LineInv
    <3>2. anchor' = AnchorAt(vram_addr')
      BY <2>2, Zenon DEF write_addr
    <3>3. CASE ppu.rendering /\ (Visible \/ PreRender) /\ vram_addr'.coarse_y < Rows
      <4>1. PICK d, y : d = LineOfV /\ y = Top(vram_addr')
        OBVIOUS
      <4>2. anchor'.line = d /\ anchor'.y = y
        <5>1. anchor' = [line |-> d, y |-> y]
          BY <3>2, <3>3, <4>1, Zenon DEF AnchorAt, LineOfV
        <5>2. QED
          BY <5>1, Zenon
      <4>3. d \in Int /\ LineOfV' = d
        <5>1. ppu.scanline \in Int
          BY DEF IInv, TypeOK, PpuType
        <5>2. LineOfV \in Int
          BY <5>1, Screen DEF LineOfV
        <5>3. QED
          BY <1>5, <4>1, <5>2, Zenon DEF LineOfV
      <4>4. y \in 0 .. 2 * Rows * Tile - 1
        BY <1>6, <2>2, <3>3, <4>1, TopType, Zenon
      <4>5. PICK m : m = 2 * Rows * Tile
        OBVIOUS
      <4>6. m \in Nat \ {0} /\ y \in 0 .. m - 1
        <5>1. (2 * Rows) * Tile \in Nat \ {0}
          BY Sizes
        <5>2. QED
          BY <4>4, <4>5, <5>1, Sizes, Zenon
      <4>7. y % m = y /\ y + d - d = y /\ d <= d
        <5>1. y + d - d = y /\ d <= d
          BY <4>3, <4>6
        <5>2. QED
          BY <4>6, <5>1, Small, Zenon
      <4>8. AnchorInv'
        BY <1>5, <3>3, <4>1, <4>2, <4>3, <4>4, <4>5, <4>7, Zenon DEF AnchorInv
      <4>9. QED
        BY <3>1, <4>8
    <3>4. CASE ~(ppu.rendering /\ (Visible \/ PreRender) /\ vram_addr'.coarse_y < Rows)
      <4>1. anchor' = None
        BY <3>2, <3>4, Zenon DEF AnchorAt
      <4>2. QED
        BY <3>1, <4>1, Zenon DEF AnchorInv
    <3>5. QED
      BY <3>3, <3>4
  <2>3. QED
    BY <1>2, <2>1, <2>2, Zenon
<1>10. ToldInv'
  <2>1. /\ told = Lost => told' = Lost
        /\ told.half => told' = Whole(told.value * LowSpan + l)
        /\ told # Lost /\ ~told.half => told' = Half(h)
    <3>1. PICK lost, half, w, p : /\ lost = (told = Lost) /\ half = told.half
                                  /\ w = Whole(told.value * LowSpan + l) /\ p = Half(h)
      OBVIOUS
    <3>2. told' = CASE lost -> Lost [] half -> w [] OTHER -> p
      BY <1>3, <3>1, Zenon DEF write_addr
    <3>3. ~(lost /\ half)
      BY <3>1, Notes, Zenon
    <3>4. /\ lost => told' = Lost
          /\ half => told' = w
          /\ ~lost /\ ~half => told' = p
      BY <3>2, <3>3
    <3>5. QED
      BY <3>1, <3>4, Zenon
  <2>2. CASE told = Lost
    BY <2>1, <2>2, Zenon DEF ToldInv
  <2>3. CASE told.half
    <3>1. write_latch /\ th = told.value /\ told.value \in 0 .. HighSpan - 1
      BY <1>3, <2>3, Notes, Zenon DEF IInv, ToldInv
    <3>2. PICK n : n = told.value * LowSpan + l
      OBVIOUS
    <3>3. Number(AddressOf(n)) = n
      BY <1>4, <3>1, <3>2, TwoBytes, Zenon
    <3>4. vram_addr' = AddressOf(n) /\ ~write_latch'
      BY <1>5, <1>6, <3>1, <3>2, Zenon
    <3>5. told' = Whole(n) /\ told'.value = n
      BY <2>1, <2>3, <3>2, Notes, Zenon
    <3>6. Number(vram_addr') = told'.value
      BY <3>3, <3>4, <3>5, Zenon
    <3>7. QED
      BY <3>4, <3>5, <3>6, Zenon DEF ToldInv
  <2>4. CASE told # Lost /\ ~told.half
    <3>1. ~write_latch
      BY <2>4, Notes, Zenon DEF IInv, ToldInv
    <3>2. (h * LowSpan + tl) \div LowSpan = h
      BY <1>4, TwoBytes, Zenon
    <3>3. Number(temp_vram_addr') = h * LowSpan + tl /\ write_latch'
      BY <1>4, <1>5, <1>7, <3>1, TwoBytes, Zenon
    <3>4. told' = Half(h) /\ told'.value = h
      BY <2>1, <2>4, Notes, Zenon
    <3>5. Number(temp_vram_addr') \div LowSpan = told'.value
      BY <3>2, <3>3, <3>4, Zenon
    <3>6. told' = Half(told'.value) /\ told'.value \in 0 .. HighSpan - 1
      BY <1>4, <3>4, Zenon
    <3>7. QED
      BY <3>3, <3>5, <3>6, Zenon DEF ToldInv
  <2>5. QED
    BY <2>2, <2>3, <2>4, Zenon
<1>11. QED
  BY <1>8, <1>9, <1>10, Zenon DEF IInv

LEMMA DataStep ==
    ASSUME IInv, RegisterAccess, AccessData
    PROVE  IInv'
<1>1. accesses' \in Nat
  <2>1. accesses \in Nat /\ accesses' = accesses + 1
    BY Zenon DEF IInv, TypeOK, RegisterAccess, Access
  <2>2. QED
    BY <2>1
<1>2. vram_addr' \in Address
  <2>1. Number(vram_addr) \in Nat /\ increment \in {1, Columns}
    BY NumberType, Zenon DEF IInv, TypeOK
  <2>2. Number(vram_addr) + increment \in Nat
    BY <2>1, Sizes
  <2>3. QED
    BY <2>2, AddressType, Zenon DEF AccessData
<1>3. TypeOK'
  BY <1>1, <1>2, Zenon DEF IInv, TypeOK, AccessData, line
<1>4. SettledInv' /\ LineInv' /\ AnchorInv'
  BY AccessKeeps, Zenon DEF IInv, AccessData
<1>5. ToldInv'
  <2>1. /\ write_latch' = write_latch /\ temp_vram_addr' = temp_vram_addr
        /\ told.whole => told' = Clear
        /\ ~told.whole => told' = told
    BY Zenon DEF AccessData
  <2>2. told.whole => ~write_latch
    BY Notes, Zenon DEF IInv, ToldInv
  <2>3. told = Whole(told.value) => told.whole
    BY Notes, Zenon
  <2>4. QED
    BY <2>1, <2>2, <2>3, Zenon DEF IInv, ToldInv
<1>6. QED
  BY <1>3, <1>4, <1>5, Zenon DEF IInv

LEMMA StatusStep ==
    ASSUME IInv, read_status
    PROVE  IInv'
<1>1. /\ ppu' \in PpuType /\ ppu'.scanline = ppu.scanline /\ ppu'.cycle = ppu.cycle
      /\ ppu'.rendering = ppu.rendering
  <2>1. ppu \in PpuType /\ ppu' = ReadStatus(ppu)
    BY Zenon DEF IInv, TypeOK, read_status
  <2>2. QED
    BY <2>1, PpuWrites, Zenon
<1>2. /\ vram_addr' = vram_addr /\ temp_vram_addr' = temp_vram_addr /\ fine_x' = fine_x
      /\ increment' = increment /\ render_vram_addr' = render_vram_addr
      /\ render_fine_x' = render_fine_x /\ render_was_enabled' = render_was_enabled
      /\ settled' = settled /\ anchor' = anchor /\ accesses' = accesses
      /\ write_latch' = FALSE
      /\ told.whole => told' = told
      /\ ~told.whole => told' = Clear
  BY Zenon DEF read_status, line
<1>3. /\ LineOfV' = LineOfV /\ (Visible' <=> Visible) /\ (PreRender' <=> PreRender)
      /\ (Drawing' <=> Drawing)
  BY <1>1, Zenon DEF LineOfV, Visible, PreRender, Drawing
<1>4. TypeOK'
  BY <1>1, <1>2, Zenon DEF IInv, TypeOK
<1>5. SettledInv' /\ LineInv'
  BY <1>1, <1>2, <1>3, Zenon DEF IInv, SettledInv, LineInv
<1>6. AnchorInv'
  BY <1>1, <1>2, <1>3, Zenon DEF IInv, AnchorInv
<1>7. ToldInv'
  <2>1. told.whole => told = Whole(told.value) /\ Number(vram_addr) = told.value
    BY Notes, Zenon DEF IInv, ToldInv
  <2>2. QED
    BY <1>2, <2>1, Zenon DEF ToldInv
<1>8. QED
  BY <1>4, <1>5, <1>6, <1>7, Zenon DEF IInv

LEMMA RestoreStep ==
    ASSUME IInv, NEW stray \in Strays, NEW on \in BOOLEAN,
           restore_state(AddressOf(stray), 0, on)
    PROVE  IInv'
<1>1. AddressOf(stray) \in Address /\ 0 \in 0 .. Tile - 1
  <2>1. Strays \subseteq Nat
    BY ScrollAssumption, Zenon
  <2>2. stray \in Nat
    BY <2>1
  <2>3. 0 \in 0 .. Tile - 1
    BY Sizes
  <2>4. QED
    BY <2>2, <2>3, AddressType, Zenon
<1>2. /\ ppu' = ppu /\ vram_addr' = vram_addr /\ temp_vram_addr' = temp_vram_addr
      /\ fine_x' = fine_x /\ increment' = increment /\ write_latch' = write_latch
      /\ anchor' = anchor /\ accesses' = accesses /\ told' = told
      /\ render_vram_addr' \in Address /\ render_fine_x' \in 0 .. Tile - 1
      /\ render_was_enabled' \in BOOLEAN
      /\ settled' = (settled /\ ~Drawing)
  BY <1>1, Zenon DEF restore_state, registers
<1>3. /\ LineOfV' = LineOfV /\ (Visible' <=> Visible) /\ (PreRender' <=> PreRender)
      /\ (Drawing' <=> Drawing)
  BY <1>2, Zenon DEF LineOfV, Visible, PreRender, Drawing
<1>4. TypeOK'
  BY <1>2, Zenon DEF IInv, TypeOK
<1>5. SettledInv' /\ LineInv'
  <2>1. settled' \in BOOLEAN /\ (settled' => settled /\ ~Drawing)
    BY <1>2, Zenon
  <2>2. QED
    BY <1>2, <1>3, <2>1, Zenon DEF IInv, SettledInv, LineInv
<1>6. AnchorInv' /\ ToldInv'
  BY <1>2, <1>3, Zenon DEF IInv, AnchorInv, ToldInv
<1>7. QED
  BY <1>4, <1>5, <1>6, Zenon DEF IInv

-----------------------------------------------------------------------------
(* Every state of the specification.                                        *)

LEMMA InitInv == Init => IInv
<1> SUFFICES ASSUME Init PROVE IInv
  OBVIOUS
<1>1. PICK on \in BOOLEAN : ppu = WriteMask(NewPpu, on)
  BY Zenon DEF Init
<1>2. ppu \in PpuType /\ ppu.scanline = -1 /\ ppu.cycle = 0
  <2>1. 0 \in 0 .. LastCycle /\ -1 \in -1 .. LastLine
    BY BeamAssumption
  <2>2. NewPpu \in PpuType /\ NewPpu.scanline = -1 /\ NewPpu.cycle = 0
    BY <2>1, Zenon DEF NewPpu, PpuType
  <2>3. QED
    BY <1>1, <2>2, PpuWrites, Zenon
<1>3. temp_vram_addr \in Address /\ Zero \in Address
  <2>1. PICK n \in Starts : temp_vram_addr = AddressOf(n)
    BY Zenon DEF Init
  <2>2. n \in Nat /\ 0 \in Nat
    BY ScrollAssumption, Zenon
  <2>3. QED
    BY <2>1, <2>2, AddressType, Zenon DEF Zero
<1>4. TypeOK
  <2>1. 0 \in 0 .. Tile - 1 /\ 0 \in Nat
    BY Sizes
  <2>2. QED
    BY <1>2, <1>3, <2>1, Zenon DEF Init, TypeOK
<1>5. SettledInv /\ LineInv /\ AnchorInv
  BY Zenon DEF Init, SettledInv, LineInv, AnchorInv
<1>6. ToldInv
  BY Zenon DEF Init, ToldInv
<1>7. QED
  BY <1>4, <1>5, <1>6, Zenon DEF IInv

LEMMA NextInv == IInv /\ [Next]_vars => IInv'
<1> SUFFICES ASSUME IInv, [Next]_vars PROVE IInv'
  OBVIOUS
<1>1. CASE Tick
  BY <1>1, TickType, TickSettled, TickLine, TickAnchor, TickTold, Zenon DEF IInv
<1>2. CASE RegisterAccess
  <2>1. CASE \E nt_y, nt_x \in 0 .. 1, inc \in {1, Columns} : write_ctrl(nt_y, nt_x, inc)
    BY <1>2, <2>1, CtrlStep, Zenon
  <2>2. CASE \E on \in BOOLEAN : write_mask(on)
    BY <1>2, <2>2, MaskStep, Zenon
  <2>3. CASE \E val \in Scrolls : write_scroll(val)
    BY <1>2, <2>3, ScrollStep, Zenon
  <2>4. CASE \E val \in Bytes : write_addr(val)
    BY <1>2, <2>4, AddrStep, Zenon
  <2>5. CASE AccessData
    BY <1>2, <2>5, DataStep, Zenon
  <2>6. QED
    BY <1>2, <2>1, <2>2, <2>3, <2>4, <2>5, Zenon DEF RegisterAccess
<1>3. CASE read_status
  BY <1>3, StatusStep, Zenon
<1>4. CASE \E stray \in Strays, on \in BOOLEAN : restore_state(AddressOf(stray), 0, on)
  BY <1>4, RestoreStep, Zenon
<1>5. CASE UNCHANGED vars
  BY <1>5, ZenonT(60) DEF vars, registers, line, IInv, TypeOK, SettledInv, LineInv, AnchorInv,
     ToldInv, Visible, PreRender, Drawing, LineOfV
<1>6. QED
  BY <1>1, <1>2, <1>3, <1>4, <1>5, Zenon DEF Next

THEOREM Invariance == Spec => []IInv
  BY InitInv, NextInv, PTL DEF Spec

\* While nobody touches the registers in a line (tick, render_pixel), its pixel
\* x is fetched x pixels right of the scroll position that was written, and its
\* row is as far below the row that the picture was anchored to as the line is
\* below the anchor's: on screens and nametables of every size, wherever in a
\* line the program gets at the registers, however often.
THEOREM PictureFollows == Spec => []PictureFollowsScroll
<1>1. IInv => PictureFollowsScroll
  <2> SUFFICES ASSUME IInv, Drawing, settled, anchor # None, anchor.line <= ppu.scanline
      PROVE  /\ Left(render_vram_addr, render_fine_x)
                  = (Left(temp_vram_addr, fine_x) + ppu.cycle - 1) % (2 * Width)
             /\ Top(render_vram_addr)
                  = (anchor.y + ppu.scanline - anchor.line) % (2 * Rows * Tile)
    BY Zenon DEF PictureFollowsScroll
  <2>1. /\ SameRow(render_vram_addr, vram_addr)
        /\ Left(render_vram_addr, render_fine_x)
             = (Left(temp_vram_addr, fine_x) + ppu.cycle - 1) % (2 * Width)
    BY Zenon DEF IInv, LineInv
  <2>2. Top(vram_addr) = (anchor.y + LineOfV - anchor.line) % (2 * Rows * Tile)
    BY Zenon DEF IInv, AnchorInv, Drawing
  <2>3. LineOfV = ppu.scanline
    <3>1. ppu.cycle <= Width
      BY Screen DEF Drawing
    <3>2. QED
      BY <3>1, Zenon DEF LineOfV
  <2>4. QED
    BY <2>1, <2>2, <2>3, SamePlace, Zenon
<1>2. QED
  BY <1>1, Invariance, PTL

\* write_addr and read_status: the two halves of an address that follow a read
\* of $2002 or another whole address are v until the program or the beam moves
\* it, whatever was written before to the registers that share the latch.
THEOREM AddressIsWhole == Spec => []AddressArrivesWhole
<1>1. IInv => AddressArrivesWhole
  BY Notes, Zenon DEF IInv, ToldInv, AddressArrivesWhole
<1>2. QED
  BY <1>1, Invariance, PTL


=============================================================================
