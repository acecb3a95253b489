----------------------------- MODULE PpuTiming -----------------------------
(***************************************************************************)
(* The picture unit as a clock (src/src/ppu/render.rs, Ppu::tick, and the  *)
(* two registers of src/src/ppu/mod.rs that meet it): where the beam is,   *)
(* the vertical-blank flag, the NMI it raises, and the end of a frame.     *)
(* Pixels, sprites, scrolling and video memory are left out.               *)
(*                                                                         *)
(* Each operation is a function from the fields to the fields.             *)
(***************************************************************************)
EXTENDS Integers

CONSTANTS
    LastCycle,     \* 340: a scanline is the cycles 0 .. LastCycle
    VblankLine,    \* 241
    LastLine       \* 260: a frame is the scanlines -1 .. LastLine

ASSUME BeamAssumption ==
    /\ LastCycle \in Nat \ {0, 1, 2, 3}
    /\ VblankLine \in Nat \ {0}
    /\ LastLine \in Nat
    /\ VblankLine <= LastLine

PpuType ==
    [ scanline       : -1 .. LastLine,
      cycle          : 0 .. LastCycle,
      vblank         : BOOLEAN,     \* status & 0x80
      nmi_enabled    : BOOLEAN,     \* ctrl & 0x80
      rendering      : BOOLEAN,     \* mask & 0x18 is not 0
      nmi_triggered  : BOOLEAN,
      frame_complete : BOOLEAN,
      odd_frame      : BOOLEAN ]

NewPpu ==
    [ scanline       |-> -1,
      cycle          |-> 0,
      vblank         |-> FALSE,
      nmi_enabled    |-> FALSE,
      rendering      |-> FALSE,
      nmi_triggered  |-> FALSE,
      frame_complete |-> FALSE,
      odd_frame      |-> FALSE ]

\* Cycle 1 of the first blank line raises the flag and, if enabled, the NMI;
\* cycle 1 of the pre-render line lowers the flag.
SetFlags(p) ==
    IF p.cycle = 1 /\ p.scanline = VblankLine
      THEN [p EXCEPT !.vblank = TRUE, !.nmi_triggered = @ \/ p.nmi_enabled]
    ELSE IF p.cycle = 1 /\ p.scanline = -1
      THEN [p EXCEPT !.vblank = FALSE]
    ELSE p

\* The beam moves on; past the last line the frame is complete.
Advance(p) ==
    IF p.cycle < LastCycle        THEN [p EXCEPT !.cycle = @ + 1]
    ELSE IF p.scanline < LastLine THEN [p EXCEPT !.cycle = 0, !.scanline = @ + 1]
    ELSE [p EXCEPT !.cycle          = 0,
                   !.scanline       = -1,
                   !.frame_complete = TRUE,
                   !.odd_frame      = ~@]

\* Mutant: the skipped cycle begins the pre-render line again.
SkipToPreRender(p) ==
    IF p.odd_frame /\ p.rendering /\ p.scanline = -1 /\ p.cycle = LastCycle
      THEN [p EXCEPT !.cycle = 0]
      ELSE p

\* An odd frame is one cycle shorter while rendering.
SkipOddCycle(p) ==
    IF p.odd_frame /\ p.rendering /\ p.scanline = -1 /\ p.cycle = LastCycle
      THEN [p EXCEPT !.cycle = 0, !.scanline = 0]
      ELSE p

PpuTick == [p \in PpuType |-> SkipOddCycle(Advance(SetFlags(p)))]

\* One iteration of Bus::tick ticks the picture unit three times.
BusTick == [p \in PpuType |-> PpuTick[PpuTick[PpuTick[p]]]]

\* $2000 write: enabling the NMI inside vertical blank raises it at once.
WriteCtrl(p, enable) ==
    [p EXCEPT !.nmi_enabled   = enable,
              !.nmi_triggered = @ \/ (~p.nmi_enabled /\ enable /\ p.vblank)]

WriteMask(p, rendering) == [p EXCEPT !.rendering = rendering]

\* Mutant: reading the flag takes the NMI back.
ReadStatusDropsNmi(p) == [p EXCEPT !.vblank = FALSE, !.nmi_triggered = FALSE]

\* $2002 read: the flag is lowered, an NMI already raised is not.
ReadStatus(p) == [p EXCEPT !.vblank = FALSE]

\* The beam is before the cycle that starts vertical blank.
BeforeVblank(p) ==
    p.scanline < VblankLine \/ (p.scanline = VblankLine /\ p.cycle <= 1)

=============================================================================
