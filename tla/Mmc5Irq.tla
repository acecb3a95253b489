------------------------------ MODULE Mmc5Irq ------------------------------
(***************************************************************************)
(* The scanline interrupt of mapper 5 (cartridge/mapper/mmc5.rs).  Nothing *)
(* tells the board where a frame begins: it takes a silence of the picture *)
(* unit's reads for vertical blank, and counts lines from the first one    *)
(* after it.  The beam (ppu/render.rs) is modelled as far as the board     *)
(* sees it: a notice early in every rendered line, and reads in it.        *)
(***************************************************************************)
EXTENDS Integers

CONSTANTS
    Visible,     \* 240: visible lines
    Blank,       \* 21: lines from them to the pre-render line
    LineCycles,  \* 114: CPU cycles of a line
    IdleCycles,  \* 120: CPU cycles without a read that mean vertical blank
    CounterMax   \* 255: the counter stays there

\* Assumed by Cartridge.  A line is shorter than the silence, vertical blank
\* is longer, and a line does not end with its notice.
LinesAssumption ==
    /\ Visible \in Nat \ {0} /\ Blank \in Nat
    /\ LineCycles \in Nat /\ LineCycles > 2 /\ IdleCycles \in Nat
    /\ LineCycles < IdleCycles /\ IdleCycles < Blank * LineCycles
    /\ CounterMax \in Nat /\ Visible < CounterMax

VARIABLES
    irq_target, irq_enable, irq_pending,
    in_frame, need_in_frame, scanline_counter, ppu_idle,
    line,       \* -1 is the pre-render line
    cycle,      \* of the line
    rendering,  \* Ppu::mask has background or sprites on
    steady,     \* history: since vertical blank began, the program has neither
                \* touched the picture unit nor the target, and rendering is on
    raised      \* history: requests since vertical blank began, at most 2

detector == <<in_frame, need_in_frame, scanline_counter, ppu_idle>>
beam == <<line, cycle>>
vars == <<irq_target, irq_enable, irq_pending, detector, beam, rendering, steady, raised>>

Target == 0 .. Visible + 1

Init ==
    /\ irq_target = 0 /\ irq_enable = FALSE /\ irq_pending = FALSE
    /\ in_frame = FALSE /\ need_in_frame = FALSE
    /\ scanline_counter = 0 /\ ppu_idle = 0
    /\ line = 0 /\ cycle = 0
    /\ rendering = FALSE /\ steady = FALSE /\ raised = 0

\* Mutant: a frame ends only when the next one begins.
IdleKeepsFrame(d) ==
    [d EXCEPT !.ppu_idle = IF @ > 0 THEN @ - 1 ELSE 0,
              !.need_in_frame = @ /\ d.ppu_idle # 1]

\* tick_cpu: the silence is over when the count that notify_ppu_read sets has
\* run down.
Idle(d) ==
    [d EXCEPT !.ppu_idle = IF @ > 0 THEN @ - 1 ELSE 0,
              !.in_frame = @ /\ d.ppu_idle # 1,
              !.need_in_frame = @ /\ d.ppu_idle # 1]

\* Mutant: the line after a silence counts like any other.
EarlyUnlatched(d) ==
    [d EXCEPT !.in_frame = TRUE, !.ppu_idle = IdleCycles,
              !.scanline_counter = IF @ < CounterMax THEN @ + 1 ELSE @]

\* tick_scanline_early: the first line after a silence starts the count.
Early(d) ==
    IF d.in_frame \/ d.need_in_frame
      THEN [d EXCEPT !.in_frame = TRUE, !.need_in_frame = FALSE, !.ppu_idle = IdleCycles,
                     !.scanline_counter = IF @ < CounterMax THEN @ + 1 ELSE @]
      ELSE [d EXCEPT !.need_in_frame = TRUE, !.scanline_counter = 0, !.ppu_idle = IdleCycles]

Detector == [in_frame |-> in_frame, need_in_frame |-> need_in_frame,
             scanline_counter |-> scanline_counter, ppu_idle |-> ppu_idle]

Notices == cycle = 1 /\ line < Visible /\ rendering
Reads == line \in 0 .. Visible - 1 /\ rendering /\ cycle > 0

\* One CPU cycle of Bus::tick: tick_cpu, then what the picture unit does.  It
\* need not read anything in a line without background.
Tick ==
    LET idled   == Idle(Detector)
        noticed == IF Notices THEN Early(idled) ELSE idled
        hit     == Notices /\ (idled.in_frame \/ idled.need_in_frame)
                     /\ noticed.scanline_counter = irq_target
    IN  /\ in_frame' = noticed.in_frame /\ need_in_frame' = noticed.need_in_frame
        /\ scanline_counter' = noticed.scanline_counter
        /\ ppu_idle' \in {noticed.ppu_idle} \cup (IF Reads THEN {IdleCycles} ELSE {})
        /\ irq_pending' = (irq_pending \/ hit)
        /\ cycle' = (cycle + 1) % LineCycles
        /\ line' = IF cycle' # 0 THEN line
                   ELSE IF line = Visible + Blank - 1 THEN -1 ELSE line + 1
        /\ LET blank == line' = Visible /\ cycle' = 0
           IN  /\ raised' = IF blank THEN 0 ELSE IF hit /\ raised < 2 THEN raised + 1 ELSE raised
               /\ steady' = IF blank THEN rendering ELSE steady
        /\ UNCHANGED <<irq_target, irq_enable, rendering>>

WriteTarget(val) ==
    /\ irq_target' = val
    /\ steady' = FALSE
    /\ UNCHANGED <<irq_enable, irq_pending, detector, beam, rendering, raised>>

WriteEnable(on) ==
    /\ irq_enable' = on
    /\ UNCHANGED <<irq_target, irq_pending, detector, beam, rendering, steady, raised>>

\* $5204, which acknowledges.
ReadStatus ==
    /\ irq_pending' = FALSE
    /\ UNCHANGED <<irq_target, irq_enable, detector, beam, rendering, steady, raised>>

\* $2001.
WriteMask(on) ==
    /\ rendering' = on
    /\ steady' = FALSE
    /\ UNCHANGED <<irq_target, irq_enable, irq_pending, detector, beam, raised>>

\* $2007 reads are reads of the picture unit too.
ReadData ==
    /\ ppu_idle' = IdleCycles
    /\ steady' = FALSE
    /\ UNCHANGED <<irq_target, irq_enable, irq_pending, in_frame, need_in_frame,
                   scanline_counter, beam, rendering, raised>>

Access ==
    \/ \E val \in Target : WriteTarget(val)
    \/ \E on \in BOOLEAN : WriteEnable(on) \/ WriteMask(on)
    \/ ReadStatus \/ ReadData

Next == Tick \/ Access

Spec == Init /\ [][Next]_vars

-----------------------------------------------------------------------------

\* The type invariant.
TypeOK ==
    /\ irq_target \in Target /\ irq_enable \in BOOLEAN /\ irq_pending \in BOOLEAN
    /\ in_frame \in BOOLEAN /\ need_in_frame \in BOOLEAN
    /\ scanline_counter \in 0 .. CounterMax /\ ppu_idle \in 0 .. IdleCycles
    /\ line \in -1 .. Visible + Blank - 1 /\ cycle \in 0 .. LineCycles - 1
    /\ rendering \in BOOLEAN /\ steady \in BOOLEAN /\ raised \in 0 .. 2

\* The board is in a frame only while its silence is being timed, so no frame
\* outlives the picture unit's reads.
FrameEnds == in_frame \/ need_in_frame => ppu_idle > 0

\* A program that sets the target and leaves the picture unit alone gets one
\* interrupt per frame, on the line it asked for, although the count begins
\* with a guess.
RaisedOnLine ==
    /\ ~irq_pending /\ irq_pending' /\ steady => line = irq_target - 1
    /\ steady /\ line' = Visible /\ line # Visible =>
          raised = IF irq_target \in 1 .. Visible THEN 1 ELSE 0

=============================================================================
