------------------------------ MODULE PpuProofs -----------------------------
(***************************************************************************)
(* The dots of the PPU for lines of any length and frames of any number of *)
(* rows: in every order of writes the functions of the dots find what they *)
(* assert, no write of LCDC is lost, a program sees the frames of          *)
(* FrameModes, and a frame left alone makes the requests due.  Then the    *)
(* LCD, which shows the rows the PPU has pushed, and the fetcher of a row, *)
(* which finds what it asserts and takes the dots accounted for.           *)
(***************************************************************************)
EXTENDS Video, PixelTransfer, FiniteSetTheorems, TLAPS

PpuStates ==
  [selector : Selectors, dots : 0 .. LineEnd - 1, mode : Modes,
   ly : 0 .. Lines - 1, line : 0 .. Lines - 1, lyc_irq : BOOLEAN,
   oam : BOOLEAN, vram : BOOLEAN, first : BOOLEAN, delay : 0 .. 2]

(* What each function of a dot finds: its dots, the mode, the lines, the   *)
(* buses.  The line after the PPU is turned on has functions of its own up *)
(* to the pixel transfer, which both share.                                *)
ScanPlan(p) ==
  /\ p.selector \in {"oam_scan", "oam_scan_77", "oam_scan_done"} =>
       ~p.first /\ p.oam /\ p.line \in 0 .. Rows - 1 /\ p.ly = p.line /\ p.lyc_irq
  /\ p.selector = "oam_scan" => p.dots <= Scan /\ p.mode = "OAM_SCAN" /\ ~p.vram
  /\ p.selector = "oam_scan_77" => p.dots = Scan + 1 /\ p.mode = "OAM_SCAN" /\ ~p.vram
  /\ p.selector = "oam_scan_done" =>
       \/ p.dots = Scan + 2 /\ p.mode = "OAM_SCAN" /\ p.vram
       \/ p.dots = Scan + 3 /\ p.mode = "PIXEL_TRANSFER" /\ p.vram
  /\ p.selector \in {"after_turn_on", "after_turn_on_78", "after_turn_on_79"} =>
       p.first /\ ~p.vram /\ p.line = 0 /\ p.ly = 0 /\ p.lyc_irq /\ p.delay = 0
  /\ p.selector = "after_turn_on" => p.dots <= Scan + 1 /\ p.mode = "OAM_SCAN" /\ ~p.oam
  /\ p.selector = "after_turn_on_78" => p.dots = Scan + 2 /\ p.mode = "OAM_SCAN" /\ p.oam
  /\ p.selector = "after_turn_on_79" => p.dots = Scan + 3 /\ p.mode = "PIXEL_TRANSFER" /\ p.oam

TransferPlan(p) ==
  p.selector = "pixel_transfer" =>
    /\ p.dots \in Scan + 4 .. Long - 1 /\ p.mode = "PIXEL_TRANSFER" /\ p.oam /\ p.vram
    /\ p.line \in 0 .. Rows - 1 /\ p.ly = p.line /\ p.lyc_irq
    /\ p.first => p.line = 0

FirstPlan(p) ==
  p.selector = "first_hblank" =>
    /\ p.first /\ p.mode = "PIXEL_TRANSFER" /\ p.line = 0 /\ p.ly = 0 /\ p.lyc_irq
    /\ \/ p.delay = 0 /\ p.dots \in Short .. Long /\ p.oam /\ p.vram
       \/ p.delay = 1 /\ p.dots \in Short + 1 .. Long + 1 /\ ~p.oam /\ ~p.vram

HBlankPlan(p) ==
  /\ p.selector \in {"hblank", "hblank_452", "hblank_453", "hblank_454", "hblank_455"} => ~p.first /\ ~p.vram
  /\ p.selector \in {"hblank", "hblank_452"} => p.line \in 0 .. Rows - 2 /\ p.ly = p.line /\ p.lyc_irq /\ p.mode = "HBLANK"
  /\ p.selector = "hblank" => p.dots \in Short .. Sync - 1 /\ ~p.oam
  /\ p.selector = "hblank_452" => p.dots = Sync /\ p.oam
  /\ p.selector = "hblank_453" => p.dots = Sync + 1 /\ p.oam /\ p.line \in 0 .. Rows - 2 /\ p.mode = "HBLANK" /\ p.lyc_irq
  /\ p.selector = "hblank_454" =>
       p.dots = Sync + 2 /\ p.oam /\ p.line \in 1 .. Rows - 1 /\ p.ly = p.line /\ p.mode = "HBLANK" /\ ~p.lyc_irq
  /\ p.selector = "hblank_455" =>
       p.dots = Sync + 3 /\ p.oam /\ p.line \in 1 .. Rows - 1 /\ p.ly = p.line /\ p.mode = "OAM_SCAN" /\ p.lyc_irq

LastHBlankPlan(p) ==
  /\ p.selector \in {"last_hblank", "last_hblank_453", "last_hblank_454", "last_hblank_455"} =>
       ~p.first /\ ~p.vram /\ ~p.oam /\ p.mode = "HBLANK"
  /\ p.selector = "last_hblank" => p.dots \in Short .. Sync /\ p.line = Rows - 1 /\ p.ly = p.line /\ p.lyc_irq
  /\ p.selector = "last_hblank_453" => p.dots = Sync + 1 /\ p.line = Rows - 1 /\ p.lyc_irq
  /\ p.selector = "last_hblank_454" => p.dots = Sync + 2 /\ p.line = Rows /\ p.ly = p.line /\ ~p.lyc_irq
  /\ p.selector = "last_hblank_455" => p.dots = Sync + 3 /\ p.line = Rows /\ p.ly = p.line /\ p.lyc_irq

VBlankPlan(p) ==
  /\ p.selector \in {"vblank", "vblank_453", "vblank_454", "vblank_455"} =>
       ~p.first /\ ~p.vram /\ ~p.oam /\ p.mode = "VBLANK"
  /\ p.selector = "vblank" => p.dots <= Sync /\ p.line \in Rows .. Lines - 2 /\ p.ly = p.line /\ p.lyc_irq
  /\ p.selector = "vblank_453" => p.dots = Sync + 1 /\ p.line \in Rows .. Lines - 2 /\ p.lyc_irq
  /\ p.selector = "vblank_454" => p.dots = Sync + 2 /\ p.line \in Rows + 1 .. Lines - 1 /\ p.ly = p.line /\ ~p.lyc_irq
  /\ p.selector = "vblank_455" => p.dots = Sync + 3 /\ p.line \in Rows + 1 .. Lines - 1 /\ p.ly = p.line /\ p.lyc_irq

LastLineSelectors ==
  {"last_line", "last_line_2", "last_line_3", "last_line_4", "last_line_7",
   "last_line_453", "last_line_454", "last_line_455"}

LastLinePlan(p) ==
  /\ p.selector \in LastLineSelectors => ~p.first /\ ~p.vram /\ p.mode = "VBLANK" /\ p.ly = p.line
  /\ p.selector \in {"last_line", "last_line_2", "last_line_3"} => p.line = Lines - 1 /\ ~p.oam
  /\ p.selector = "last_line" => p.dots <= 1 /\ p.lyc_irq
  /\ p.selector = "last_line_2" => p.dots = 2 /\ p.lyc_irq
  /\ p.selector = "last_line_3" => p.dots = 3 /\ ~p.lyc_irq
  /\ p.selector \in {"last_line_4", "last_line_7", "last_line_453", "last_line_454", "last_line_455"} => p.line = 0
  /\ p.selector = "last_line_4" => p.dots \in 4 .. 6 /\ ~p.lyc_irq /\ ~p.oam
  /\ p.selector = "last_line_7" => p.dots \in 7 .. Sync /\ p.lyc_irq /\ ~p.oam
  /\ p.selector = "last_line_453" => p.dots = Sync + 1 /\ p.lyc_irq /\ ~p.oam
  /\ p.selector = "last_line_454" => p.dots = Sync + 2 /\ p.lyc_irq /\ p.oam
  /\ p.selector = "last_line_455" => p.dots = Sync + 3 /\ p.lyc_irq /\ p.oam

Planned(p) ==
  /\ p \in PpuStates
  /\ ScanPlan(p) /\ TransferPlan(p) /\ FirstPlan(p)
  /\ HBlankPlan(p) /\ LastHBlankPlan(p) /\ VBlankPlan(p) /\ LastLinePlan(p)

(* The frame of FrameModes as dots draw it. *)
ModeOf(p) == IF p.mode = "OAM_SCAN" /\ p.first THEN "HBLANK" ELSE p.mode
DrawnBy(p) ==
  CASE p.mode = "VBLANK" -> Rows
    [] p.mode = "HBLANK" -> IF p.dots > Sync + 1 THEN p.line ELSE p.line + 1
    [] OTHER -> p.line

Draws(p, q) ==
  /\ ModeOf(p) = "OAM_SCAN" \/ (ModeOf(p) = "HBLANK" /\ p.line = 0 /\ DrawnBy(p) = 0)
  /\ ModeOf(q) = "PIXEL_TRANSFER" /\ q.line = p.line /\ DrawnBy(q) = DrawnBy(p)
LeavesRow(p, q) ==
  /\ ModeOf(p) = "PIXEL_TRANSFER"
  /\ ModeOf(q) = "HBLANK" /\ q.line = p.line /\ DrawnBy(q) = DrawnBy(p) + 1
TakesLine(p, q) ==
  /\ ModeOf(p) = "VBLANK" \/ (ModeOf(p) = "HBLANK" /\ DrawnBy(p) = p.line + 1)
  /\ ModeOf(q) = ModeOf(p) /\ q.line = (p.line + 1) % Lines /\ DrawnBy(q) = DrawnBy(p)
ScansRow(p, q) ==
  /\ ModeOf(p) = "HBLANK" /\ DrawnBy(p) = p.line /\ DrawnBy(p) \in 1 .. Rows - 1
  /\ ModeOf(q) = "OAM_SCAN" /\ q.line = p.line /\ DrawnBy(q) = DrawnBy(p)
Blanks(p, q) ==
  /\ ModeOf(p) = "HBLANK" /\ DrawnBy(p) = p.line /\ DrawnBy(p) = Rows
  /\ ModeOf(q) = "VBLANK" /\ q.line = p.line /\ DrawnBy(q) = DrawnBy(p)
Renews(p, q) ==
  /\ ModeOf(p) = "VBLANK" /\ p.line = 0
  /\ ModeOf(q) = "OAM_SCAN" /\ q.line = p.line /\ DrawnBy(q) = 0
Keeps(p, q) == ModeOf(q) = ModeOf(p) /\ q.line = p.line /\ DrawnBy(q) = DrawnBy(p)

FrameStep(p, q) ==
  \/ Draws(p, q) \/ LeavesRow(p, q) \/ TakesLine(p, q) \/ ScansRow(p, q)
  \/ Blanks(p, q) \/ Renews(p, q) \/ Keeps(p, q)
-----------------------------------------------------------------------------
(* A dot takes a planned state to a planned state and draws one step of    *)
(* the frame or none, function by function.                                *)
USE DEF LineEnd

Bounds ==
  /\ Scan \in Nat /\ Short \in Nat /\ Long \in Nat /\ Sync \in Nat /\ Rows \in Nat /\ Lines \in Nat
  /\ Scan + 4 < Short /\ Short <= Long /\ Long <= Sync - 4 /\ Sync > 6
  /\ Rows > 1 /\ Rows < Lines - 1

LEMMA ConstantBounds == Bounds
  BY PpuAssumption DEF Bounds

LEMMA LinesOfFrame ==
  /\ \A n \in 0 .. Lines - 2 : (n + 1) % Lines = n + 1
  /\ (Lines - 1 + 1) % Lines = 0
<1>1. Lines \in Nat /\ Lines > 0
  BY ConstantBounds DEF Bounds
<1> QED BY <1>1

(* Only one part of the plan speaks of a function. *)
ScanSelectors ==
  {"oam_scan", "oam_scan_77", "oam_scan_done", "after_turn_on", "after_turn_on_78", "after_turn_on_79"}
RowSelectors == {"hblank", "hblank_452", "hblank_453", "hblank_454", "hblank_455"}
LastRowSelectors == {"last_hblank", "last_hblank_453", "last_hblank_454", "last_hblank_455"}
BlankSelectors == {"vblank", "vblank_453", "vblank_454", "vblank_455"}

LEMMA PlanOfScan ==
  ASSUME NEW q \in PpuStates, q.selector \in ScanSelectors, ScanPlan(q) PROVE Planned(q)
  BY DEF Planned, TransferPlan, FirstPlan, HBlankPlan, LastHBlankPlan, VBlankPlan, LastLinePlan,
     LastLineSelectors, ScanSelectors

LEMMA PlanOfTransfer ==
  ASSUME NEW q \in PpuStates, q.selector = "pixel_transfer", TransferPlan(q) PROVE Planned(q)
  BY DEF Planned, ScanPlan, FirstPlan, HBlankPlan, LastHBlankPlan, VBlankPlan, LastLinePlan,
     LastLineSelectors

LEMMA PlanOfFirst ==
  ASSUME NEW q \in PpuStates, q.selector = "first_hblank", FirstPlan(q) PROVE Planned(q)
  BY DEF Planned, ScanPlan, TransferPlan, HBlankPlan, LastHBlankPlan, VBlankPlan, LastLinePlan,
     LastLineSelectors

LEMMA PlanOfHBlank ==
  ASSUME NEW q \in PpuStates, q.selector \in RowSelectors, HBlankPlan(q) PROVE Planned(q)
  BY DEF Planned, ScanPlan, TransferPlan, FirstPlan, LastHBlankPlan, VBlankPlan, LastLinePlan,
     LastLineSelectors, RowSelectors

LEMMA PlanOfLastHBlank ==
  ASSUME NEW q \in PpuStates, q.selector \in LastRowSelectors, LastHBlankPlan(q) PROVE Planned(q)
  BY DEF Planned, ScanPlan, TransferPlan, FirstPlan, HBlankPlan, VBlankPlan, LastLinePlan,
     LastLineSelectors, LastRowSelectors

LEMMA PlanOfVBlank ==
  ASSUME NEW q \in PpuStates, q.selector \in BlankSelectors, VBlankPlan(q) PROVE Planned(q)
  BY DEF Planned, ScanPlan, TransferPlan, FirstPlan, HBlankPlan, LastHBlankPlan, LastLinePlan,
     LastLineSelectors, BlankSelectors

LEMMA PlanOfLastLine ==
  ASSUME NEW q \in PpuStates, q.selector \in LastLineSelectors, LastLinePlan(q) PROVE Planned(q)
  BY DEF Planned, ScanPlan, TransferPlan, FirstPlan, HBlankPlan, LastHBlankPlan, VBlankPlan,
     LastLineSelectors

(* The scan of a row. *)
LEMMA ScanStep ==
  ASSUME NEW p, Planned(p), NEW q \in ScanDot(p), p.selector \in ScanSelectors
  PROVE  Planned(q) /\ FrameStep(p, q)
<1> USE ConstantBounds DEF Bounds
<1>1. p \in PpuStates
  BY DEF Planned
<1>2. ScanSelectors \cup {"pixel_transfer"} \subseteq Selectors
  BY DEF Selectors, ScanSelectors
<1>3. CASE p.selector = "oam_scan"
  <2>1. q = Until(p, Scan + 1, "oam_scan_77")
    BY <1>3 DEF ScanDot
  <2>2. p.dots + 1 \in 0 .. LineEnd - 1
    BY <1>3, <1>1 DEF Planned, ScanPlan, PpuStates
  <2>3. q \in PpuStates
    BY <1>3, <1>1, <1>2, <2>1, <2>2 DEF PpuStates, Modes, GoNext, Go, ScanSelectors, Until
  <2>4. q.selector \in ScanSelectors
    BY <1>3, <1>1, <2>1 DEF PpuStates, GoNext, Go, ScanSelectors, Until
  <2>5. ScanPlan(q)
    BY <1>3, <1>1, <2>1 DEF Planned, ScanPlan, PpuStates, Modes, GoNext, Go, Until
  <2>6. Keeps(p, q)
    BY <1>3, <1>1, <2>1 DEF Planned, ScanPlan, Keeps, ModeOf, DrawnBy, PpuStates, Modes, GoNext,
       Go, Until
  <2> QED BY <2>3, <2>4, <2>5, <2>6, PlanOfScan DEF FrameStep
<1>4. CASE p.selector = "oam_scan_77"
  <2>1. q = [GoNext(p, "oam_scan_done") EXCEPT !.vram = TRUE]
    BY <1>4 DEF ScanDot
  <2>2. p.dots + 1 \in 0 .. LineEnd - 1
    BY <1>4, <1>1 DEF Planned, ScanPlan, PpuStates
  <2>3. q \in PpuStates
    BY <1>4, <1>1, <1>2, <2>1, <2>2 DEF PpuStates, Modes, GoNext, Go, ScanSelectors
  <2>4. q.selector \in ScanSelectors
    BY <1>4, <1>1, <2>1 DEF PpuStates, GoNext, Go, ScanSelectors
  <2>5. ScanPlan(q)
    BY <1>4, <1>1, <2>1 DEF Planned, ScanPlan, PpuStates, Modes, GoNext, Go
  <2>6. Keeps(p, q)
    BY <1>4, <1>1, <2>1 DEF Planned, ScanPlan, Keeps, ModeOf, DrawnBy, PpuStates, Modes, GoNext, Go
  <2> QED BY <2>3, <2>4, <2>5, <2>6, PlanOfScan DEF FrameStep
<1>5. CASE p.selector = "oam_scan_done" /\ p.dots = Scan + 2
  <2>1. q = [GoNext(p, "oam_scan_done") EXCEPT !.mode = "PIXEL_TRANSFER"]
    BY <1>5 DEF ScanDot
  <2>2. p.dots + 1 \in 0 .. LineEnd - 1
    BY <1>5, <1>1 DEF Planned, ScanPlan, PpuStates
  <2>3. q \in PpuStates
    BY <1>5, <1>1, <1>2, <2>1, <2>2 DEF PpuStates, Modes, GoNext, Go, ScanSelectors
  <2>4. q.selector \in ScanSelectors
    BY <1>5, <1>1, <2>1 DEF PpuStates, GoNext, Go, ScanSelectors
  <2>5. ScanPlan(q)
    BY <1>5, <1>1, <2>1 DEF Planned, ScanPlan, PpuStates, Modes, GoNext, Go
  <2>6. Draws(p, q)
    BY <1>5, <1>1, <2>1 DEF Planned, ScanPlan, Draws, ModeOf, DrawnBy, PpuStates, Modes, GoNext, Go
  <2> QED BY <2>3, <2>4, <2>5, <2>6, PlanOfScan DEF FrameStep
<1>6. CASE p.selector = "oam_scan_done" /\ p.dots = Scan + 3
  <2>1. q = EnterPixelTransfer(p)
    BY <1>6 DEF ScanDot
  <2>2. Scan + 4 \in 0 .. LineEnd - 1
    BY <1>6, <1>1 DEF Planned, ScanPlan, PpuStates
  <2>3. q \in PpuStates
    BY <1>6, <1>1, <1>2, <2>1, <2>2 DEF PpuStates, Modes, GoNext, Go, ScanSelectors,
       EnterPixelTransfer
  <2>4. q.selector = "pixel_transfer"
    BY <1>6, <1>1, <2>1 DEF PpuStates, GoNext, Go, EnterPixelTransfer
  <2>5. TransferPlan(q)
    BY <1>6, <1>1, <2>1 DEF Planned, ScanPlan, TransferPlan, PpuStates, Modes, GoNext, Go,
       EnterPixelTransfer
  <2>6. Keeps(p, q)
    BY <1>6, <1>1, <2>1 DEF Planned, ScanPlan, Keeps, ModeOf, DrawnBy, PpuStates, Modes, GoNext,
       Go, EnterPixelTransfer
  <2> QED BY <2>3, <2>4, <2>5, <2>6, PlanOfTransfer DEF FrameStep
<1>7. CASE p.selector = "after_turn_on" /\ p.dots + 1 = Scan + 2
  <2>1. q = [GoNext(p, "after_turn_on_78") EXCEPT !.oam = TRUE]
    BY <1>7 DEF ScanDot
  <2>2. p.dots + 1 \in 0 .. LineEnd - 1
    BY <1>7, <1>1 DEF Planned, ScanPlan, PpuStates
  <2>3. q \in PpuStates
    BY <1>7, <1>1, <1>2, <2>1, <2>2 DEF PpuStates, Modes, GoNext, Go, ScanSelectors
  <2>4. q.selector \in ScanSelectors
    BY <1>7, <1>1, <2>1 DEF PpuStates, GoNext, Go, ScanSelectors
  <2>5. ScanPlan(q)
    BY <1>7, <1>1, <2>1 DEF Planned, ScanPlan, PpuStates, Modes, GoNext, Go
  <2>6. Keeps(p, q)
    BY <1>7, <1>1, <2>1 DEF Planned, ScanPlan, Keeps, ModeOf, DrawnBy, PpuStates, Modes, GoNext, Go
  <2> QED BY <2>3, <2>4, <2>5, <2>6, PlanOfScan DEF FrameStep
<1>8. CASE p.selector = "after_turn_on" /\ p.dots + 1 # Scan + 2
  <2>1. q = GoNext(p, "after_turn_on")
    BY <1>8 DEF ScanDot
  <2>2. p.dots + 1 \in 0 .. LineEnd - 1
    BY <1>8, <1>1 DEF Planned, ScanPlan, PpuStates
  <2>3. q \in PpuStates
    BY <1>8, <1>1, <1>2, <2>1, <2>2 DEF PpuStates, Modes, GoNext, Go, ScanSelectors
  <2>4. q.selector \in ScanSelectors
    BY <1>8, <1>1, <2>1 DEF PpuStates, GoNext, Go, ScanSelectors
  <2>5. ScanPlan(q)
    BY <1>8, <1>1, <2>1 DEF Planned, ScanPlan, PpuStates, Modes, GoNext, Go
  <2>6. Keeps(p, q)
    BY <1>8, <1>1, <2>1 DEF Planned, ScanPlan, Keeps, ModeOf, DrawnBy, PpuStates, Modes, GoNext, Go
  <2> QED BY <2>3, <2>4, <2>5, <2>6, PlanOfScan DEF FrameStep
<1>9. CASE p.selector = "after_turn_on_78"
  <2>1. q = [GoNext(p, "after_turn_on_79") EXCEPT !.mode = "PIXEL_TRANSFER"]
    BY <1>9 DEF ScanDot
  <2>2. p.dots + 1 \in 0 .. LineEnd - 1
    BY <1>9, <1>1 DEF Planned, ScanPlan, PpuStates
  <2>3. q \in PpuStates
    BY <1>9, <1>1, <1>2, <2>1, <2>2 DEF PpuStates, Modes, GoNext, Go, ScanSelectors
  <2>4. q.selector \in ScanSelectors
    BY <1>9, <1>1, <2>1 DEF PpuStates, GoNext, Go, ScanSelectors
  <2>5. ScanPlan(q)
    BY <1>9, <1>1, <2>1 DEF Planned, ScanPlan, PpuStates, Modes, GoNext, Go
  <2>6. Draws(p, q)
    BY <1>9, <1>1, <2>1 DEF Planned, ScanPlan, Draws, ModeOf, DrawnBy, PpuStates, Modes, GoNext, Go
  <2> QED BY <2>3, <2>4, <2>5, <2>6, PlanOfScan DEF FrameStep
<1>10. CASE p.selector = "after_turn_on_79"
  <2>1. q = EnterPixelTransfer(p)
    BY <1>10 DEF ScanDot
  <2>2. Scan + 4 \in 0 .. LineEnd - 1
    BY <1>10, <1>1 DEF Planned, ScanPlan, PpuStates
  <2>3. q \in PpuStates
    BY <1>10, <1>1, <1>2, <2>1, <2>2 DEF PpuStates, Modes, GoNext, Go, ScanSelectors,
       EnterPixelTransfer
  <2>4. q.selector = "pixel_transfer"
    BY <1>10, <1>1, <2>1 DEF PpuStates, GoNext, Go, EnterPixelTransfer
  <2>5. TransferPlan(q)
    BY <1>10, <1>1, <2>1 DEF Planned, ScanPlan, TransferPlan, PpuStates, Modes, GoNext, Go,
       EnterPixelTransfer
  <2>6. Keeps(p, q)
    BY <1>10, <1>1, <2>1 DEF Planned, ScanPlan, Keeps, ModeOf, DrawnBy, PpuStates, Modes, GoNext,
       Go, EnterPixelTransfer
  <2> QED BY <2>3, <2>4, <2>5, <2>6, PlanOfTransfer DEF FrameStep
<1> QED BY <1>3, <1>4, <1>5, <1>6, <1>7, <1>8, <1>9, <1>10 DEF Planned, ScanPlan, ScanSelectors

(* Its transfer, which ends between its bounds. *)
LEMMA TransferStep ==
  ASSUME NEW p, Planned(p), NEW q \in PixelTransfer(p), p.selector = "pixel_transfer"
  PROVE  Planned(q) /\ FrameStep(p, q)
<1> USE ConstantBounds DEF Bounds
<1>1. p \in PpuStates
  BY DEF Planned
<1>2. {"pixel_transfer", "first_hblank"} \cup RowSelectors \cup LastRowSelectors \subseteq Selectors
  BY DEF Selectors, RowSelectors, LastRowSelectors
<1>3. CASE p.dots + 1 < Long /\ q = GoNext(p, "pixel_transfer")
  <2>1. q = GoNext(p, "pixel_transfer")
    BY <1>3 DEF PixelTransfer
  <2>2. p.dots + 1 \in 0 .. LineEnd - 1
    BY <1>3, <1>1 DEF Planned, TransferPlan, PpuStates
  <2>3. q \in PpuStates
    BY <1>3, <1>1, <1>2, <2>1, <2>2 DEF PpuStates, Modes, GoNext, Go, RowSelectors, LastRowSelectors
  <2>4. q.selector = "pixel_transfer"
    BY <1>3, <1>1, <2>1 DEF PpuStates, GoNext, Go
  <2>5. TransferPlan(q)
    BY <1>3, <1>1, <2>1 DEF Planned, TransferPlan, PpuStates, Modes, GoNext, Go
  <2>6. Keeps(p, q)
    BY <1>3, <1>1, <2>1 DEF Planned, TransferPlan, Keeps, ModeOf, DrawnBy, PpuStates, Modes,
       GoNext, Go
  <2> QED BY <2>3, <2>4, <2>5, <2>6, PlanOfTransfer DEF FrameStep
<1>4. CASE p.dots + 1 >= Short /\ q = EnterHBlank(p) /\ p.first
  <2>1. q = [GoNext(p, "first_hblank") EXCEPT !.delay = 0]
    BY <1>4 DEF PixelTransfer, EnterHBlank
  <2>2. p.dots + 1 \in 0 .. LineEnd - 1 /\ 0 \in 0 .. 2
    BY <1>4, <1>1 DEF Planned, TransferPlan, PpuStates
  <2>3. q \in PpuStates
    BY <1>4, <1>1, <1>2, <2>1, <2>2 DEF PpuStates, Modes, GoNext, Go, RowSelectors, LastRowSelectors
  <2>4. q.selector = "first_hblank"
    BY <1>4, <1>1, <2>1 DEF PpuStates, GoNext, Go
  <2>5. FirstPlan(q)
    BY <1>4, <1>1, <2>1 DEF Planned, TransferPlan, FirstPlan, PpuStates, Modes, GoNext, Go
  <2>6. Keeps(p, q)
    BY <1>4, <1>1, <2>1 DEF Planned, TransferPlan, Keeps, ModeOf, DrawnBy, PpuStates, Modes,
       GoNext, Go
  <2> QED BY <2>3, <2>4, <2>5, <2>6, PlanOfFirst DEF FrameStep
<1>5. CASE p.dots + 1 >= Short /\ q = EnterHBlank(p) /\ ~p.first /\ p.line = Rows - 1
  <2>1. q = [GoNext(p, "last_hblank") EXCEPT !.mode = "HBLANK", !.oam = FALSE, !.vram = FALSE]
    BY <1>5 DEF PixelTransfer, EnterHBlank
  <2>2. p.dots + 1 \in 0 .. LineEnd - 1
    BY <1>5, <1>1 DEF Planned, TransferPlan, PpuStates
  <2>3. q \in PpuStates
    BY <1>5, <1>1, <1>2, <2>1, <2>2 DEF PpuStates, Modes, GoNext, Go, RowSelectors, LastRowSelectors
  <2>4. q.selector \in LastRowSelectors
    BY <1>5, <1>1, <2>1 DEF PpuStates, GoNext, Go, LastRowSelectors
  <2>5. LastHBlankPlan(q)
    BY <1>5, <1>1, <2>1 DEF Planned, TransferPlan, LastHBlankPlan, PpuStates, Modes, GoNext, Go
  <2>6. LeavesRow(p, q)
    BY <1>5, <1>1, <2>1 DEF Planned, TransferPlan, LeavesRow, ModeOf, DrawnBy, PpuStates, Modes,
       GoNext, Go
  <2> QED BY <2>3, <2>4, <2>5, <2>6, PlanOfLastHBlank DEF FrameStep
<1>6. CASE p.dots + 1 >= Short /\ q = EnterHBlank(p) /\ ~p.first /\ p.line # Rows - 1
  <2>1. q = [GoNext(p, "hblank") EXCEPT !.mode = "HBLANK", !.oam = FALSE, !.vram = FALSE]
    BY <1>6 DEF PixelTransfer, EnterHBlank
  <2>2. p.dots + 1 \in 0 .. LineEnd - 1
    BY <1>6, <1>1 DEF Planned, TransferPlan, PpuStates
  <2>3. q \in PpuStates
    BY <1>6, <1>1, <1>2, <2>1, <2>2 DEF PpuStates, Modes, GoNext, Go, RowSelectors, LastRowSelectors
  <2>4. q.selector \in RowSelectors
    BY <1>6, <1>1, <2>1 DEF PpuStates, GoNext, Go, RowSelectors
  <2>5. HBlankPlan(q)
    BY <1>6, <1>1, <2>1 DEF Planned, TransferPlan, HBlankPlan, PpuStates, Modes, GoNext, Go
  <2>6. LeavesRow(p, q)
    BY <1>6, <1>1, <2>1 DEF Planned, TransferPlan, LeavesRow, ModeOf, DrawnBy, PpuStates, Modes,
       GoNext, Go
  <2> QED BY <2>3, <2>4, <2>5, <2>6, PlanOfHBlank DEF FrameStep
<1> QED BY <1>1, <1>3, <1>4, <1>5, <1>6 DEF Planned, TransferPlan, PixelTransfer, PpuStates

(* The two dots the first line waits for its blank. *)
LEMMA FirstStep ==
  ASSUME NEW p, Planned(p), NEW q \in HBlankDot(p), p.selector = "first_hblank"
  PROVE  Planned(q) /\ FrameStep(p, q)
<1> USE ConstantBounds DEF Bounds
<1>1. p \in PpuStates
  BY DEF Planned
<1>2. RowSelectors \subseteq Selectors
  BY DEF Selectors, RowSelectors
<1>3. CASE p.delay = 0
  <2>1. q = [p EXCEPT !.dots = @ + 1, !.delay = @ + 1, !.oam = FALSE, !.vram = FALSE]
    BY <1>3 DEF HBlankDot, FirstHBlank
  <2>2. p.dots + 1 \in 0 .. LineEnd - 1 /\ p.delay + 1 \in 0 .. 2
    BY <1>3, <1>1 DEF Planned, FirstPlan, PpuStates
  <2>3. q \in PpuStates
    BY <1>3, <1>1, <1>2, <2>1, <2>2 DEF PpuStates, Modes, GoNext, Go, RowSelectors
  <2>4. q.selector = "first_hblank"
    BY <1>3, <1>1, <2>1 DEF PpuStates, GoNext, Go
  <2>5. FirstPlan(q)
    BY <1>3, <1>1, <2>1 DEF Planned, FirstPlan, PpuStates, Modes, GoNext, Go
  <2>6. Keeps(p, q)
    BY <1>3, <1>1, <2>1 DEF Planned, FirstPlan, Keeps, ModeOf, DrawnBy, PpuStates, Modes, GoNext, Go
  <2> QED BY <2>3, <2>4, <2>5, <2>6, PlanOfFirst DEF FrameStep
<1>4. CASE p.delay = 1
  <2>1. q = [p EXCEPT !.dots = @ + 1, !.delay = @ + 1, !.mode = "HBLANK", !.selector = "hblank", !.first = FALSE]
    BY <1>4 DEF HBlankDot, FirstHBlank
  <2>2. p.dots + 1 \in 0 .. LineEnd - 1 /\ p.delay + 1 \in 0 .. 2
    BY <1>4, <1>1 DEF Planned, FirstPlan, PpuStates
  <2>3. q \in PpuStates
    BY <1>4, <1>1, <1>2, <2>1, <2>2 DEF PpuStates, Modes, GoNext, Go, RowSelectors
  <2>4. q.selector \in RowSelectors
    BY <1>4, <1>1, <2>1 DEF PpuStates, GoNext, Go, RowSelectors
  <2>5. HBlankPlan(q)
    BY <1>4, <1>1, <2>1 DEF Planned, FirstPlan, HBlankPlan, PpuStates, Modes, GoNext, Go
  <2>6. LeavesRow(p, q)
    BY <1>4, <1>1, <2>1 DEF Planned, FirstPlan, LeavesRow, ModeOf, DrawnBy, PpuStates, Modes,
       GoNext, Go
  <2> QED BY <2>3, <2>4, <2>5, <2>6, PlanOfHBlank DEF FrameStep
<1> QED BY <1>3, <1>4 DEF Planned, FirstPlan

(* The blank after a row, and the line it ends with. *)
LEMMA RowStep ==
  ASSUME NEW p, Planned(p), NEW q \in HBlankDot(p), p.selector \in RowSelectors
  PROVE  Planned(q) /\ FrameStep(p, q)
<1> USE ConstantBounds DEF Bounds
<1>1. p \in PpuStates
  BY DEF Planned
<1>2. ScanSelectors \cup RowSelectors \subseteq Selectors
  BY DEF Selectors, ScanSelectors, RowSelectors
<1>3. CASE p.selector = "hblank"
  <2>1. q = [Until(p, Sync, "hblank_452") EXCEPT !.oam = @ \/ p.dots + 1 = Sync]
    BY <1>3 DEF HBlankDot
  <2>2. p.dots + 1 \in 0 .. LineEnd - 1
    BY <1>3, <1>1 DEF Planned, HBlankPlan, PpuStates
  <2>3. q \in PpuStates
    BY <1>3, <1>1, <1>2, <2>1, <2>2 DEF PpuStates, Modes, GoNext, Go, ScanSelectors, RowSelectors,
       Until
  <2>4. q.selector \in RowSelectors
    BY <1>3, <1>1, <2>1 DEF PpuStates, GoNext, Go, RowSelectors, Until
  <2>5. HBlankPlan(q)
    BY <1>3, <1>1, <2>1 DEF Planned, HBlankPlan, PpuStates, Modes, GoNext, Go, Until
  <2>6. Keeps(p, q)
    BY <1>3, <1>1, <2>1 DEF Planned, HBlankPlan, Keeps, ModeOf, DrawnBy, PpuStates, Modes, GoNext,
       Go, Until
  <2> QED BY <2>3, <2>4, <2>5, <2>6, PlanOfHBlank DEF FrameStep
<1>4. CASE p.selector = "hblank_452"
  <2>1. PICK g \in 0 .. Lines - 1 : q = [GoNext(p, "hblank_453") EXCEPT !.ly = g]
    BY <1>4 DEF HBlankDot, Garbled
  <2>2. p.dots + 1 \in 0 .. LineEnd - 1
    BY <1>4, <1>1 DEF Planned, HBlankPlan, PpuStates
  <2>3. q \in PpuStates
    BY <1>4, <1>1, <1>2, <2>1, <2>2 DEF PpuStates, Modes, GoNext, Go, ScanSelectors, RowSelectors
  <2>4. q.selector \in RowSelectors
    BY <1>4, <1>1, <2>1 DEF PpuStates, GoNext, Go, RowSelectors
  <2>5. HBlankPlan(q)
    BY <1>4, <1>1, <2>1 DEF Planned, HBlankPlan, PpuStates, Modes, GoNext, Go
  <2>6. Keeps(p, q)
    BY <1>4, <1>1, <2>1 DEF Planned, HBlankPlan, Keeps, ModeOf, DrawnBy, PpuStates, Modes, GoNext,
       Go
  <2> QED BY <2>3, <2>4, <2>5, <2>6, PlanOfHBlank DEF FrameStep
<1>5. CASE p.selector = "hblank_453"
  <2>1. q = Increased(p, "hblank_454")
    BY <1>5 DEF HBlankDot
  <2>2. p.dots + 1 \in 0 .. LineEnd - 1
    BY <1>5, <1>1 DEF Planned, HBlankPlan, PpuStates
  <2>3. p.line + 1 \in 0 .. Lines - 1 /\ (p.line + 1) % Lines = p.line + 1
    BY <1>5, <1>1, LinesOfFrame DEF Planned, HBlankPlan, PpuStates
  <2>4. q \in PpuStates
    BY <1>5, <1>1, <1>2, <2>1, <2>2, <2>3 DEF PpuStates, Modes, GoNext, Go, ScanSelectors,
       RowSelectors, Increased
  <2>5. q.selector \in RowSelectors
    BY <1>5, <1>1, <2>1 DEF PpuStates, GoNext, Go, RowSelectors, Increased
  <2>6. HBlankPlan(q)
    BY <1>5, <1>1, <2>1, <2>3 DEF Planned, HBlankPlan, PpuStates, Modes, GoNext, Go, Increased
  <2>7. TakesLine(p, q)
    BY <1>5, <1>1, <2>1, <2>3 DEF Planned, HBlankPlan, TakesLine, ModeOf, DrawnBy, PpuStates,
       Modes, GoNext, Go, Increased
  <2> QED BY <2>4, <2>5, <2>6, <2>7, PlanOfHBlank DEF FrameStep
<1>6. CASE p.selector = "hblank_454"
  <2>1. q = [GoNext(p, "hblank_455") EXCEPT !.lyc_irq = TRUE, !.mode = "OAM_SCAN"]
    BY <1>6 DEF HBlankDot
  <2>2. p.dots + 1 \in 0 .. LineEnd - 1
    BY <1>6, <1>1 DEF Planned, HBlankPlan, PpuStates
  <2>3. q \in PpuStates
    BY <1>6, <1>1, <1>2, <2>1, <2>2 DEF PpuStates, Modes, GoNext, Go, ScanSelectors, RowSelectors
  <2>4. q.selector \in RowSelectors
    BY <1>6, <1>1, <2>1 DEF PpuStates, GoNext, Go, RowSelectors
  <2>5. HBlankPlan(q)
    BY <1>6, <1>1, <2>1 DEF Planned, HBlankPlan, PpuStates, Modes, GoNext, Go
  <2>6. ScansRow(p, q)
    BY <1>6, <1>1, <2>1 DEF Planned, HBlankPlan, ScansRow, ModeOf, DrawnBy, PpuStates, Modes,
       GoNext, Go
  <2> QED BY <2>3, <2>4, <2>5, <2>6, PlanOfHBlank DEF FrameStep
<1>7. CASE p.selector = "hblank_455"
  <2>1. q = Go(p, "oam_scan", 0)
    BY <1>7 DEF HBlankDot
  <2>2. 0 \in 0 .. LineEnd - 1
    BY <1>7, <1>1 DEF Planned, HBlankPlan, PpuStates
  <2>3. q \in PpuStates
    BY <1>7, <1>1, <1>2, <2>1, <2>2 DEF PpuStates, Modes, GoNext, Go, ScanSelectors, RowSelectors
  <2>4. q.selector \in ScanSelectors
    BY <1>7, <1>1, <2>1 DEF PpuStates, GoNext, Go, ScanSelectors
  <2>5. ScanPlan(q)
    BY <1>7, <1>1, <2>1 DEF Planned, HBlankPlan, ScanPlan, PpuStates, Modes, GoNext, Go
  <2>6. Keeps(p, q)
    BY <1>7, <1>1, <2>1 DEF Planned, HBlankPlan, Keeps, ModeOf, DrawnBy, PpuStates, Modes, GoNext,
       Go
  <2> QED BY <2>3, <2>4, <2>5, <2>6, PlanOfScan DEF FrameStep
<1> QED BY <1>3, <1>4, <1>5, <1>6, <1>7 DEF Planned, HBlankPlan, RowSelectors

(* The blank after the last row. *)
LEMMA LastRowStep ==
  ASSUME NEW p, Planned(p), NEW q \in HBlankDot(p), p.selector \in LastRowSelectors
  PROVE  Planned(q) /\ FrameStep(p, q)
<1> USE ConstantBounds DEF Bounds
<1>1. p \in PpuStates
  BY DEF Planned
<1>2. LastRowSelectors \cup BlankSelectors \subseteq Selectors
  BY DEF Selectors, LastRowSelectors, BlankSelectors
<1>3. CASE p.selector = "last_hblank" /\ p.dots + 1 # Sync + 1
  <2>1. q = GoNext(p, "last_hblank")
    BY <1>3 DEF HBlankDot
  <2>2. p.dots + 1 \in 0 .. LineEnd - 1
    BY <1>3, <1>1 DEF Planned, LastHBlankPlan, PpuStates
  <2>3. q \in PpuStates
    BY <1>3, <1>1, <1>2, <2>1, <2>2 DEF PpuStates, Modes, GoNext, Go, LastRowSelectors,
       BlankSelectors
  <2>4. q.selector \in LastRowSelectors
    BY <1>3, <1>1, <2>1 DEF PpuStates, GoNext, Go, LastRowSelectors
  <2>5. LastHBlankPlan(q)
    BY <1>3, <1>1, <2>1 DEF Planned, LastHBlankPlan, PpuStates, Modes, GoNext, Go
  <2>6. Keeps(p, q)
    BY <1>3, <1>1, <2>1 DEF Planned, LastHBlankPlan, Keeps, ModeOf, DrawnBy, PpuStates, Modes,
       GoNext, Go
  <2> QED BY <2>3, <2>4, <2>5, <2>6, PlanOfLastHBlank DEF FrameStep
<1>4. CASE p.selector = "last_hblank" /\ p.dots + 1 = Sync + 1
  <2>1. PICK g \in 0 .. Lines - 1 : q = [GoNext(p, "last_hblank_453") EXCEPT !.ly = g]
    BY <1>4 DEF HBlankDot, Garbled
  <2>2. p.dots + 1 \in 0 .. LineEnd - 1
    BY <1>4, <1>1 DEF Planned, LastHBlankPlan, PpuStates
  <2>3. q \in PpuStates
    BY <1>4, <1>1, <1>2, <2>1, <2>2 DEF PpuStates, Modes, GoNext, Go, LastRowSelectors,
       BlankSelectors
  <2>4. q.selector \in LastRowSelectors
    BY <1>4, <1>1, <2>1 DEF PpuStates, GoNext, Go, LastRowSelectors
  <2>5. LastHBlankPlan(q)
    BY <1>4, <1>1, <2>1 DEF Planned, LastHBlankPlan, PpuStates, Modes, GoNext, Go
  <2>6. Keeps(p, q)
    BY <1>4, <1>1, <2>1 DEF Planned, LastHBlankPlan, Keeps, ModeOf, DrawnBy, PpuStates, Modes,
       GoNext, Go
  <2> QED BY <2>3, <2>4, <2>5, <2>6, PlanOfLastHBlank DEF FrameStep
<1>5. CASE p.selector = "last_hblank_453"
  <2>1. q = Increased(p, "last_hblank_454")
    BY <1>5 DEF HBlankDot
  <2>2. p.dots + 1 \in 0 .. LineEnd - 1
    BY <1>5, <1>1 DEF Planned, LastHBlankPlan, PpuStates
  <2>3. p.line + 1 \in 0 .. Lines - 1 /\ (p.line + 1) % Lines = p.line + 1
    BY <1>5, <1>1, LinesOfFrame DEF Planned, LastHBlankPlan, PpuStates
  <2>4. q \in PpuStates
    BY <1>5, <1>1, <1>2, <2>1, <2>2, <2>3 DEF PpuStates, Modes, GoNext, Go, LastRowSelectors,
       BlankSelectors, Increased
  <2>5. q.selector \in LastRowSelectors
    BY <1>5, <1>1, <2>1 DEF PpuStates, GoNext, Go, LastRowSelectors, Increased
  <2>6. LastHBlankPlan(q)
    BY <1>5, <1>1, <2>1, <2>3 DEF Planned, LastHBlankPlan, PpuStates, Modes, GoNext, Go, Increased
  <2>7. TakesLine(p, q)
    BY <1>5, <1>1, <2>1, <2>3 DEF Planned, LastHBlankPlan, TakesLine, ModeOf, DrawnBy, PpuStates,
       Modes, GoNext, Go, Increased
  <2> QED BY <2>4, <2>5, <2>6, <2>7, PlanOfLastHBlank DEF FrameStep
<1>6. CASE p.selector = "last_hblank_454"
  <2>1. q = [GoNext(p, "last_hblank_455") EXCEPT !.lyc_irq = TRUE]
    BY <1>6 DEF HBlankDot
  <2>2. p.dots + 1 \in 0 .. LineEnd - 1
    BY <1>6, <1>1 DEF Planned, LastHBlankPlan, PpuStates
  <2>3. q \in PpuStates
    BY <1>6, <1>1, <1>2, <2>1, <2>2 DEF PpuStates, Modes, GoNext, Go, LastRowSelectors,
       BlankSelectors
  <2>4. q.selector \in LastRowSelectors
    BY <1>6, <1>1, <2>1 DEF PpuStates, GoNext, Go, LastRowSelectors
  <2>5. LastHBlankPlan(q)
    BY <1>6, <1>1, <2>1 DEF Planned, LastHBlankPlan, PpuStates, Modes, GoNext, Go
  <2>6. Keeps(p, q)
    BY <1>6, <1>1, <2>1 DEF Planned, LastHBlankPlan, Keeps, ModeOf, DrawnBy, PpuStates, Modes,
       GoNext, Go
  <2> QED BY <2>3, <2>4, <2>5, <2>6, PlanOfLastHBlank DEF FrameStep
<1>7. CASE p.selector = "last_hblank_455"
  <2>1. q = [Go(p, "vblank", 0) EXCEPT !.mode = "VBLANK"]
    BY <1>7 DEF HBlankDot
  <2>2. 0 \in 0 .. LineEnd - 1
    BY <1>7, <1>1 DEF Planned, LastHBlankPlan, PpuStates
  <2>3. q \in PpuStates
    BY <1>7, <1>1, <1>2, <2>1, <2>2 DEF PpuStates, Modes, GoNext, Go, LastRowSelectors,
       BlankSelectors
  <2>4. q.selector \in BlankSelectors
    BY <1>7, <1>1, <2>1 DEF PpuStates, GoNext, Go, BlankSelectors
  <2>5. VBlankPlan(q)
    BY <1>7, <1>1, <2>1 DEF Planned, LastHBlankPlan, VBlankPlan, PpuStates, Modes, GoNext, Go
  <2>6. Blanks(p, q)
    BY <1>7, <1>1, <2>1 DEF Planned, LastHBlankPlan, Blanks, ModeOf, DrawnBy, PpuStates, Modes,
       GoNext, Go
  <2> QED BY <2>3, <2>4, <2>5, <2>6, PlanOfVBlank DEF FrameStep
<1> QED BY <1>3, <1>4, <1>5, <1>6, <1>7 DEF Planned, LastHBlankPlan, LastRowSelectors

(* The vertical blank. *)
LEMMA BlankStep ==
  ASSUME NEW p, Planned(p), NEW q \in VBlankDot(p), p.selector \in BlankSelectors
  PROVE  Planned(q) /\ FrameStep(p, q)
<1> USE ConstantBounds DEF Bounds
<1>1. p \in PpuStates
  BY DEF Planned
<1>2. BlankSelectors \cup LastLineSelectors \subseteq Selectors
  BY DEF Selectors, BlankSelectors, LastLineSelectors
<1>3. CASE p.selector = "vblank" /\ p.dots + 1 # Sync + 1
  <2>1. q = GoNext(p, "vblank")
    BY <1>3 DEF VBlankDot
  <2>2. p.dots + 1 \in 0 .. LineEnd - 1
    BY <1>3, <1>1 DEF Planned, VBlankPlan, PpuStates
  <2>3. q \in PpuStates
    BY <1>3, <1>1, <1>2, <2>1, <2>2 DEF PpuStates, Modes, GoNext, Go, BlankSelectors,
       LastLineSelectors
  <2>4. q.selector \in BlankSelectors
    BY <1>3, <1>1, <2>1 DEF PpuStates, GoNext, Go, BlankSelectors
  <2>5. VBlankPlan(q)
    BY <1>3, <1>1, <2>1 DEF Planned, VBlankPlan, PpuStates, Modes, GoNext, Go
  <2>6. Keeps(p, q)
    BY <1>3, <1>1, <2>1 DEF Planned, VBlankPlan, Keeps, ModeOf, DrawnBy, PpuStates, Modes, GoNext,
       Go
  <2> QED BY <2>3, <2>4, <2>5, <2>6, PlanOfVBlank DEF FrameStep
<1>4. CASE p.selector = "vblank" /\ p.dots + 1 = Sync + 1
  <2>1. PICK g \in 0 .. Lines - 1 : q = [GoNext(p, "vblank_453") EXCEPT !.ly = g]
    BY <1>4 DEF VBlankDot, Garbled
  <2>2. p.dots + 1 \in 0 .. LineEnd - 1
    BY <1>4, <1>1 DEF Planned, VBlankPlan, PpuStates
  <2>3. q \in PpuStates
    BY <1>4, <1>1, <1>2, <2>1, <2>2 DEF PpuStates, Modes, GoNext, Go, BlankSelectors,
       LastLineSelectors
  <2>4. q.selector \in BlankSelectors
    BY <1>4, <1>1, <2>1 DEF PpuStates, GoNext, Go, BlankSelectors
  <2>5. VBlankPlan(q)
    BY <1>4, <1>1, <2>1 DEF Planned, VBlankPlan, PpuStates, Modes, GoNext, Go
  <2>6. Keeps(p, q)
    BY <1>4, <1>1, <2>1 DEF Planned, VBlankPlan, Keeps, ModeOf, DrawnBy, PpuStates, Modes, GoNext,
       Go
  <2> QED BY <2>3, <2>4, <2>5, <2>6, PlanOfVBlank DEF FrameStep
<1>5. CASE p.selector = "vblank_453"
  <2>1. q = Increased(p, "vblank_454")
    BY <1>5 DEF VBlankDot
  <2>2. p.dots + 1 \in 0 .. LineEnd - 1
    BY <1>5, <1>1 DEF Planned, VBlankPlan, PpuStates
  <2>3. p.line + 1 \in 0 .. Lines - 1 /\ (p.line + 1) % Lines = p.line + 1
    BY <1>5, <1>1, LinesOfFrame DEF Planned, VBlankPlan, PpuStates
  <2>4. q \in PpuStates
    BY <1>5, <1>1, <1>2, <2>1, <2>2, <2>3 DEF PpuStates, Modes, GoNext, Go, BlankSelectors,
       LastLineSelectors, Increased
  <2>5. q.selector \in BlankSelectors
    BY <1>5, <1>1, <2>1 DEF PpuStates, GoNext, Go, BlankSelectors, Increased
  <2>6. VBlankPlan(q)
    BY <1>5, <1>1, <2>1, <2>3 DEF Planned, VBlankPlan, PpuStates, Modes, GoNext, Go, Increased
  <2>7. TakesLine(p, q)
    BY <1>5, <1>1, <2>1, <2>3 DEF Planned, VBlankPlan, TakesLine, ModeOf, DrawnBy, PpuStates,
       Modes, GoNext, Go, Increased
  <2> QED BY <2>4, <2>5, <2>6, <2>7, PlanOfVBlank DEF FrameStep
<1>6. CASE p.selector = "vblank_454"
  <2>1. q = [GoNext(p, "vblank_455") EXCEPT !.lyc_irq = TRUE]
    BY <1>6 DEF VBlankDot
  <2>2. p.dots + 1 \in 0 .. LineEnd - 1
    BY <1>6, <1>1 DEF Planned, VBlankPlan, PpuStates
  <2>3. q \in PpuStates
    BY <1>6, <1>1, <1>2, <2>1, <2>2 DEF PpuStates, Modes, GoNext, Go, BlankSelectors,
       LastLineSelectors
  <2>4. q.selector \in BlankSelectors
    BY <1>6, <1>1, <2>1 DEF PpuStates, GoNext, Go, BlankSelectors
  <2>5. VBlankPlan(q)
    BY <1>6, <1>1, <2>1 DEF Planned, VBlankPlan, PpuStates, Modes, GoNext, Go
  <2>6. Keeps(p, q)
    BY <1>6, <1>1, <2>1 DEF Planned, VBlankPlan, Keeps, ModeOf, DrawnBy, PpuStates, Modes, GoNext,
       Go
  <2> QED BY <2>3, <2>4, <2>5, <2>6, PlanOfVBlank DEF FrameStep
<1>7. CASE p.selector = "vblank_455" /\ p.ly # Lines - 1
  <2>1. q = Go(p, "vblank", 0)
    BY <1>7 DEF VBlankDot
  <2>2. 0 \in 0 .. LineEnd - 1
    BY <1>7, <1>1 DEF Planned, VBlankPlan, PpuStates
  <2>3. q \in PpuStates
    BY <1>7, <1>1, <1>2, <2>1, <2>2 DEF PpuStates, Modes, GoNext, Go, BlankSelectors,
       LastLineSelectors
  <2>4. q.selector \in BlankSelectors
    BY <1>7, <1>1, <2>1 DEF PpuStates, GoNext, Go, BlankSelectors
  <2>5. VBlankPlan(q)
    BY <1>7, <1>1, <2>1 DEF Planned, VBlankPlan, PpuStates, Modes, GoNext, Go
  <2>6. Keeps(p, q)
    BY <1>7, <1>1, <2>1 DEF Planned, VBlankPlan, Keeps, ModeOf, DrawnBy, PpuStates, Modes, GoNext,
       Go
  <2> QED BY <2>3, <2>4, <2>5, <2>6, PlanOfVBlank DEF FrameStep
<1>8. CASE p.selector = "vblank_455" /\ p.ly = Lines - 1
  <2>1. q = Go(p, "last_line", 0)
    BY <1>8 DEF VBlankDot
  <2>2. 0 \in 0 .. LineEnd - 1
    BY <1>8, <1>1 DEF Planned, VBlankPlan, PpuStates
  <2>3. q \in PpuStates
    BY <1>8, <1>1, <1>2, <2>1, <2>2 DEF PpuStates, Modes, GoNext, Go, BlankSelectors,
       LastLineSelectors
  <2>4. q.selector \in LastLineSelectors
    BY <1>8, <1>1, <2>1 DEF PpuStates, GoNext, Go, LastLineSelectors
  <2>5. LastLinePlan(q)
    BY <1>8, <1>1, <2>1 DEF Planned, VBlankPlan, LastLinePlan, PpuStates, Modes, GoNext, Go,
       LastLineSelectors
  <2>6. Keeps(p, q)
    BY <1>8, <1>1, <2>1 DEF Planned, VBlankPlan, Keeps, ModeOf, DrawnBy, PpuStates, Modes, GoNext,
       Go
  <2> QED BY <2>3, <2>4, <2>5, <2>6, PlanOfLastLine DEF FrameStep
<1> QED BY <1>3, <1>4, <1>5, <1>6, <1>7, <1>8 DEF Planned, VBlankPlan, BlankSelectors

(* The last line, most of which LY shows as line 0. *)
LEMMA LastLineStep ==
  ASSUME NEW p, Planned(p), NEW q \in VBlankDot(p), p.selector \in LastLineSelectors
  PROVE  Planned(q) /\ FrameStep(p, q)
<1> USE ConstantBounds DEF Bounds
<1>1. p \in PpuStates
  BY DEF Planned
<1>2. ScanSelectors \cup LastLineSelectors \subseteq Selectors
  BY DEF Selectors, ScanSelectors, LastLineSelectors
<1>3. CASE p.selector = "last_line"
  <2>1. q = Until(p, 2, "last_line_2")
    BY <1>3 DEF VBlankDot
  <2>2. p.dots + 1 \in 0 .. LineEnd - 1
    BY <1>3, <1>1 DEF Planned, LastLinePlan, PpuStates
  <2>3. q \in PpuStates
    BY <1>3, <1>1, <1>2, <2>1, <2>2 DEF PpuStates, Modes, GoNext, Go, ScanSelectors,
       LastLineSelectors, Until
  <2>4. q.selector \in LastLineSelectors
    BY <1>3, <1>1, <2>1 DEF PpuStates, GoNext, Go, LastLineSelectors, Until
  <2>5. LastLinePlan(q)
    BY <1>3, <1>1, <2>1 DEF Planned, LastLinePlan, PpuStates, Modes, GoNext, Go, Until,
       LastLineSelectors
  <2>6. Keeps(p, q)
    BY <1>3, <1>1, <2>1 DEF Planned, LastLinePlan, Keeps, ModeOf, DrawnBy, PpuStates, Modes,
       GoNext, Go, Until
  <2> QED BY <2>3, <2>4, <2>5, <2>6, PlanOfLastLine DEF FrameStep
<1>4. CASE p.selector = "last_line_2"
  <2>1. q = [GoNext(p, "last_line_3") EXCEPT !.lyc_irq = FALSE]
    BY <1>4 DEF VBlankDot
  <2>2. p.dots + 1 \in 0 .. LineEnd - 1
    BY <1>4, <1>1 DEF Planned, LastLinePlan, PpuStates
  <2>3. q \in PpuStates
    BY <1>4, <1>1, <1>2, <2>1, <2>2 DEF PpuStates, Modes, GoNext, Go, ScanSelectors,
       LastLineSelectors
  <2>4. q.selector \in LastLineSelectors
    BY <1>4, <1>1, <2>1 DEF PpuStates, GoNext, Go, LastLineSelectors
  <2>5. LastLinePlan(q)
    BY <1>4, <1>1, <2>1 DEF Planned, LastLinePlan, PpuStates, Modes, GoNext, Go, LastLineSelectors
  <2>6. Keeps(p, q)
    BY <1>4, <1>1, <2>1 DEF Planned, LastLinePlan, Keeps, ModeOf, DrawnBy, PpuStates, Modes,
       GoNext, Go
  <2> QED BY <2>3, <2>4, <2>5, <2>6, PlanOfLastLine DEF FrameStep
<1>5. CASE p.selector = "last_line_3"
  <2>1. q = [GoNext(p, "last_line_4") EXCEPT !.ly = 0, !.line = 0]
    BY <1>5 DEF VBlankDot
  <2>2. p.dots + 1 \in 0 .. LineEnd - 1
    BY <1>5, <1>1 DEF Planned, LastLinePlan, PpuStates
  <2>3. 0 \in 0 .. Lines - 1 /\ (p.line + 1) % Lines = 0
    BY <1>5, <1>1, LinesOfFrame DEF Planned, LastLinePlan, PpuStates
  <2>4. q \in PpuStates
    BY <1>5, <1>1, <1>2, <2>1, <2>2, <2>3 DEF PpuStates, Modes, GoNext, Go, ScanSelectors,
       LastLineSelectors
  <2>5. q.selector \in LastLineSelectors
    BY <1>5, <1>1, <2>1 DEF PpuStates, GoNext, Go, LastLineSelectors
  <2>6. LastLinePlan(q)
    BY <1>5, <1>1, <2>1, <2>3 DEF Planned, LastLinePlan, PpuStates, Modes, GoNext, Go,
       LastLineSelectors
  <2>7. TakesLine(p, q)
    BY <1>5, <1>1, <2>1, <2>3 DEF Planned, LastLinePlan, TakesLine, ModeOf, DrawnBy, PpuStates,
       Modes, GoNext, Go
  <2> QED BY <2>4, <2>5, <2>6, <2>7, PlanOfLastLine DEF FrameStep
<1>6. CASE p.selector = "last_line_4" /\ p.dots + 1 = 7
  <2>1. q = [Until(p, 7, "last_line_7") EXCEPT !.lyc_irq = @ \/ p.dots + 1 = 7]
    BY <1>6 DEF VBlankDot
  <2>2. p.dots + 1 \in 0 .. LineEnd - 1
    BY <1>6, <1>1 DEF Planned, LastLinePlan, PpuStates
  <2>3. q.selector = "last_line_7" /\ q.dots = 7 /\ q.lyc_irq
    BY <1>6, <1>1, <2>1 DEF PpuStates, GoNext, Go, Until
  <2>4. q \in PpuStates
    BY <1>6, <1>1, <1>2, <2>1, <2>2 DEF PpuStates, Modes, GoNext, Go, ScanSelectors,
       LastLineSelectors, Until
  <2>5. q.selector \in LastLineSelectors
    BY <1>6, <1>1, <2>1 DEF PpuStates, GoNext, Go, LastLineSelectors, Until
  <2>6. LastLinePlan(q)
    BY <1>6, <1>1, <2>1, <2>3 DEF Planned, LastLinePlan, PpuStates, Modes, GoNext, Go, Until,
       LastLineSelectors
  <2>7. Keeps(p, q)
    BY <1>6, <1>1, <2>1 DEF Planned, LastLinePlan, Keeps, ModeOf, DrawnBy, PpuStates, Modes,
       GoNext, Go, Until
  <2> QED BY <2>4, <2>5, <2>6, <2>7, PlanOfLastLine DEF FrameStep
<1>7. CASE p.selector = "last_line_4" /\ p.dots + 1 # 7
  <2>1. q = [Until(p, 7, "last_line_7") EXCEPT !.lyc_irq = @ \/ p.dots + 1 = 7]
    BY <1>7 DEF VBlankDot
  <2>2. p.dots + 1 \in 0 .. LineEnd - 1
    BY <1>7, <1>1 DEF Planned, LastLinePlan, PpuStates
  <2>3. q \in PpuStates
    BY <1>7, <1>1, <1>2, <2>1, <2>2 DEF PpuStates, Modes, GoNext, Go, ScanSelectors,
       LastLineSelectors, Until
  <2>4. q.selector \in LastLineSelectors
    BY <1>7, <1>1, <2>1 DEF PpuStates, GoNext, Go, LastLineSelectors, Until
  <2>5. LastLinePlan(q)
    BY <1>7, <1>1, <2>1 DEF Planned, LastLinePlan, PpuStates, Modes, GoNext, Go, Until,
       LastLineSelectors
  <2>6. Keeps(p, q)
    BY <1>7, <1>1, <2>1 DEF Planned, LastLinePlan, Keeps, ModeOf, DrawnBy, PpuStates, Modes,
       GoNext, Go, Until
  <2> QED BY <2>3, <2>4, <2>5, <2>6, PlanOfLastLine DEF FrameStep
<1>8. CASE p.selector = "last_line_7"
  <2>1. q = Until(p, Sync + 1, "last_line_453")
    BY <1>8 DEF VBlankDot
  <2>2. p.dots + 1 \in 0 .. LineEnd - 1
    BY <1>8, <1>1 DEF Planned, LastLinePlan, PpuStates
  <2>3. q \in PpuStates
    BY <1>8, <1>1, <1>2, <2>1, <2>2 DEF PpuStates, Modes, GoNext, Go, ScanSelectors,
       LastLineSelectors, Until
  <2>4. q.selector \in LastLineSelectors
    BY <1>8, <1>1, <2>1 DEF PpuStates, GoNext, Go, LastLineSelectors, Until
  <2>5. LastLinePlan(q)
    BY <1>8, <1>1, <2>1 DEF Planned, LastLinePlan, PpuStates, Modes, GoNext, Go, Until,
       LastLineSelectors
  <2>6. Keeps(p, q)
    BY <1>8, <1>1, <2>1 DEF Planned, LastLinePlan, Keeps, ModeOf, DrawnBy, PpuStates, Modes,
       GoNext, Go, Until
  <2> QED BY <2>3, <2>4, <2>5, <2>6, PlanOfLastLine DEF FrameStep
<1>9. CASE p.selector = "last_line_453"
  <2>1. q = [GoNext(p, "last_line_454") EXCEPT !.oam = TRUE]
    BY <1>9 DEF VBlankDot
  <2>2. p.dots + 1 \in 0 .. LineEnd - 1
    BY <1>9, <1>1 DEF Planned, LastLinePlan, PpuStates
  <2>3. q \in PpuStates
    BY <1>9, <1>1, <1>2, <2>1, <2>2 DEF PpuStates, Modes, GoNext, Go, ScanSelectors,
       LastLineSelectors
  <2>4. q.selector \in LastLineSelectors
    BY <1>9, <1>1, <2>1 DEF PpuStates, GoNext, Go, LastLineSelectors
  <2>5. LastLinePlan(q)
    BY <1>9, <1>1, <2>1 DEF Planned, LastLinePlan, PpuStates, Modes, GoNext, Go, LastLineSelectors
  <2>6. Keeps(p, q)
    BY <1>9, <1>1, <2>1 DEF Planned, LastLinePlan, Keeps, ModeOf, DrawnBy, PpuStates, Modes,
       GoNext, Go
  <2> QED BY <2>3, <2>4, <2>5, <2>6, PlanOfLastLine DEF FrameStep
<1>10. CASE p.selector = "last_line_454"
  <2>1. q = GoNext(p, "last_line_455")
    BY <1>10 DEF VBlankDot
  <2>2. p.dots + 1 \in 0 .. LineEnd - 1
    BY <1>10, <1>1 DEF Planned, LastLinePlan, PpuStates
  <2>3. q \in PpuStates
    BY <1>10, <1>1, <1>2, <2>1, <2>2 DEF PpuStates, Modes, GoNext, Go, ScanSelectors,
       LastLineSelectors
  <2>4. q.selector \in LastLineSelectors
    BY <1>10, <1>1, <2>1 DEF PpuStates, GoNext, Go, LastLineSelectors
  <2>5. LastLinePlan(q)
    BY <1>10, <1>1, <2>1 DEF Planned, LastLinePlan, PpuStates, Modes, GoNext, Go, LastLineSelectors
  <2>6. Keeps(p, q)
    BY <1>10, <1>1, <2>1 DEF Planned, LastLinePlan, Keeps, ModeOf, DrawnBy, PpuStates, Modes,
       GoNext, Go
  <2> QED BY <2>3, <2>4, <2>5, <2>6, PlanOfLastLine DEF FrameStep
<1>11. CASE p.selector = "last_line_455"
  <2>1. q = [Go(p, "oam_scan", 0) EXCEPT !.mode = "OAM_SCAN"]
    BY <1>11 DEF VBlankDot
  <2>2. 0 \in 0 .. LineEnd - 1
    BY <1>11, <1>1 DEF Planned, LastLinePlan, PpuStates
  <2>3. q \in PpuStates
    BY <1>11, <1>1, <1>2, <2>1, <2>2 DEF PpuStates, Modes, GoNext, Go, ScanSelectors,
       LastLineSelectors
  <2>4. q.selector \in ScanSelectors
    BY <1>11, <1>1, <2>1 DEF PpuStates, GoNext, Go, ScanSelectors
  <2>5. ScanPlan(q)
    BY <1>11, <1>1, <2>1 DEF Planned, LastLinePlan, ScanPlan, PpuStates, Modes, GoNext, Go
  <2>6. Renews(p, q)
    BY <1>11, <1>1, <2>1 DEF Planned, LastLinePlan, Renews, ModeOf, DrawnBy, PpuStates, Modes,
       GoNext, Go
  <2> QED BY <2>3, <2>4, <2>5, <2>6, PlanOfScan DEF FrameStep
<1> QED BY <1>3, <1>4, <1>5, <1>6, <1>7, <1>8, <1>9, <1>10, <1>11 DEF Planned, LastLinePlan,
   LastLineSelectors

LEMMA DotStep ==
  ASSUME NEW p, Planned(p), NEW q \in DotOf(p) PROVE Planned(q) /\ FrameStep(p, q)
<1>1. CASE p.selector = "pixel_transfer"
  BY <1>1, TransferStep DEF DotOf, HBlankSelectors, VBlankSelectors
<1>2. CASE p.selector \in HBlankSelectors
  <2>1. q \in HBlankDot(p)
    BY <1>2 DEF DotOf, HBlankSelectors, VBlankSelectors
  <2>2. \/ p.selector = "first_hblank" \/ p.selector \in RowSelectors
        \/ p.selector \in LastRowSelectors
    BY <1>2 DEF HBlankSelectors, RowSelectors, LastRowSelectors
  <2> QED BY <2>1, <2>2, FirstStep, RowStep, LastRowStep
<1>3. CASE p.selector \in VBlankSelectors
  <2>1. q \in VBlankDot(p)
    BY <1>3 DEF DotOf, HBlankSelectors, VBlankSelectors
  <2>2. p.selector \in BlankSelectors \/ p.selector \in LastLineSelectors
    BY <1>3 DEF VBlankSelectors, BlankSelectors, LastLineSelectors
  <2> QED BY <2>1, <2>2, BlankStep, LastLineStep
<1>4. CASE p.selector \in ScanSelectors
  <2>1. q \in ScanDot(p)
    BY <1>4 DEF DotOf, HBlankSelectors, VBlankSelectors, ScanSelectors
  <2> QED BY <1>4, <2>1, ScanStep
<1>5. p.selector \in Selectors
  BY DEF Planned, PpuStates
<1> QED
  BY <1>1, <1>2, <1>3, <1>4, <1>5 DEF Selectors, HBlankSelectors, VBlankSelectors, ScanSelectors
-----------------------------------------------------------------------------
(* The invariant: the plan, LY's copy beside it, a PPU that is off waits   *)
(* for its first dot, STAT shows a transfer at once, and a write of LCDC   *)
(* is over two dots after it.                                              *)
OffWaits == ~lcdc.enable => ppu.selector = "after_turn_on" /\ ppu.dots = 0
TransferShown == ppu.mode = "PIXEL_TRANSFER" => stat_mode = "PIXEL_TRANSFER"
WriteEnds ==
  /\ pending_lcdc.countdown = 0 => lcdc.bits = pending_lcdc.bits
  /\ pending_lcdc.countdown = 0 \/ pending_lcdc.countdown + since_lcdc <= 2

PpuInv ==
  /\ PpuTypeOK /\ Planned(ppu) /\ last_ly = ppu.ly
  /\ OffWaits /\ TransferShown /\ WriteEnds

LEMMA PpuInitial == PpuInit => PpuInv
<1> SUFFICES ASSUME PpuInit PROVE PpuInv
  OBVIOUS
<1> USE ConstantBounds DEF Bounds, PpuInit
<1>1. ppu.selector = "vblank" /\ ppu.dots = Short /\ ppu.mode = "VBLANK" /\ ppu.ly = Rows /\ ppu.line = Rows
      /\ ppu.lyc_irq /\ ~ppu.oam /\ ~ppu.vram /\ ~ppu.first
  OBVIOUS
<1>2. ppu \in PpuStates
  <2>1. "vblank" \in Selectors
    BY DEF Selectors
  <2>2. Short \in 0 .. LineEnd - 1 /\ Rows \in 0 .. Lines - 1 /\ 0 \in 0 .. 2
    OBVIOUS
  <2> QED BY <2>1, <2>2 DEF PpuStates, Modes
<1>3. Planned(ppu)
  BY <1>1, <1>2, PlanOfVBlank DEF BlankSelectors, VBlankPlan
<1>4. PpuTypeOK
  <2>1. {} \in Enables
    BY PpuAssumption
  <2>2. lcdc \in [enable : BOOLEAN, bits : Settings]
    BY lcdc \in [enable : {TRUE}, bits : Settings]
  <2>5. pending_lcdc \in [countdown : 0 .. 2, bits : Settings]
    BY <2>2, 0 \in 0 .. 2
  <2>3. stat \in [enabled : Enables, lyc_eq_ly : BOOLEAN]
    BY <2>1
  <2>4. last_ly \in 0 .. Lines - 1 /\ since_lcdc \in 0 .. WriteDistance
    BY DEF WriteDistance
  <2> QED BY <1>2, <2>2, <2>3, <2>4, <2>5 DEF PpuTypeOK, PpuStates, Modes
<1> QED BY <1>1, <1>3, <1>4 DEF PpuInv, OffWaits, TransferShown, WriteEnds

(* A pending write is counted down whether the PPU is on or off.           *)
LEMMA WriteTicks ==
  ASSUME PpuInv, TickPendingWrite, Patience
  PROVE  /\ lcdc' \in [enable : BOOLEAN, bits : Settings] /\ lcdc'.enable = lcdc.enable
         /\ pending_lcdc' \in [countdown : 0 .. 2, bits : Settings]
         /\ since_lcdc' \in 0 .. WriteDistance
         /\ WriteEnds'
<1>1. /\ lcdc \in [enable : BOOLEAN, bits : Settings]
      /\ pending_lcdc \in [countdown : 0 .. 2, bits : Settings]
      /\ since_lcdc \in 0 .. WriteDistance
  BY DEF PpuInv, PpuTypeOK
<1>2. pending_lcdc' = [pending_lcdc EXCEPT !.countdown = IF @ > 0 THEN @ - 1 ELSE 0]
  BY DEF TickPendingWrite
<1>3. lcdc' = IF pending_lcdc.countdown = 1 THEN [lcdc EXCEPT !.bits = pending_lcdc.bits] ELSE lcdc
  BY DEF TickPendingWrite
<1>4. pending_lcdc' \in [countdown : 0 .. 2, bits : Settings]
  BY <1>1, <1>2
<1>5. lcdc' \in [enable : BOOLEAN, bits : Settings] /\ lcdc'.enable = lcdc.enable
  BY <1>1, <1>3
<1>6. since_lcdc' \in 0 .. WriteDistance
  BY <1>1 DEF Patience, WriteDistance
<1>7. WriteEnds'
  BY <1>1, <1>2, <1>3 DEF PpuInv, WriteEnds, Patience, WriteDistance
<1> QED BY <1>4, <1>5, <1>6, <1>7

LEMMA DotKeeps ==
  ASSUME PpuInv, NEW q \in DotOf(ppu), NEW dma \in BOOLEAN, Dot(q, dma)
  PROVE  PpuInv' /\ FrameStep(ppu, ppu')
<1>1. ppu' = q /\ lcdc.enable
  BY DEF Dot
<1>2. Planned(ppu') /\ FrameStep(ppu, ppu')
  BY <1>1, DotStep DEF PpuInv
<1>3. ppu' \in PpuStates /\ last_ly' = ppu'.ly
  BY <1>1, <1>2 DEF Planned, Dot
<1>4. /\ lcdc' \in [enable : BOOLEAN, bits : Settings] /\ lcdc'.enable = lcdc.enable
      /\ pending_lcdc' \in [countdown : 0 .. 2, bits : Settings]
      /\ since_lcdc' \in 0 .. WriteDistance
      /\ WriteEnds'
  BY WriteTicks DEF Dot
<1>5. stat_mode' \in Modes /\ TransferShown'
  <2>1. stat_mode \in Modes /\ ppu'.mode \in Modes
    BY <1>3 DEF PpuInv, PpuTypeOK, PpuStates
  <2> QED BY <1>1, <2>1 DEF Dot, TickStat, Shown, Modes, TransferShown
<1>6. stat' \in [enabled : Enables, lyc_eq_ly : BOOLEAN]
  <2>1. stat \in [enabled : Enables, lyc_eq_ly : BOOLEAN]
    BY DEF PpuInv, PpuTypeOK
  <2>2. IsLycEqLy(q) \in BOOLEAN
    BY <2>1 DEF IsLycEqLy
  <2> QED BY <2>1, <2>2 DEF Dot, RaiseStatIrq
<1>7. last_stat_irq' \in BOOLEAN /\ pending_stat_irq' \in BOOLEAN
  <2>1. last_stat_irq \in BOOLEAN
    BY DEF PpuInv, PpuTypeOK
  <2>2. LastAfterOam \in BOOLEAN /\ StatLine(q) \in BOOLEAN
    BY <2>1 DEF LastAfterOam, OamIrq, StatLine
  <2> QED BY <2>2 DEF Dot, RaiseStatIrq
<1>8. raised' \subseteq {"vblank", "stat", "new_frame"}
  BY DEF Dot
<1>9. double_speed' \in BOOLEAN /\ lyc' \in Lycs /\ last_lyc' \in Lycs
  BY DEF Dot, PpuInv, PpuTypeOK
<1>10. OffWaits'
  BY <1>1, <1>4 DEF OffWaits
<1>11. PpuTypeOK'
  BY <1>3, <1>4, <1>5, <1>6, <1>7, <1>8, <1>9 DEF PpuTypeOK, PpuStates
<1> QED BY <1>2, <1>3, <1>4, <1>5, <1>10, <1>11 DEF PpuInv

LEMMA TickOffKeeps ==
  ASSUME PpuInv, TickOff
  PROVE  PpuInv' /\ ppu' = ppu /\ lcdc'.enable = lcdc.enable
<1>1. /\ lcdc' \in [enable : BOOLEAN, bits : Settings] /\ lcdc'.enable = lcdc.enable
      /\ pending_lcdc' \in [countdown : 0 .. 2, bits : Settings]
      /\ since_lcdc' \in 0 .. WriteDistance
      /\ WriteEnds'
  BY WriteTicks DEF TickOff
<1>2. ppu' = ppu /\ ppu \in PpuStates /\ Planned(ppu)'
  BY DEF TickOff, PpuInv, Planned, PpuStates, ScanPlan, TransferPlan, FirstPlan, HBlankPlan, LastHBlankPlan, VBlankPlan, LastLinePlan
<1>3. stat_mode' \in Modes /\ TransferShown'
  BY <1>2 DEF TickOff, TickStat, Shown, PpuInv, PpuTypeOK, PpuStates, Modes, TransferShown
<1>4. PpuTypeOK'
  BY <1>1, <1>2, <1>3 DEF TickOff, irqVars, PpuInv, PpuTypeOK
<1>5. OffWaits' /\ last_ly' = ppu'.ly
  BY <1>1, <1>2 DEF TickOff, irqVars, PpuInv, OffWaits
<1> QED BY <1>1, <1>2, <1>3, <1>4, <1>5 DEF PpuInv

(* A write of LCDC: a PPU that is on waits for the scan of line 0 when it  *)
(* is turned off, whatever dot it was in.                                  *)
LEMMA WriteLcdcKeeps ==
  ASSUME PpuInv, NEW enable \in BOOLEAN, NEW bits \in Settings, WriteLcdc(enable, bits)
  PROVE  PpuInv'
<1>1. /\ ppu \in PpuStates /\ Planned(ppu) /\ last_ly = ppu.ly
      /\ lcdc \in [enable : BOOLEAN, bits : Settings]
      /\ pending_lcdc \in [countdown : 0 .. 2, bits : Settings]
      /\ stat \in [enabled : Enables, lyc_eq_ly : BOOLEAN] /\ lyc \in Lycs /\ last_lyc \in Lycs
  BY DEF PpuInv, PpuTypeOK, PpuStates
<1>2. /\ lcdc' = [lcdc EXCEPT !.enable = enable]
      /\ pending_lcdc' = [countdown |-> 2, bits |-> bits]
      /\ since_lcdc' = 0
  BY DEF WriteLcdc
<1>3. /\ lcdc' \in [enable : BOOLEAN, bits : Settings] /\ lcdc'.enable = enable
      /\ pending_lcdc' \in [countdown : 0 .. 2, bits : Settings]
      /\ since_lcdc' \in 0 .. WriteDistance /\ WriteEnds'
  BY <1>1, <1>2 DEF WriteEnds, WriteDistance
<1>4. /\ ppu' \in PpuStates /\ Planned(ppu') /\ last_ly' = ppu'.ly
      /\ stat' \in [enabled : Enables, lyc_eq_ly : BOOLEAN] /\ last_lyc' \in Lycs
      /\ OffWaits' /\ TransferShown'
  <2>1. CASE enable = lcdc.enable
    BY <1>1, <1>3, <2>1 DEF WriteLcdc, PpuInv, OffWaits, TransferShown
  <2>2. CASE ~enable /\ lcdc.enable
    <3>1. ppu' = TurnedOff(ppu) /\ last_ly' = 0 /\ stat' = stat /\ last_lyc' = last_lyc
      BY <1>1, <2>2 DEF WriteLcdc, TurnOff
    <3>2. ppu' \in PpuStates
      <4>1. "after_turn_on" \in Selectors /\ 0 \in 0 .. LineEnd - 1 /\ 0 \in 0 .. Lines - 1 /\ 0 \in 0 .. 2
        BY ConstantBounds DEF Selectors, Bounds
      <4> QED BY <1>1, <3>1, <4>1 DEF TurnedOff, PpuStates, Modes
    <3>3. ppu'.selector = "after_turn_on" /\ ppu'.mode = "OAM_SCAN" /\ ppu'.dots = 0 /\ ppu'.ly = 0
      BY <1>1, <3>1 DEF TurnedOff, PpuStates
    <3>4. ppu'.line = 0 /\ ppu'.lyc_irq /\ ppu'.first /\ ppu'.delay = 0 /\ ~ppu'.oam /\ ~ppu'.vram
      BY <1>1, <3>1 DEF TurnedOff, PpuStates
    <3>5. ScanPlan(ppu') /\ ppu'.selector \in ScanSelectors
      BY <3>3, <3>4, ConstantBounds DEF Bounds, ScanPlan, ScanSelectors
    <3> QED BY <1>1, <3>1, <3>2, <3>3, <3>5, PlanOfScan DEF OffWaits, TransferShown
  <2>3. CASE enable /\ ~lcdc.enable
    <3>1. /\ ppu' = IF double_speed THEN [ppu EXCEPT !.dots = 1] ELSE ppu
          /\ last_ly' = last_ly /\ last_lyc' = lyc
          /\ stat' = [stat EXCEPT !.lyc_eq_ly = IF ppu.lyc_irq THEN lyc = last_ly ELSE @]
          /\ stat_mode' = stat_mode
      BY <1>1, <2>3 DEF WriteLcdc, TurnOn
    <3>2. ppu.selector = "after_turn_on" /\ ppu.dots = 0
      BY <2>3 DEF PpuInv, OffWaits
    <3>3. Planned(ppu') /\ ppu' \in PpuStates /\ ppu'.ly = ppu.ly /\ ppu'.mode = ppu.mode
      <4>1. CASE ~double_speed
        BY <1>1, <3>1, <4>1
      <4>2. CASE double_speed
        <5>1. ppu' = [ppu EXCEPT !.dots = 1] /\ 1 \in 0 .. LineEnd - 1
          BY <3>1, <4>2, ConstantBounds DEF Bounds
        <5>2. ppu' \in PpuStates /\ ppu'.selector = "after_turn_on"
          BY <1>1, <3>2, <5>1 DEF PpuStates
        <5>3. ScanPlan(ppu')
          BY <1>1, <3>2, <5>1, ConstantBounds DEF Bounds, Planned, ScanPlan, PpuStates
        <5>4. ppu'.ly = ppu.ly /\ ppu'.mode = ppu.mode
          BY <1>1, <5>1 DEF PpuStates
        <5> QED BY <5>2, <5>3, <5>4, PlanOfScan DEF ScanSelectors
      <4> QED BY <4>1, <4>2
    <3>4. stat' \in [enabled : Enables, lyc_eq_ly : BOOLEAN]
      BY <1>1, <3>1
    <3> QED BY <1>1, <1>3, <2>3, <3>1, <3>3, <3>4 DEF PpuInv, OffWaits, TransferShown
  <2> QED BY <1>1, <2>1, <2>2, <2>3
<1>5. PpuTypeOK'
  BY <1>1, <1>3, <1>4 DEF WriteLcdc, PpuInv, PpuTypeOK, PpuStates
<1> QED BY <1>3, <1>4, <1>5 DEF PpuInv, Planned

(* The other writes, and the speed, leave the dots alone.                  *)
LEMMA OthersKeep ==
  ASSUME PpuInv,
         \/ \E enabled \in Enables : WriteStat(enabled)
         \/ \E v \in Lycs : WriteLyc(v)
         \/ ChangeSpeed
  PROVE  PpuInv' /\ ppu' = ppu /\ lcdc' = lcdc
<1>1. /\ ppu' = ppu /\ lcdc' = lcdc /\ pending_lcdc' = pending_lcdc /\ stat_mode' = stat_mode
      /\ last_ly' = last_ly /\ since_lcdc' = since_lcdc /\ raised' = raised
      /\ last_lyc' = last_lyc /\ last_stat_irq' = last_stat_irq /\ pending_stat_irq' = pending_stat_irq
  BY DEF WriteStat, WriteLyc, ChangeSpeed, irqVars
<1>2. stat' \in [enabled : Enables, lyc_eq_ly : BOOLEAN] /\ lyc' \in Lycs /\ double_speed' \in BOOLEAN
  BY DEF PpuInv, PpuTypeOK, WriteStat, WriteLyc, ChangeSpeed, irqVars
<1> QED BY <1>1, <1>2 DEF PpuInv, PpuTypeOK, OffWaits, TransferShown, WriteEnds, Planned

LEMMA PpuStep == PpuInv /\ [PpuNext]_ppuVars => PpuInv'
<1> SUFFICES ASSUME PpuInv, [PpuNext]_ppuVars PROVE PpuInv'
  OBVIOUS
<1>1. CASE UNCHANGED ppuVars
  BY <1>1 DEF ppuVars, irqVars, PpuInv, PpuTypeOK, OffWaits, TransferShown, WriteEnds, Planned
<1> QED BY <1>1, DotKeeps, TickOffKeeps, WriteLcdcKeeps, OthersKeep DEF PpuNext, PpuTick, PpuWrite

THEOREM PpuInvariant == PpuSpec => []PpuInv
  BY PpuInitial, PpuStep, PTL DEF PpuSpec

(* Every variable keeps its type.                                          *)
THEOREM PpuTyped == PpuSpec => []PpuTypeOK
  BY PpuInvariant, PTL DEF PpuInv

(* Whatever the dots are asked for and whenever the PPU is turned off and  *)
(* on, they find what they assert, and STAT never shows a blank while the  *)
(* PPU holds the video memory.                                             *)
THEOREM DotsAlwaysAgree == PpuSpec => []DotsAndBusesAgree
<1>1. PpuInv => DotsAndBusesAgree
  <2> SUFFICES ASSUME PpuInv PROVE DotsAndBusesAgree
    OBVIOUS
  <2>1. /\ ppu \in PpuStates /\ ScanPlan(ppu) /\ TransferPlan(ppu) /\ FirstPlan(ppu) /\ HBlankPlan(ppu)
        /\ LastHBlankPlan(ppu) /\ VBlankPlan(ppu) /\ LastLinePlan(ppu)
        /\ ppu.selector \in Selectors /\ ppu.mode \in Modes
    BY DEF PpuInv, Planned, PpuStates
  <2>2. DotAssertions
    <3>1. /\ ppu.selector = "oam_scan" => ppu.dots <= Scan /\ ppu.oam /\ ~ppu.vram /\ ppu.mode = "OAM_SCAN"
          /\ ppu.selector = "after_turn_on" => ppu.dots < Scan + 2 /\ ~ppu.oam
          /\ ppu.selector = "after_turn_on_78" => ppu.mode = "OAM_SCAN"
      BY <2>1, ConstantBounds DEF Bounds, ScanPlan, PpuStates
    <3>2. /\ ppu.selector = "pixel_transfer" =>
               ppu.oam /\ ppu.vram /\ ppu.mode = "PIXEL_TRANSFER" /\ ppu.line < Rows
          /\ ppu.selector = "first_hblank" => ppu.first /\ ppu.mode = "PIXEL_TRANSFER" /\ ppu.line = 0
      BY <2>1, ConstantBounds DEF Bounds, TransferPlan, FirstPlan
    <3>3. /\ ppu.selector \in {"hblank", "hblank_452"} => ppu.line < Rows - 1
          /\ ppu.selector = "last_hblank" => ppu.line = Rows - 1
          /\ ppu.selector = "last_hblank_455" => ~ppu.vram /\ ~ppu.oam
      BY <2>1, ConstantBounds DEF Bounds, HBlankPlan, LastHBlankPlan
    <3>4. /\ ppu.selector \in {"vblank", "vblank_453"} => ppu.line \in Rows .. Lines - 2
          /\ ppu.selector = "vblank" => ~ppu.vram /\ ~ppu.oam
          /\ ppu.selector = "last_line" => ppu.line = Lines - 1
      BY <2>1 DEF VBlankPlan, LastLinePlan
    <3>5. (ppu.selector \in {"hblank_454", "last_hblank_454", "vblank_454", "last_line_3", "last_line_4"})
            = ~ppu.lyc_irq
      <4>1. CASE ppu.selector \in ScanSelectors \cup {"pixel_transfer", "first_hblank"}
        BY <2>1, <4>1 DEF ScanPlan, TransferPlan, FirstPlan, ScanSelectors
      <4>2. CASE ppu.selector \in RowSelectors
        BY <2>1, <4>2 DEF HBlankPlan, RowSelectors
      <4>3. CASE ppu.selector \in LastRowSelectors
        BY <2>1, <4>3 DEF LastHBlankPlan, LastRowSelectors
      <4>4. CASE ppu.selector \in BlankSelectors
        BY <2>1, <4>4 DEF VBlankPlan, BlankSelectors
      <4>5. CASE ppu.selector \in LastLineSelectors
        BY <2>1, <4>5 DEF LastLinePlan, LastLineSelectors
      <4> QED
        BY <2>1, <4>1, <4>2, <4>3, <4>4, <4>5
           DEF Selectors, ScanSelectors, RowSelectors, LastRowSelectors, BlankSelectors, LastLineSelectors
    <3>6. TriesOamIrq => ppu.lyc_irq /\ last_ly = ppu.ly
      BY <2>1 DEF PpuInv, TriesOamIrq, EntersFrame, HBlankPlan, LastHBlankPlan, LastLinePlan
    <3> QED BY <3>1, <3>2, <3>3, <3>4, <3>5, <3>6 DEF DotAssertions
  <2>3. BusesAsStatShows
    <3>1. ppu.mode \in {"HBLANK", "VBLANK"} => ~ppu.vram /\ (ppu.oam => ppu.dots >= Sync)
      <4>1. CASE ppu.selector \in ScanSelectors \cup {"pixel_transfer", "first_hblank"}
        BY <2>1, <4>1 DEF ScanPlan, TransferPlan, FirstPlan, ScanSelectors
      <4>2. CASE ppu.selector \in RowSelectors
        BY <2>1, <4>2, ConstantBounds DEF Bounds, HBlankPlan, RowSelectors
      <4>3. CASE ppu.selector \in LastRowSelectors
        BY <2>1, <4>3 DEF LastHBlankPlan, LastRowSelectors
      <4>4. CASE ppu.selector \in BlankSelectors
        BY <2>1, <4>4 DEF VBlankPlan, BlankSelectors
      <4>5. CASE ppu.selector \in LastLineSelectors
        BY <2>1, <4>5, ConstantBounds DEF Bounds, LastLinePlan, LastLineSelectors
      <4> QED
        BY <2>1, <4>1, <4>2, <4>3, <4>4, <4>5
           DEF Selectors, ScanSelectors, RowSelectors, LastRowSelectors, BlankSelectors, LastLineSelectors
    <3>2. ~lcdc.enable => ~ppu.vram /\ ~ppu.oam
      BY <2>1 DEF PpuInv, OffWaits, ScanPlan
    <3> QED BY <2>1, <3>1, <3>2 DEF BusesAsStatShows, PpuInv, TransferShown, Modes
  <2> QED BY <2>2, <2>3 DEF DotsAndBusesAgree
<1> QED BY <1>1, PpuInvariant, PTL

(* No write of LCDC is lost or late, on or off.                            *)
THEOREM WritesAlwaysSeen == PpuSpec => []EveryWriteSeen
<1>1. PpuInv => EveryWriteSeen
  BY DEF PpuInv, PpuTypeOK, WriteEnds, EveryWriteSeen, WriteDistance
<1> QED BY <1>1, PpuInvariant, PTL
-----------------------------------------------------------------------------
(* The refinement: what a program sees of the dots is a frame.             *)
LEMMA FrameInitial == PpuInit => Frame!Init
<1> SUFFICES ASSUME PpuInit PROVE Frame!Init
  OBVIOUS
<1>1. lcdc.enable = TRUE /\ ppu.mode = "VBLANK" /\ ppu.line = Rows
  BY DEF PpuInit
<1>2. Drawn = Rows /\ Rows \in Rows .. Lines - 1
  BY <1>1, ConstantBounds DEF Bounds, Drawn
<1> QED BY <1>1, <1>2 DEF Frame!Init

LEMMA FrameStepIsAdvance ==
  ASSUME PpuInv, FrameStep(ppu, ppu'), lcdc.enable, lcdc'.enable
  PROVE  [Frame!Next]_(Frame!frameVars)
<1>1. Drawn = DrawnBy(ppu) /\ Drawn' = DrawnBy(ppu')
  BY DEF Drawn, DrawnBy
<1>2. CASE Draws(ppu, ppu')
  BY <1>1, <1>2 DEF Draws, ModeOf, Frame!Next, Frame!Advance, Frame!Draw
<1>3. CASE LeavesRow(ppu, ppu')
  BY <1>1, <1>3 DEF LeavesRow, ModeOf, Frame!Next, Frame!Advance, Frame!LeaveRow
<1>4. CASE TakesLine(ppu, ppu')
  BY <1>1, <1>4 DEF TakesLine, ModeOf, Frame!Next, Frame!Advance, Frame!NextLine
<1>5. CASE ScansRow(ppu, ppu')
  BY <1>1, <1>5 DEF ScansRow, ModeOf, Frame!Next, Frame!Advance, Frame!ScanRow
<1>6. CASE Blanks(ppu, ppu')
  BY <1>1, <1>6 DEF Blanks, ModeOf, Frame!Next, Frame!Advance, Frame!Blank
<1>7. CASE Renews(ppu, ppu')
  BY <1>1, <1>7 DEF Renews, ModeOf, Frame!Next, Frame!Advance, Frame!NewFrame
<1>8. CASE Keeps(ppu, ppu')
  BY <1>1, <1>8 DEF Keeps, ModeOf, Frame!frameVars
<1> QED BY <1>2, <1>3, <1>4, <1>5, <1>6, <1>7, <1>8 DEF FrameStep

LEMMA SwitchIsFrameStep ==
  ASSUME PpuInv, NEW enable \in BOOLEAN, NEW bits \in Settings, WriteLcdc(enable, bits)
  PROVE  [Frame!Next]_(Frame!frameVars)
<1>1. /\ ppu \in PpuStates /\ lcdc \in [enable : BOOLEAN, bits : Settings]
      /\ ScanPlan(ppu) /\ OffWaits
  BY DEF PpuInv, PpuTypeOK, Planned
<1>2. lcdc'.enable = enable
  BY <1>1 DEF WriteLcdc
<1>3. CASE enable = lcdc.enable
  BY <1>2, <1>3 DEF WriteLcdc, Frame!frameVars, Drawn
<1>4. CASE ~enable /\ lcdc.enable
  <2>1. ppu' = TurnedOff(ppu)
    BY <1>1, <1>4 DEF WriteLcdc, TurnOff
  <2>2. ppu'.mode = "OAM_SCAN" /\ ppu'.first /\ ppu'.line = 0
    BY <1>1, <2>1 DEF TurnedOff, PpuStates
  <2>3. Drawn' = 0
    BY <2>2 DEF Drawn
  <2> QED BY <1>2, <1>4, <2>2, <2>3 DEF Frame!Next, Frame!TurnOff
<1>5. CASE enable /\ ~lcdc.enable
  <2>1. ppu.mode = "OAM_SCAN" /\ ppu.first /\ ppu.line = 0
    BY <1>1, <1>5 DEF OffWaits, ScanPlan
  <2>2. ppu'.mode = ppu.mode /\ ppu'.first = ppu.first /\ ppu'.line = ppu.line
    BY <1>1, <1>5 DEF WriteLcdc, TurnOn, PpuStates
  <2>3. Drawn' = Drawn
    BY <2>1, <2>2 DEF Drawn
  <2> QED BY <1>2, <1>5, <2>1, <2>2, <2>3 DEF Frame!Next, Frame!TurnOn
<1> QED BY <1>1, <1>3, <1>4, <1>5

LEMMA PpuStepIsFrameStep ==
  PpuInv /\ [PpuNext]_ppuVars => [Frame!Next]_(Frame!frameVars)
<1> SUFFICES ASSUME PpuInv, [PpuNext]_ppuVars PROVE [Frame!Next]_(Frame!frameVars)
  OBVIOUS
<1>1. ASSUME NEW q \in DotOf(ppu), NEW dma \in BOOLEAN, Dot(q, dma)
      PROVE  [Frame!Next]_(Frame!frameVars)
  <2>1. FrameStep(ppu, ppu')
    BY <1>1, DotKeeps
  <2>2. lcdc.enable /\ lcdc'.enable = lcdc.enable
    BY <1>1, WriteTicks DEF Dot
  <2> QED BY <2>1, <2>2, FrameStepIsAdvance
<1>2. ASSUME ppu' = ppu, lcdc'.enable = lcdc.enable PROVE [Frame!Next]_(Frame!frameVars)
  BY <1>2 DEF Frame!frameVars, Drawn
<1>3. CASE TickOff
  BY <1>2, <1>3, TickOffKeeps
<1>4. CASE UNCHANGED ppuVars
  BY <1>2, <1>4 DEF ppuVars
<1>5. CASE (\E enabled \in Enables : WriteStat(enabled)) \/ (\E v \in Lycs : WriteLyc(v)) \/ ChangeSpeed
  BY <1>2, <1>5, OthersKeep
<1> QED BY <1>1, <1>3, <1>4, <1>5, SwitchIsFrameStep DEF PpuNext, PpuTick, PpuWrite

(* The dots implement the frame: no row is skipped, drawn twice or drawn   *)
(* on another line, for lines of any length, frames of any number of rows  *)
(* and the PPU turned off and on between any two dots.                     *)
THEOREM DotsImplementFrame == PpuSpec => ImplementsFrameModes
<1> QED BY FrameInitial, PpuStepIsFrameStep, PpuInvariant, PTL
        DEF PpuSpec, ImplementsFrameModes, Frame!Spec

-----------------------------------------------------------------------------
(* The interrupts of a frame that nothing disturbs: with the sources e     *)
(* enabled and y in LYC, when STAT's line is high and how often it rose.   *)
One(b) == IF b THEN 1 ELSE 0

(* The line whose comparison with LYC STAT shows. *)
Compared(p) ==
  IF p.selector \in {"hblank_454", "last_hblank_454", "vblank_454"} THEN p.line - 1
  ELSE IF p.selector = "last_line_4" THEN Lines - 1
  ELSE p.line

LineHigh(p, e, y) ==
  \/ "lyc_eq_ly" \in e /\ y = Compared(p)
  \/ "hblank" \in e /\ p.mode = "HBLANK"
  \/ "vblank" \in e /\ p.mode = "VBLANK"

Rises(p, q, e, y) == ~LineHigh(p, e, y) /\ LineHigh(q, e, y)

(* A request noted in the dot before: the dots after a rising line. *)
RisePlace(p, e, y) ==
  \/ p.selector \in {"hblank", "last_hblank"} /\ p.dots <= Long
  \/ p.selector \in {"hblank_453", "hblank_455", "vblank_455"}
  \/ p.selector = "last_hblank_455" /\ "lyc_eq_ly" \in e /\ y = p.line
  \/ p.selector = "vblank" /\ p.dots <= 1
  \/ p.selector = "last_line_7" /\ p.dots = 7

(* Where last_stat_irq may still be set by the scan that was tried, or by  *)
(* what was enabled before the frame.                                      *)
StalePlace(p) == p.selector = "hblank_453" \/ (p.selector = "oam_scan" /\ p.dots = 0)
Settling == frame.quiet = "settling" /\ ppu.selector = "vblank" /\ ppu.dots <= 1

(* The lines whose scan interrupt was tried, the lines LYC was compared    *)
(* with, and the one with which it is compared too early.                  *)
Tried(p) == IF p.mode = "VBLANK" THEN Rows ELSE IF p.dots = Sync + 1 THEN p.line + 1 ELSE p.line
ZeroSelectors == {"last_line_7", "last_line_453", "last_line_454", "last_line_455"}
Met(p, y) == IF p.selector \in ZeroSelectors THEN y < Lines ELSE 1 <= y /\ y <= Compared(p)
Early(p, e, y) == "hblank" \in e /\ p.mode = "HBLANK" /\ p.dots > Sync /\ y = DrawnBy(p)

(* The requests due: of the first scan, of the blank, of the rows. *)
Due(p, e) ==
  One("oam" \in e /\ "vblank" \notin e)
  + One("vblank" \in e /\ "hblank" \notin e /\ p.mode = "VBLANK")
  + (IF "hblank" \in e THEN DrawnBy(p) ELSE IF "oam" \in e THEN Tried(p) ELSE 0)

CountRight(p, e, y, n) ==
  /\ "lyc_eq_ly" \notin e => n = Due(p, e)
  /\ e = {"lyc_eq_ly"} => n = One(Met(p, y))
  /\ "lyc_eq_ly" \in e => n <= Due(p, e) + One(Met(p, y) \/ Early(p, e, y))

(* A dot that changes nothing of this, and the dots that do. *)
SameSources(p, q) ==
  /\ q.mode = "HBLANK" <=> p.mode = "HBLANK"
  /\ q.mode = "VBLANK" <=> p.mode = "VBLANK"
  /\ Compared(q) = Compared(p) /\ DrawnBy(q) = DrawnBy(p) /\ Tried(q) = Tried(p)
  /\ q.selector \in ZeroSelectors <=> p.selector \in ZeroSelectors
  /\ (q.mode = "HBLANK" /\ q.dots > Sync) <=> (p.mode = "HBLANK" /\ p.dots > Sync)
  /\ p.selector \notin {"hblank_452", "last_hblank_455", "last_line_455"}
  /\ p.selector = "last_hblank" => p.dots # Sync
HBlankBegins(p, q) ==
  /\ p.selector = "pixel_transfer" /\ p.mode = "PIXEL_TRANSFER" /\ p.dots < Sync /\ p.line \in 0 .. Rows - 1
  /\ q.selector \in {"hblank", "last_hblank"} /\ q.mode = "HBLANK" /\ q.dots <= Long /\ q.line = p.line
ScanTried(p, q) ==
  /\ p.selector = "hblank_452" \/ (p.selector = "last_hblank" /\ p.dots = Sync)
  /\ p.mode = "HBLANK" /\ p.dots = Sync /\ p.line \in 0 .. Rows - 1 /\ p.ly = p.line
  /\ q.selector = IF p.selector = "hblank_452" THEN "hblank_453" ELSE "last_hblank_453"
  /\ q.mode = "HBLANK" /\ q.dots = Sync + 1 /\ q.line = p.line
LineBegins(p, q) ==
  /\ \/ p.selector = "hblank_454" /\ q.selector = "hblank_455" /\ q.mode = "OAM_SCAN"
     \/ p.selector = "last_hblank_454" /\ q.selector = "last_hblank_455" /\ q.mode = "HBLANK"
  /\ p.mode = "HBLANK" /\ p.dots = Sync + 2 /\ p.line \in 1 .. Rows
  /\ q.dots = Sync + 3 /\ q.line = p.line
BlankLineBegins(p, q) ==
  /\ p.selector = "vblank_454" /\ p.mode = "VBLANK" /\ p.dots = Sync + 2 /\ p.line \in 1 .. Lines - 1
  /\ q.selector = "vblank_455" /\ q.mode = "VBLANK" /\ q.dots = Sync + 3 /\ q.line = p.line
VBlankBegins(p, q) ==
  /\ p.selector = "last_hblank_455" /\ p.mode = "HBLANK" /\ p.dots = Sync + 3 /\ p.line = Rows
  /\ q.selector = "vblank" /\ q.mode = "VBLANK" /\ q.dots = 0 /\ q.line = Rows
LineZeroBegins(p, q) ==
  /\ p.selector = "last_line_4" /\ p.mode = "VBLANK" /\ p.dots = 6 /\ p.line = 0
  /\ q.selector = "last_line_7" /\ q.mode = "VBLANK" /\ q.dots = 7 /\ q.line = 0
FrameBegins(p, q) ==
  /\ p.selector = "last_line_455" /\ p.mode = "VBLANK" /\ p.dots = Sync + 3 /\ p.line = 0 /\ p.ly = 0
  /\ q.selector = "oam_scan" /\ q.mode = "OAM_SCAN" /\ q.dots = 0 /\ q.line = 0

(* LY is compared with LYC, or the comparison kept. *)
Compares(p, q) ==
  IF q.lyc_irq THEN p.ly = Compared(q) ELSE p.selector # "vblank" /\ Compared(q) = Compared(p)

(* Every dot of a frame turns none of this, or one thing of it. *)
LEMMA DotTurns ==
  ASSUME NEW p, Planned(p), ~p.first, NEW q \in DotOf(p)
  PROVE  /\ Compares(p, q) /\ ~q.first
         /\ \/ SameSources(p, q) \/ HBlankBegins(p, q) \/ ScanTried(p, q) \/ LineBegins(p, q)
            \/ BlankLineBegins(p, q) \/ VBlankBegins(p, q) \/ LineZeroBegins(p, q) \/ FrameBegins(p, q)
<1> USE ConstantBounds DEF Bounds
<1>1. p \in PpuStates /\ p.selector \in Selectors 
  BY DEF Planned, PpuStates
<1>2. CASE p.selector = "oam_scan"
  <2>1. q \in ScanDot(p) BY <1>2 DEF DotOf, HBlankSelectors, VBlankSelectors
  <2>2. /\ q.selector \in {"oam_scan", "oam_scan_77"} /\ q.dots = p.dots + 1
        /\ q.mode = p.mode /\ q.line = p.line /\ q.lyc_irq = p.lyc_irq /\ q.first = p.first
    BY <1>1, <1>2, <2>1 DEF ScanDot, PpuStates, Planned, ScanPlan, GoNext, Go, Until
  <2>3. Compares(p, q)
    BY <1>1, <1>2, <2>2 DEF PpuStates, Planned, ScanPlan, Compares, Compared
  <2>4. SameSources(p, q)
    BY <1>1, <1>2, <2>2 DEF PpuStates, Planned, ScanPlan, SameSources, Compared, DrawnBy, Tried,
       ZeroSelectors
  <2>5. QED BY <2>2, <2>3, <2>4
<1>3. CASE p.selector = "oam_scan_77"
  <2>1. q \in ScanDot(p) BY <1>3 DEF DotOf, HBlankSelectors, VBlankSelectors
  <2>2. /\ q.selector = "oam_scan_done" /\ q.dots = p.dots + 1
        /\ q.mode = p.mode /\ q.line = p.line /\ q.lyc_irq = p.lyc_irq /\ q.first = p.first
    BY <1>1, <1>3, <2>1 DEF ScanDot, PpuStates, Planned, ScanPlan, GoNext, Go
  <2>3. Compares(p, q)
    BY <1>1, <1>3, <2>2 DEF PpuStates, Planned, ScanPlan, Compares, Compared
  <2>4. SameSources(p, q)
    BY <1>1, <1>3, <2>2 DEF PpuStates, Planned, ScanPlan, SameSources, Compared, DrawnBy, Tried,
       ZeroSelectors
  <2>5. QED BY <2>2, <2>3, <2>4
<1>4. CASE p.selector = "oam_scan_done" /\ p.dots = Scan + 2
  <2>1. q \in ScanDot(p) BY <1>4 DEF DotOf, HBlankSelectors, VBlankSelectors
  <2>2. q = [GoNext(p, "oam_scan_done") EXCEPT !.mode = "PIXEL_TRANSFER"]
    BY <1>1, <1>4, <2>1 DEF ScanDot, PpuStates
  <2>3. /\ q.selector = "oam_scan_done" /\ q.dots = p.dots + 1 /\ q.mode = "PIXEL_TRANSFER"
        /\ q.line = p.line /\ q.lyc_irq = p.lyc_irq /\ q.first = p.first
    BY <1>1, <1>4, <2>2 DEF PpuStates, GoNext, Go
  <2>4. Compares(p, q)
    BY <1>1, <1>4, <2>3 DEF PpuStates, Planned, ScanPlan, Compares, Compared
  <2>5. SameSources(p, q)
    BY <1>1, <1>4, <2>3 DEF PpuStates, Planned, ScanPlan, SameSources, Compared, DrawnBy, Tried,
       ZeroSelectors
  <2>6. QED BY <2>3, <2>4, <2>5
<1>5. CASE p.selector = "oam_scan_done" /\ p.dots = Scan + 3
  <2>1. q \in ScanDot(p) BY <1>5 DEF DotOf, HBlankSelectors, VBlankSelectors
  <2>2. q = EnterPixelTransfer(p)
    BY <1>1, <1>5, <2>1 DEF ScanDot, PpuStates
  <2>3. /\ q.selector = "pixel_transfer" /\ q.dots = p.dots + 1
        /\ q.mode = p.mode /\ q.line = p.line /\ q.lyc_irq = p.lyc_irq /\ q.first = p.first
    BY <1>1, <1>5, <2>2 DEF PpuStates, EnterPixelTransfer, Go
  <2>4. Compares(p, q)
    BY <1>1, <1>5, <2>3 DEF PpuStates, Planned, ScanPlan, Compares, Compared
  <2>5. SameSources(p, q)
    BY <1>1, <1>5, <2>3 DEF PpuStates, Planned, ScanPlan, SameSources, Compared, DrawnBy, Tried,
       ZeroSelectors
  <2>6. QED BY <2>3, <2>4, <2>5
<1>6. CASE p.selector = "pixel_transfer" /\ q.selector = "pixel_transfer"
  <2>1. q \in PixelTransfer(p) BY <1>6 DEF DotOf, HBlankSelectors, VBlankSelectors
  <2>2. /\ q.dots = p.dots + 1
        /\ q.mode = p.mode /\ q.line = p.line /\ q.lyc_irq = p.lyc_irq /\ q.first = p.first
    BY <1>1, <1>6, <2>1 DEF PixelTransfer, PpuStates, Planned, TransferPlan, GoNext, Go, EnterHBlank
  <2>3. Compares(p, q)
    BY <1>1, <1>6, <2>2 DEF PpuStates, Planned, TransferPlan, Compares, Compared
  <2>4. SameSources(p, q)
    BY <1>1, <1>6, <2>2 DEF PpuStates, Planned, TransferPlan, SameSources, Compared, DrawnBy, Tried,
       ZeroSelectors
  <2>5. QED BY <2>2, <2>3, <2>4
<1>7. CASE p.selector = "pixel_transfer" /\ q.selector # "pixel_transfer"
  <2>1. q \in PixelTransfer(p) BY <1>7 DEF DotOf, HBlankSelectors, VBlankSelectors
  <2>2. /\ q.selector \in {"hblank", "last_hblank"} /\ q.dots = p.dots + 1 /\ q.mode = "HBLANK"
        /\ q.line = p.line /\ q.lyc_irq = p.lyc_irq /\ q.first = p.first
    BY <1>1, <1>7, <2>1 DEF PixelTransfer, PpuStates, Planned, TransferPlan, GoNext, Go, EnterHBlank
  <2>3. Compares(p, q)
    BY <1>1, <1>7, <2>2 DEF PpuStates, Planned, TransferPlan, Compares, Compared
  <2>4. HBlankBegins(p, q)
    BY <1>1, <1>7, <2>2 DEF PpuStates, Planned, TransferPlan, HBlankBegins
  <2>5. QED BY <2>2, <2>3, <2>4
<1>8. CASE p.selector = "hblank"
  <2>1. q \in HBlankDot(p) BY <1>8 DEF DotOf, HBlankSelectors, VBlankSelectors
  <2>2. /\ q.selector \in {"hblank", "hblank_452"} /\ q.dots = p.dots + 1
        /\ q.mode = p.mode /\ q.line = p.line /\ q.lyc_irq = p.lyc_irq /\ q.first = p.first
    BY <1>1, <1>8, <2>1 DEF HBlankDot, PpuStates, Planned, HBlankPlan, GoNext, Go, Until
  <2>3. Compares(p, q)
    BY <1>1, <1>8, <2>2 DEF PpuStates, Planned, HBlankPlan, Compares, Compared
  <2>4. SameSources(p, q)
    BY <1>1, <1>8, <2>2 DEF PpuStates, Planned, HBlankPlan, SameSources, Compared, DrawnBy, Tried,
       ZeroSelectors
  <2>5. QED BY <2>2, <2>3, <2>4
<1>9. CASE p.selector = "hblank_452"
  <2>1. q \in HBlankDot(p) BY <1>9 DEF DotOf, HBlankSelectors, VBlankSelectors
  <2>2. /\ q.selector = "hblank_453" /\ q.dots = p.dots + 1
        /\ q.mode = p.mode /\ q.line = p.line /\ q.lyc_irq = p.lyc_irq /\ q.first = p.first
    BY <1>1, <1>9, <2>1 DEF HBlankDot, PpuStates, Planned, HBlankPlan, GoNext, Go, Garbled
  <2>3. Compares(p, q)
    BY <1>1, <1>9, <2>2 DEF PpuStates, Planned, HBlankPlan, Compares, Compared
  <2>4. ScanTried(p, q)
    BY <1>1, <1>9, <2>2 DEF PpuStates, Planned, HBlankPlan, ScanTried
  <2>5. QED BY <2>2, <2>3, <2>4
<1>10. CASE p.selector = "hblank_453"
  <2>1. q \in HBlankDot(p) BY <1>10 DEF DotOf, HBlankSelectors, VBlankSelectors
  <2>2. /\ q.selector = "hblank_454" /\ q.dots = p.dots + 1 /\ q.mode = p.mode /\ q.line = p.line + 1 /\ ~q.lyc_irq
        /\ q.first = p.first
    BY <1>1, <1>10, <2>1 DEF HBlankDot, PpuStates, Planned, HBlankPlan, GoNext, Go, Increased
  <2>3. Compares(p, q)
    BY <1>1, <1>10, <2>2 DEF PpuStates, Planned, HBlankPlan, Compares, Compared
  <2>4. SameSources(p, q)
    BY <1>1, <1>10, <2>2 DEF PpuStates, Planned, HBlankPlan, SameSources, Compared, DrawnBy, Tried,
       ZeroSelectors
  <2>5. QED BY <2>2, <2>3, <2>4
<1>11. CASE p.selector = "hblank_454"
  <2>1. q \in HBlankDot(p) BY <1>11 DEF DotOf, HBlankSelectors, VBlankSelectors
  <2>2. /\ q.selector = "hblank_455" /\ q.dots = p.dots + 1 /\ q.mode = "OAM_SCAN" /\ q.lyc_irq
        /\ q.line = p.line /\ q.first = p.first
    BY <1>1, <1>11, <2>1 DEF HBlankDot, PpuStates, Planned, HBlankPlan, GoNext, Go
  <2>3. Compares(p, q)
    BY <1>1, <1>11, <2>2 DEF PpuStates, Planned, HBlankPlan, Compares, Compared
  <2>4. LineBegins(p, q)
    BY <1>1, <1>11, <2>2 DEF PpuStates, Planned, HBlankPlan, LineBegins
  <2>5. QED BY <2>2, <2>3, <2>4
<1>12. CASE p.selector = "hblank_455"
  <2>1. q \in HBlankDot(p) BY <1>12 DEF DotOf, HBlankSelectors, VBlankSelectors
  <2>2. /\ q.selector = "oam_scan" /\ q.dots = 0
        /\ q.mode = p.mode /\ q.line = p.line /\ q.lyc_irq = p.lyc_irq /\ q.first = p.first
    BY <1>1, <1>12, <2>1 DEF HBlankDot, PpuStates, Planned, HBlankPlan, GoNext, Go
  <2>3. Compares(p, q)
    BY <1>1, <1>12, <2>2 DEF PpuStates, Planned, HBlankPlan, Compares, Compared
  <2>4. SameSources(p, q)
    BY <1>1, <1>12, <2>2 DEF PpuStates, Planned, HBlankPlan, SameSources, Compared, DrawnBy, Tried,
       ZeroSelectors
  <2>5. QED BY <2>2, <2>3, <2>4
<1>13. CASE p.selector = "last_hblank" /\ p.dots # Sync
  <2>1. q \in HBlankDot(p) BY <1>13 DEF DotOf, HBlankSelectors, VBlankSelectors
  <2>2. q = GoNext(p, "last_hblank")
    BY <1>1, <1>13, <2>1 DEF HBlankDot, PpuStates
  <2>3. /\ q.selector = "last_hblank" /\ q.dots = p.dots + 1
        /\ q.mode = p.mode /\ q.line = p.line /\ q.lyc_irq = p.lyc_irq /\ q.first = p.first
    BY <1>1, <1>13, <2>2 DEF PpuStates, GoNext, Go
  <2>4. Compares(p, q)
    BY <1>1, <1>13, <2>3 DEF PpuStates, Planned, LastHBlankPlan, Compares, Compared
  <2>5. SameSources(p, q)
    BY <1>1, <1>13, <2>3 DEF PpuStates, Planned, LastHBlankPlan, SameSources, Compared, DrawnBy,
       Tried, ZeroSelectors
  <2>6. QED BY <2>3, <2>4, <2>5
<1>14. CASE p.selector = "last_hblank" /\ p.dots = Sync
  <2>1. q \in HBlankDot(p) BY <1>14 DEF DotOf, HBlankSelectors, VBlankSelectors
  <2>2. /\ q.selector = "last_hblank_453" /\ q.dots = p.dots + 1
        /\ q.mode = p.mode /\ q.line = p.line /\ q.lyc_irq = p.lyc_irq /\ q.first = p.first
    BY <1>1, <1>14, <2>1 DEF HBlankDot, PpuStates, Planned, LastHBlankPlan, GoNext, Go, Garbled
  <2>3. Compares(p, q)
    BY <1>1, <1>14, <2>2 DEF PpuStates, Planned, LastHBlankPlan, Compares, Compared
  <2>4. ScanTried(p, q)
    BY <1>1, <1>14, <2>2 DEF PpuStates, Planned, LastHBlankPlan, ScanTried
  <2>5. QED BY <2>2, <2>3, <2>4
<1>15. CASE p.selector = "last_hblank_453"
  <2>1. q \in HBlankDot(p) BY <1>15 DEF DotOf, HBlankSelectors, VBlankSelectors
  <2>2. /\ q.selector = "last_hblank_454" /\ q.dots = p.dots + 1 /\ q.mode = p.mode /\ q.line = p.line + 1 /\ ~q.lyc_irq
        /\ q.first = p.first
    BY <1>1, <1>15, <2>1 DEF HBlankDot, PpuStates, Planned, LastHBlankPlan, GoNext, Go, Increased
  <2>3. Compares(p, q)
    BY <1>1, <1>15, <2>2 DEF PpuStates, Planned, LastHBlankPlan, Compares, Compared
  <2>4. SameSources(p, q)
    BY <1>1, <1>15, <2>2 DEF PpuStates, Planned, LastHBlankPlan, SameSources, Compared, DrawnBy,
       Tried, ZeroSelectors
  <2>5. QED BY <2>2, <2>3, <2>4
<1>16. CASE p.selector = "last_hblank_454"
  <2>1. q \in HBlankDot(p) BY <1>16 DEF DotOf, HBlankSelectors, VBlankSelectors
  <2>2. /\ q.selector = "last_hblank_455" /\ q.dots = p.dots + 1 /\ q.mode = p.mode /\ q.lyc_irq
        /\ q.line = p.line /\ q.first = p.first
    BY <1>1, <1>16, <2>1 DEF HBlankDot, PpuStates, Planned, LastHBlankPlan, GoNext, Go
  <2>3. Compares(p, q)
    BY <1>1, <1>16, <2>2 DEF PpuStates, Planned, LastHBlankPlan, Compares, Compared
  <2>4. LineBegins(p, q)
    BY <1>1, <1>16, <2>2 DEF PpuStates, Planned, LastHBlankPlan, LineBegins
  <2>5. QED BY <2>2, <2>3, <2>4
<1>17. CASE p.selector = "last_hblank_455"
  <2>1. q \in HBlankDot(p) BY <1>17 DEF DotOf, HBlankSelectors, VBlankSelectors
  <2>2. /\ q.selector = "vblank" /\ q.dots = 0 /\ q.mode = "VBLANK"
        /\ q.line = p.line /\ q.lyc_irq = p.lyc_irq /\ q.first = p.first
    BY <1>1, <1>17, <2>1 DEF HBlankDot, PpuStates, Planned, LastHBlankPlan, GoNext, Go
  <2>3. Compares(p, q)
    BY <1>1, <1>17, <2>2 DEF PpuStates, Planned, LastHBlankPlan, Compares, Compared
  <2>4. VBlankBegins(p, q)
    BY <1>1, <1>17, <2>2 DEF PpuStates, Planned, LastHBlankPlan, VBlankBegins
  <2>5. QED BY <2>2, <2>3, <2>4
<1>18. CASE p.selector = "vblank"
  <2>1. q \in VBlankDot(p) BY <1>18 DEF DotOf, HBlankSelectors, VBlankSelectors
  <2>2. /\ q.selector \in {"vblank", "vblank_453"} /\ q.dots = p.dots + 1
        /\ q.mode = p.mode /\ q.line = p.line /\ q.lyc_irq = p.lyc_irq /\ q.first = p.first
    BY <1>1, <1>18, <2>1 DEF VBlankDot, PpuStates, Planned, VBlankPlan, GoNext, Go, Garbled
  <2>3. Compares(p, q)
    BY <1>1, <1>18, <2>2 DEF PpuStates, Planned, VBlankPlan, Compares, Compared
  <2>4. SameSources(p, q)
    BY <1>1, <1>18, <2>2 DEF PpuStates, Planned, VBlankPlan, SameSources, Compared, DrawnBy, Tried,
       ZeroSelectors
  <2>5. QED BY <2>2, <2>3, <2>4
<1>19. CASE p.selector = "vblank_453"
  <2>1. q \in VBlankDot(p) BY <1>19 DEF DotOf, HBlankSelectors, VBlankSelectors
  <2>2. /\ q.selector = "vblank_454" /\ q.dots = p.dots + 1 /\ q.mode = p.mode /\ q.line = p.line + 1 /\ ~q.lyc_irq
        /\ q.first = p.first
    BY <1>1, <1>19, <2>1 DEF VBlankDot, PpuStates, Planned, VBlankPlan, GoNext, Go, Increased
  <2>3. Compares(p, q)
    BY <1>1, <1>19, <2>2 DEF PpuStates, Planned, VBlankPlan, Compares, Compared
  <2>4. SameSources(p, q)
    BY <1>1, <1>19, <2>2 DEF PpuStates, Planned, VBlankPlan, SameSources, Compared, DrawnBy, Tried,
       ZeroSelectors
  <2>5. QED BY <2>2, <2>3, <2>4
<1>20. CASE p.selector = "vblank_454"
  <2>1. q \in VBlankDot(p) BY <1>20 DEF DotOf, HBlankSelectors, VBlankSelectors
  <2>2. /\ q.selector = "vblank_455" /\ q.dots = p.dots + 1 /\ q.mode = p.mode /\ q.lyc_irq
        /\ q.line = p.line /\ q.first = p.first
    BY <1>1, <1>20, <2>1 DEF VBlankDot, PpuStates, Planned, VBlankPlan, GoNext, Go
  <2>3. Compares(p, q)
    BY <1>1, <1>20, <2>2 DEF PpuStates, Planned, VBlankPlan, Compares, Compared
  <2>4. BlankLineBegins(p, q)
    BY <1>1, <1>20, <2>2 DEF PpuStates, Planned, VBlankPlan, BlankLineBegins
  <2>5. QED BY <2>2, <2>3, <2>4
<1>21. CASE p.selector = "vblank_455"
  <2>1. q \in VBlankDot(p) BY <1>21 DEF DotOf, HBlankSelectors, VBlankSelectors
  <2>2. /\ q.selector \in {"vblank", "last_line"} /\ q.dots = 0
        /\ q.mode = p.mode /\ q.line = p.line /\ q.lyc_irq = p.lyc_irq /\ q.first = p.first
    BY <1>1, <1>21, <2>1 DEF VBlankDot, PpuStates, Planned, VBlankPlan, GoNext, Go
  <2>3. Compares(p, q)
    BY <1>1, <1>21, <2>2 DEF PpuStates, Planned, VBlankPlan, Compares, Compared
  <2>4. SameSources(p, q)
    BY <1>1, <1>21, <2>2 DEF PpuStates, Planned, VBlankPlan, SameSources, Compared, DrawnBy, Tried,
       ZeroSelectors
  <2>5. QED BY <2>2, <2>3, <2>4
<1>22. CASE p.selector = "last_line"
  <2>1. q \in VBlankDot(p) BY <1>22 DEF DotOf, HBlankSelectors, VBlankSelectors
  <2>2. /\ q.selector \in {"last_line", "last_line_2"} /\ q.dots = p.dots + 1
        /\ q.mode = p.mode /\ q.line = p.line /\ q.lyc_irq = p.lyc_irq /\ q.first = p.first
    BY <1>1, <1>22, <2>1 DEF VBlankDot, PpuStates, Planned, LastLinePlan, GoNext, Go, Until
  <2>3. Compares(p, q)
    BY <1>1, <1>22, <2>2 DEF PpuStates, Planned, LastLinePlan, LastLineSelectors, Compares, Compared
  <2>4. SameSources(p, q)
    BY <1>1, <1>22, <2>2 DEF PpuStates, Planned, LastLinePlan, LastLineSelectors, SameSources,
       Compared, DrawnBy, Tried, ZeroSelectors
  <2>5. QED BY <2>2, <2>3, <2>4
<1>23. CASE p.selector = "last_line_2"
  <2>1. q \in VBlankDot(p) BY <1>23 DEF DotOf, HBlankSelectors, VBlankSelectors
  <2>2. /\ q.selector = "last_line_3" /\ q.dots = p.dots + 1 /\ q.mode = p.mode /\ ~q.lyc_irq
        /\ q.line = p.line /\ q.first = p.first
    BY <1>1, <1>23, <2>1 DEF VBlankDot, PpuStates, Planned, LastLinePlan, GoNext, Go
  <2>3. Compares(p, q)
    BY <1>1, <1>23, <2>2 DEF PpuStates, Planned, LastLinePlan, LastLineSelectors, Compares, Compared
  <2>4. SameSources(p, q)
    BY <1>1, <1>23, <2>2 DEF PpuStates, Planned, LastLinePlan, LastLineSelectors, SameSources,
       Compared, DrawnBy, Tried, ZeroSelectors
  <2>5. QED BY <2>2, <2>3, <2>4
<1>24. CASE p.selector = "last_line_3"
  <2>1. q \in VBlankDot(p) BY <1>24 DEF DotOf, HBlankSelectors, VBlankSelectors
  <2>2. /\ q.selector = "last_line_4" /\ q.dots = p.dots + 1 /\ q.mode = p.mode /\ q.line = 0 /\ ~q.lyc_irq
        /\ q.first = p.first
    BY <1>1, <1>24, <2>1 DEF VBlankDot, PpuStates, Planned, LastLinePlan, GoNext, Go
  <2>3. Compares(p, q)
    BY <1>1, <1>24, <2>2 DEF PpuStates, Planned, LastLinePlan, LastLineSelectors, Compares, Compared
  <2>4. SameSources(p, q)
    BY <1>1, <1>24, <2>2 DEF PpuStates, Planned, LastLinePlan, LastLineSelectors, SameSources,
       Compared, DrawnBy, Tried, ZeroSelectors
  <2>5. QED BY <2>2, <2>3, <2>4
<1>25. CASE p.selector = "last_line_4" /\ p.dots # 6
  <2>1. q \in VBlankDot(p) BY <1>25 DEF DotOf, HBlankSelectors, VBlankSelectors
  <2>2. q = [Until(p, 7, "last_line_7") EXCEPT !.lyc_irq = @ \/ p.dots + 1 = 7]
    BY <1>25, <2>1 DEF VBlankDot
  <2>3. p.dots + 1 # 7 /\ p.dots \in Nat /\ ~p.lyc_irq
    BY <1>1, <1>25 DEF PpuStates, Planned, LastLinePlan
  <2>4. Until(p, 7, "last_line_7") = GoNext(p, "last_line_4")
    BY <1>25, <2>3 DEF Until
  <2>5. /\ q.selector = "last_line_4" /\ q.dots = p.dots + 1
        /\ q.mode = p.mode /\ q.line = p.line /\ q.lyc_irq = p.lyc_irq /\ q.first = p.first
    BY <1>1, <1>25, <2>2, <2>3, <2>4 DEF PpuStates, GoNext, Go
  <2>6. Compares(p, q)
    BY <1>1, <1>25, <2>5 DEF PpuStates, Planned, LastLinePlan, LastLineSelectors, Compares, Compared
  <2>7. SameSources(p, q)
    BY <1>1, <1>25, <2>5 DEF PpuStates, Planned, LastLinePlan, LastLineSelectors, SameSources,
       Compared, DrawnBy, Tried, ZeroSelectors
  <2>8. QED BY <2>5, <2>6, <2>7
<1>26. CASE p.selector = "last_line_4" /\ p.dots = 6
  <2>1. q \in VBlankDot(p) BY <1>26 DEF DotOf, HBlankSelectors, VBlankSelectors
  <2>2. q = [Until(p, 7, "last_line_7") EXCEPT !.lyc_irq = @ \/ p.dots + 1 = 7]
    BY <1>26, <2>1 DEF VBlankDot
  <2>3. p.dots + 1 = 7 /\ p.dots \in Nat /\ ~p.lyc_irq
    BY <1>1, <1>26 DEF PpuStates, Planned, LastLinePlan
  <2>4. Until(p, 7, "last_line_7") = GoNext(p, "last_line_7")
    BY <1>26, <2>3 DEF Until
  <2>5. /\ q.selector = "last_line_7" /\ q.dots = p.dots + 1 /\ q.mode = p.mode /\ q.lyc_irq
        /\ q.line = p.line /\ q.first = p.first
    BY <1>1, <1>26, <2>2, <2>3, <2>4 DEF PpuStates, GoNext, Go
  <2>6. Compares(p, q)
    BY <1>1, <1>26, <2>5 DEF PpuStates, Planned, LastLinePlan, LastLineSelectors, Compares, Compared
  <2>7. LineZeroBegins(p, q)
    BY <1>1, <1>26, <2>5 DEF PpuStates, Planned, LastLinePlan, LastLineSelectors, LineZeroBegins
  <2>8. QED BY <2>5, <2>6, <2>7
<1>27. CASE p.selector = "last_line_7"
  <2>1. q \in VBlankDot(p) BY <1>27 DEF DotOf, HBlankSelectors, VBlankSelectors
  <2>2. /\ q.selector \in {"last_line_7", "last_line_453"} /\ q.dots = p.dots + 1
        /\ q.mode = p.mode /\ q.line = p.line /\ q.lyc_irq = p.lyc_irq /\ q.first = p.first
    BY <1>1, <1>27, <2>1 DEF VBlankDot, PpuStates, Planned, LastLinePlan, GoNext, Go, Until
  <2>3. Compares(p, q)
    BY <1>1, <1>27, <2>2 DEF PpuStates, Planned, LastLinePlan, LastLineSelectors, Compares, Compared
  <2>4. SameSources(p, q)
    BY <1>1, <1>27, <2>2 DEF PpuStates, Planned, LastLinePlan, LastLineSelectors, SameSources,
       Compared, DrawnBy, Tried, ZeroSelectors
  <2>5. QED BY <2>2, <2>3, <2>4
<1>28. CASE p.selector = "last_line_453"
  <2>1. q \in VBlankDot(p) BY <1>28 DEF DotOf, HBlankSelectors, VBlankSelectors
  <2>2. /\ q.selector = "last_line_454" /\ q.dots = p.dots + 1
        /\ q.mode = p.mode /\ q.line = p.line /\ q.lyc_irq = p.lyc_irq /\ q.first = p.first
    BY <1>1, <1>28, <2>1 DEF VBlankDot, PpuStates, Planned, LastLinePlan, GoNext, Go
  <2>3. Compares(p, q)
    BY <1>1, <1>28, <2>2 DEF PpuStates, Planned, LastLinePlan, LastLineSelectors, Compares, Compared
  <2>4. SameSources(p, q)
    BY <1>1, <1>28, <2>2 DEF PpuStates, Planned, LastLinePlan, LastLineSelectors, SameSources,
       Compared, DrawnBy, Tried, ZeroSelectors
  <2>5. QED BY <2>2, <2>3, <2>4
<1>29. CASE p.selector = "last_line_454"
  <2>1. q \in VBlankDot(p) BY <1>29 DEF DotOf, HBlankSelectors, VBlankSelectors
  <2>2. /\ q.selector = "last_line_455" /\ q.dots = p.dots + 1
        /\ q.mode = p.mode /\ q.line = p.line /\ q.lyc_irq = p.lyc_irq /\ q.first = p.first
    BY <1>1, <1>29, <2>1 DEF VBlankDot, PpuStates, Planned, LastLinePlan, GoNext, Go
  <2>3. Compares(p, q)
    BY <1>1, <1>29, <2>2 DEF PpuStates, Planned, LastLinePlan, LastLineSelectors, Compares, Compared
  <2>4. SameSources(p, q)
    BY <1>1, <1>29, <2>2 DEF PpuStates, Planned, LastLinePlan, LastLineSelectors, SameSources,
       Compared, DrawnBy, Tried, ZeroSelectors
  <2>5. QED BY <2>2, <2>3, <2>4
<1>30. CASE p.selector = "last_line_455"
  <2>1. q \in VBlankDot(p) BY <1>30 DEF DotOf, HBlankSelectors, VBlankSelectors
  <2>2. /\ q.selector = "oam_scan" /\ q.dots = 0 /\ q.mode = "OAM_SCAN"
        /\ q.line = p.line /\ q.lyc_irq = p.lyc_irq /\ q.first = p.first
    BY <1>1, <1>30, <2>1 DEF VBlankDot, PpuStates, Planned, LastLinePlan, GoNext, Go
  <2>3. Compares(p, q)
    BY <1>1, <1>30, <2>2 DEF PpuStates, Planned, LastLinePlan, LastLineSelectors, Compares, Compared
  <2>4. FrameBegins(p, q)
    BY <1>1, <1>30, <2>2 DEF PpuStates, Planned, LastLinePlan, LastLineSelectors, FrameBegins
  <2>5. QED BY <2>2, <2>3, <2>4
<1>31. p.selector \notin {"after_turn_on", "after_turn_on_78", "after_turn_on_79", "first_hblank"}
  BY DEF Planned, ScanPlan, FirstPlan
<1> QED BY <1>1, <1>2, <1>3, <1>4, <1>5, <1>6, <1>7, <1>8, <1>9, <1>10, <1>11, <1>12, <1>13, <1>14,
     <1>15, <1>16, <1>17, <1>18, <1>19, <1>20, <1>21, <1>22, <1>23, <1>24, <1>25, <1>26, <1>27,
     <1>28, <1>29, <1>30, <1>31 DEF Selectors, Planned, ScanPlan

(* Where LY counts, and how much. *)
LEMMA LineCounts ==
  ASSUME NEW p \in PpuStates
  PROVE  /\ p.line \in 0 .. Lines - 1 /\ p.dots \in Nat /\ p.mode \in Modes
         /\ DrawnBy(p) \in Nat /\ Tried(p) \in Nat /\ Compared(p) \in Int
  BY ConstantBounds DEF Bounds, PpuStates, DrawnBy, Tried, Compared

LEMMA DueCounts ==
  ASSUME NEW p \in PpuStates, NEW e \in SUBSET Sources PROVE Due(p, e) \in Nat
<1>1. \A b : One(b) \in Nat
  BY DEF One
<1> QED BY <1>1, LineCounts DEF Due

(* Between the turns nothing rises, and nothing more is due. *)
LEMMA SameCounts ==
  ASSUME NEW p \in PpuStates, NEW q \in PpuStates, SameSources(p, q),
         NEW e \in SUBSET Sources, NEW y \in Nat, NEW n \in Nat
  PROVE  /\ LineHigh(q, e, y) <=> LineHigh(p, e, y)
         /\ CountRight(p, e, y, n) => CountRight(q, e, y, n)
<1>1. LineHigh(q, e, y) <=> LineHigh(p, e, y)
  BY DEF SameSources, LineHigh
<1>2. Due(q, e) = Due(p, e)
  BY DEF SameSources, Due
<1>3. (Met(q, y) <=> Met(p, y)) /\ (Early(q, e, y) <=> Early(p, e, y))
  BY DEF SameSources, Met, Early
<1>4. One(Met(q, y)) = One(Met(p, y)) /\ One(Met(q, y) \/ Early(q, e, y)) = One(Met(p, y) \/ Early(p, e, y))
  BY <1>3 DEF One
<1> QED BY <1>1, <1>2, <1>4 DEF CountRight

(* A turn that raises the line does so once for each source, and where a   *)
(* request may be noted.                                                   *)
Turn(p, q) ==
  HBlankBegins(p, q) \/ LineBegins(p, q) \/ BlankLineBegins(p, q) \/ VBlankBegins(p, q) \/ LineZeroBegins(p, q)

LEMMA TurnRises ==
  ASSUME NEW p \in PpuStates, NEW q \in PpuStates, Turn(p, q),
         NEW e \in SUBSET Sources, NEW y \in Nat, Rises(p, q, e, y)
  PROVE  RisePlace(q, e, y)
<1> USE ConstantBounds DEF Bounds
<1>1. CASE HBlankBegins(p, q) \/ BlankLineBegins(p, q) \/ VBlankBegins(p, q) \/ LineZeroBegins(p, q)
  BY <1>1 DEF HBlankBegins, BlankLineBegins, VBlankBegins, LineZeroBegins, RisePlace
<1>2. CASE LineBegins(p, q)
  BY <1>2 DEF LineBegins, Rises, LineHigh, Compared, RisePlace
<1> QED BY <1>1, <1>2 DEF Turn

LEMMA TurnHolds ==
  ASSUME NEW p \in PpuStates, NEW q \in PpuStates, Turn(p, q),
         NEW e \in SUBSET Sources, NEW y \in Nat, RisePlace(p, e, y), LineHigh(p, e, y)
  PROVE  LineHigh(q, e, y)
<1>1. CASE VBlankBegins(p, q)
  BY <1>1 DEF VBlankBegins, RisePlace, LineHigh, Compared
<1>2. CASE HBlankBegins(p, q) \/ LineBegins(p, q) \/ BlankLineBegins(p, q) \/ LineZeroBegins(p, q)
  BY <1>2 DEF HBlankBegins, LineBegins, BlankLineBegins, LineZeroBegins, RisePlace
<1> QED BY <1>1, <1>2 DEF Turn

LEMMA TurnCounts ==
  ASSUME NEW p \in PpuStates, NEW q \in PpuStates, Turn(p, q),
         NEW e \in SUBSET Sources, NEW y \in Nat, NEW n \in Nat, CountRight(p, e, y, n)
  PROVE  CountRight(q, e, y, n + One(Rises(p, q, e, y)))
<1> USE ConstantBounds DEF Bounds
<1>1. CASE HBlankBegins(p, q)
  <2>1. /\ DrawnBy(p) = p.line /\ DrawnBy(q) = p.line + 1 /\ p.line \in Nat
        /\ Compared(p) = p.line /\ Compared(q) = p.line
        /\ Tried(p) = p.line /\ Tried(q) = p.line
    BY <1>1, LineCounts DEF HBlankBegins, DrawnBy, Compared, Tried
  <2>2. Due(q, e) = Due(p, e) + One("hblank" \in e)
    BY <1>1, <2>1 DEF HBlankBegins, Due, One
  <2>3. /\ Rises(p, q, e, y) => "hblank" \in e
        /\ "lyc_eq_ly" \notin e => (Rises(p, q, e, y) <=> "hblank" \in e)
    BY <1>1, <2>1 DEF HBlankBegins, Rises, LineHigh
  <2>4. (Met(q, y) <=> Met(p, y)) /\ ~Early(p, e, y)
    BY <1>1, <2>1 DEF HBlankBegins, Met, Early, ZeroSelectors
  <2> QED BY <2>2, <2>3, <2>4, DueCounts DEF CountRight, One
<1>2. CASE LineBegins(p, q)
  <2>1. /\ DrawnBy(p) = p.line /\ DrawnBy(q) = p.line /\ p.line \in Nat \ {0}
        /\ Compared(p) = p.line - 1 /\ Compared(q) = p.line
        /\ Tried(p) = p.line /\ Tried(q) = p.line
    BY <1>2, LineCounts DEF LineBegins, DrawnBy, Compared, Tried
  <2>2. Due(q, e) = Due(p, e)
    BY <1>2, <2>1 DEF LineBegins, Due, One
  <2>3. /\ Rises(p, q, e, y) => "lyc_eq_ly" \in e /\ "hblank" \notin e /\ y = p.line
        /\ e = {"lyc_eq_ly"} => (Rises(p, q, e, y) <=> y = p.line)
    BY <1>2, <2>1 DEF LineBegins, Rises, LineHigh
  <2>4. /\ Met(p, y) <=> 1 <= y /\ y <= p.line - 1
        /\ Met(q, y) <=> 1 <= y /\ y <= p.line
        /\ Early(p, e, y) => y = p.line /\ "hblank" \in e
    BY <1>2, <2>1 DEF LineBegins, Met, Early, ZeroSelectors
  <2> QED BY <2>1, <2>2, <2>3, <2>4, DueCounts DEF CountRight, One
<1>3. CASE BlankLineBegins(p, q)
  <2>1. /\ DrawnBy(p) = Rows /\ DrawnBy(q) = Rows /\ p.line \in Nat \ {0}
        /\ Compared(p) = p.line - 1 /\ Compared(q) = p.line
        /\ Tried(p) = Rows /\ Tried(q) = Rows
    BY <1>3, LineCounts DEF BlankLineBegins, DrawnBy, Compared, Tried
  <2>2. Due(q, e) = Due(p, e)
    BY <1>3, <2>1 DEF BlankLineBegins, Due, One
  <2>3. /\ Rises(p, q, e, y) => "lyc_eq_ly" \in e /\ y = p.line
        /\ e = {"lyc_eq_ly"} => (Rises(p, q, e, y) <=> y = p.line)
    BY <1>3, <2>1 DEF BlankLineBegins, Rises, LineHigh
  <2>4. /\ Met(p, y) <=> 1 <= y /\ y <= p.line - 1
        /\ Met(q, y) <=> 1 <= y /\ y <= p.line
        /\ ~Early(p, e, y)
    BY <1>3, <2>1 DEF BlankLineBegins, Met, Early, ZeroSelectors
  <2> QED BY <2>1, <2>2, <2>3, <2>4, DueCounts DEF CountRight, One
<1>4. CASE VBlankBegins(p, q)
  <2>1. /\ DrawnBy(p) = Rows /\ DrawnBy(q) = Rows
        /\ Compared(p) = Rows /\ Compared(q) = Rows
        /\ Tried(p) = Rows /\ Tried(q) = Rows
    BY <1>4 DEF VBlankBegins, DrawnBy, Compared, Tried
  <2>2. Due(q, e) = Due(p, e) + One("vblank" \in e /\ "hblank" \notin e)
    BY <1>4, <2>1 DEF VBlankBegins, Due, One
  <2>3. /\ Rises(p, q, e, y) => "vblank" \in e /\ "hblank" \notin e
        /\ "lyc_eq_ly" \notin e => (Rises(p, q, e, y) <=> "vblank" \in e /\ "hblank" \notin e)
    BY <1>4, <2>1 DEF VBlankBegins, Rises, LineHigh
  <2>4. /\ Met(q, y) <=> Met(p, y)
        /\ Early(p, e, y) => Met(p, y)
    BY <1>4, <2>1 DEF VBlankBegins, Met, Early, ZeroSelectors
  <2> QED BY <2>2, <2>3, <2>4, DueCounts DEF CountRight, One
<1>5. CASE LineZeroBegins(p, q)
  <2>1. /\ DrawnBy(p) = Rows /\ DrawnBy(q) = Rows
        /\ Compared(p) = Lines - 1 /\ Compared(q) = 0
        /\ Tried(p) = Rows /\ Tried(q) = Rows
    BY <1>5 DEF LineZeroBegins, DrawnBy, Compared, Tried
  <2>2. Due(q, e) = Due(p, e)
    BY <1>5, <2>1 DEF LineZeroBegins, Due, One
  <2>3. /\ Rises(p, q, e, y) => "lyc_eq_ly" \in e /\ y = 0
        /\ e = {"lyc_eq_ly"} => (Rises(p, q, e, y) <=> y = 0)
    BY <1>5, <2>1 DEF LineZeroBegins, Rises, LineHigh
  <2>4. /\ Met(p, y) <=> 1 <= y /\ y <= Lines - 1
        /\ Met(q, y) <=> y < Lines
        /\ ~Early(p, e, y)
    BY <1>5, <2>1 DEF LineZeroBegins, Met, Early, ZeroSelectors
  <2> QED BY <2>2, <2>3, <2>4, DueCounts DEF CountRight, One
<1> QED BY <1>1, <1>2, <1>3, <1>4, <1>5 DEF Turn

(* A scan that was tried: one more is due if it was raised; LYC may be met *)
(* a line early when HBlank holds the line.                                *)
LEMMA ScanCounts ==
  ASSUME NEW p \in PpuStates, NEW q \in PpuStates, ScanTried(p, q),
         NEW e \in SUBSET Sources, NEW y \in Nat, NEW n \in Nat, CountRight(p, e, y, n)
  PROVE  /\ LineHigh(q, e, y) <=> LineHigh(p, e, y)
         /\ CountRight(q, e, y, n + One("oam" \in e /\ ~LineHigh(p, e, y)))
         /\ "lyc_eq_ly" \in e /\ "oam" \notin e /\ "hblank" \in e /\ y = p.line + 1 => CountRight(q, e, y, n + 1)
<1> USE ConstantBounds DEF Bounds
<1>1. /\ DrawnBy(p) = p.line + 1 /\ DrawnBy(q) = p.line + 1 /\ p.line \in Nat
      /\ Compared(p) = p.line /\ Compared(q) = p.line
      /\ Tried(p) = p.line /\ Tried(q) = p.line + 1
  BY LineCounts DEF ScanTried, DrawnBy, Compared, Tried
<1>2. LineHigh(q, e, y) <=> LineHigh(p, e, y)
  BY <1>1 DEF ScanTried, LineHigh
<1>3. Due(q, e) = Due(p, e) + One("oam" \in e /\ "hblank" \notin e)
  BY <1>1 DEF ScanTried, Due, One
<1>4. /\ ~LineHigh(p, e, y) => "hblank" \notin e
      /\ "lyc_eq_ly" \notin e => (~LineHigh(p, e, y) <=> "hblank" \notin e)
  BY <1>1 DEF ScanTried, LineHigh
<1>5. /\ Met(p, y) <=> 1 <= y /\ y <= p.line
      /\ Met(q, y) <=> 1 <= y /\ y <= p.line
      /\ ~Early(p, e, y)
      /\ Early(q, e, y) <=> "hblank" \in e /\ y = p.line + 1
  BY <1>1 DEF ScanTried, Met, Early, ZeroSelectors
<1> QED BY <1>1, <1>2, <1>3, <1>4, <1>5, DueCounts DEF CountRight, One

(* A frame begins with the scan of line 0. *)
LEMMA FrameCounts ==
  ASSUME NEW p \in PpuStates, NEW q \in PpuStates, FrameBegins(p, q),
         NEW e \in SUBSET Sources, NEW y \in Nat
  PROVE  /\ LineHigh(p, e, y) <=> ("lyc_eq_ly" \in e /\ y = 0) \/ "vblank" \in e
         /\ LineHigh(q, e, y) <=> "lyc_eq_ly" \in e /\ y = 0
         /\ CountRight(q, e, y, One("oam" \in e /\ ~LineHigh(p, e, y)))
<1> USE ConstantBounds DEF Bounds
<1>1. Compared(p) = 0 /\ Compared(q) = 0 /\ DrawnBy(q) = 0 /\ Tried(q) = 0
  BY DEF FrameBegins, Compared, DrawnBy, Tried
<1>2. /\ LineHigh(p, e, y) <=> ("lyc_eq_ly" \in e /\ y = 0) \/ "vblank" \in e
      /\ LineHigh(q, e, y) <=> "lyc_eq_ly" \in e /\ y = 0
  BY <1>1 DEF FrameBegins, LineHigh
<1>3. Due(q, e) = One("oam" \in e /\ "vblank" \notin e) /\ ~Met(q, y)
  BY <1>1 DEF FrameBegins, Due, Met, ZeroSelectors, One
<1> QED BY <1>2, <1>3 DEF CountRight, One

(* What a frame knows while nothing disturbs it: STAT's flag and line are  *)
(* as LY and the mode say, a request noted is one of a line that just      *)
(* rose, and those made and noted are those due.  The first dot of VBlank  *)
(* is still of the frame before.                                           *)
Unsettled == Settling /\ ppu.dots = 0

LineFollows ==
  /\ stat.lyc_eq_ly <=> lyc = Compared(ppu)
  /\ pending_stat_irq => LineHigh(ppu, stat.enabled, lyc) /\ RisePlace(ppu, stat.enabled, lyc)
  /\ ~pending_stat_irq =>
       /\ LineHigh(ppu, stat.enabled, lyc) => last_stat_irq
       /\ last_stat_irq => LineHigh(ppu, stat.enabled, lyc) \/ StalePlace(ppu) \/ Settling

Undisturbed == frame.quiet # "no" => lcdc.enable /\ ~ppu.first /\ last_lyc = lyc /\ (Unsettled \/ LineFollows)

RequestsCounted ==
  frame.quiet = "yes" =>
    /\ frame.vblank = One(ppu.mode = "VBLANK")
    /\ CountRight(ppu, stat.enabled, lyc, frame.stat + One(pending_stat_irq))

FrameRecords == [quiet : {"no", "settling", "yes"}, stat : Nat, vblank : Nat]

FrameInv ==
  /\ frame \in FrameRecords
  /\ pending_stat_irq => last_stat_irq
  /\ Undisturbed /\ RequestsCounted

(* What a dot does to all this. *)
LEMMA DotTells ==
  ASSUME PpuInv, NEW q \in DotOf(ppu), NEW dma \in BOOLEAN, Dot(q, dma)
  PROVE  /\ ppu' = q /\ lcdc'.enable
         /\ stat'.enabled = stat.enabled /\ lyc' = lyc /\ last_lyc' = lyc
         /\ stat'.lyc_eq_ly <=> IsLycEqLy(q)
         /\ PendingAfterOam => ~pending_stat_irq' /\ (last_stat_irq' <=> LastAfterOam)
         /\ ~PendingAfterOam =>
              /\ pending_stat_irq' <=> ~LastAfterOam /\ StatLine(q)
              /\ last_stat_irq' <=> StatLine(q)
         /\ "stat" \in raised' <=> PendingAfterOam
         /\ "vblank" \in raised' <=> EntersVBlank
         /\ CountFrame(raised')
<1>1. /\ lcdc \in [enable : BOOLEAN, bits : Settings] /\ stat \in [enabled : Enables, lyc_eq_ly : BOOLEAN]
      /\ last_stat_irq \in BOOLEAN
  BY DEF PpuInv, PpuTypeOK
<1>2. IsLycEqLy(q) \in BOOLEAN
  BY <1>1 DEF IsLycEqLy
<1>3. LastAfterOam \in BOOLEAN /\ StatLine(q) \in BOOLEAN
  BY <1>1 DEF LastAfterOam, OamIrq, StatLine
<1>4. ppu' = q /\ lyc' = lyc /\ last_lyc' = lyc /\ CountFrame(raised') /\ RaiseStatIrq(q) /\ lcdc.enable
  BY DEF Dot
<1>5. lcdc'.enable
  BY <1>4, WriteTicks DEF Dot
<1>6. stat'.enabled = stat.enabled /\ (stat'.lyc_eq_ly <=> IsLycEqLy(q))
  BY <1>1, <1>2, <1>4 DEF RaiseStatIrq
<1>7. /\ PendingAfterOam => ~pending_stat_irq' /\ (last_stat_irq' <=> LastAfterOam)
      /\ ~PendingAfterOam =>
           /\ pending_stat_irq' <=> ~LastAfterOam /\ StatLine(q)
           /\ last_stat_irq' <=> StatLine(q)
  BY <1>3, <1>4 DEF RaiseStatIrq
<1>8. ("stat" \in raised' <=> PendingAfterOam) /\ ("vblank" \in raised' <=> EntersVBlank)
  BY DEF Dot
<1> QED BY <1>4, <1>5, <1>6, <1>7, <1>8

LEMMA CountedTells ==
  ASSUME NEW requests, NEW f \in FrameRecords
  PROVE  /\ Counted(requests, f) \in FrameRecords /\ Counted(requests, f).quiet = f.quiet
         /\ Counted(requests, f).stat = f.stat + One("stat" \in requests)
         /\ Counted(requests, f).vblank = f.vblank + One("vblank" \in requests)
<1>1. /\ f.stat \in Nat /\ f.vblank \in Nat
      /\ f.stat + One("stat" \in requests) \in Nat /\ f.vblank + One("vblank" \in requests) \in Nat
  BY DEF FrameRecords, One
<1>2. /\ (IF "stat" \in requests THEN f.stat + 1 ELSE f.stat) = f.stat + One("stat" \in requests)
      /\ (IF "vblank" \in requests THEN f.vblank + 1 ELSE f.vblank) = f.vblank + One("vblank" \in requests)
  BY <1>1 DEF One
<1>3. Counted(requests, f) = [f EXCEPT !.stat = f.stat + One("stat" \in requests),
                                      !.vblank = f.vblank + One("vblank" \in requests)]
  BY <1>2 DEF Counted, FrameRecords
<1> QED BY <1>1, <1>3 DEF FrameRecords

LEMMA FrameTells ==
  ASSUME frame \in FrameRecords, CountFrame(raised'),
         "stat" \in raised' <=> PendingAfterOam, "vblank" \in raised' <=> EntersVBlank
  PROVE  /\ frame' \in FrameRecords
         /\ EntersFrame /\ frame.quiet # "no" =>
              frame'.quiet = "yes" /\ frame'.stat = One(PendingAfterOam) /\ frame'.vblank = One(EntersVBlank)
         /\ ~EntersFrame /\ frame.quiet = "yes" =>
              /\ frame'.quiet = "yes" /\ frame'.stat = frame.stat + One(PendingAfterOam)
              /\ frame'.vblank = frame.vblank + One(EntersVBlank)
         /\ ~EntersFrame /\ frame.quiet = "settling" => frame' = frame
         /\ frame.quiet = "no" => frame'.quiet = IF EntersVBlank THEN "settling" ELSE "no"
<1>1. CASE EntersFrame /\ frame.quiet # "no"
  <2>1. frame' = Counted(raised', [quiet |-> "yes", stat |-> 0, vblank |-> 0])
    BY <1>1 DEF CountFrame
  <2>2. [quiet |-> "yes", stat |-> 0, vblank |-> 0] \in FrameRecords
    BY DEF FrameRecords
  <2> QED BY <1>1, <2>1, <2>2, CountedTells DEF One
<1>2. CASE ~EntersFrame /\ frame.quiet = "yes"
  <2>1. frame' = Counted(raised', frame)
    BY <1>2 DEF CountFrame
  <2> QED BY <1>2, <2>1, CountedTells DEF One
<1>3. CASE frame.quiet = "no"
  BY <1>3 DEF CountFrame, FrameRecords
<1>4. CASE ~EntersFrame /\ frame.quiet = "settling"
  BY <1>4 DEF CountFrame
<1> QED BY <1>1, <1>2, <1>3, <1>4 DEF FrameRecords

(* STAT's line after a dot is the line of the dot. *)
LEMMA LineTells ==
  ASSUME PpuInv, NEW q, Compares(ppu, q), last_lyc = lyc,
         ppu.selector = "vblank" \/ (stat.lyc_eq_ly <=> lyc = Compared(ppu))
  PROVE  /\ IsLycEqLy(q) <=> lyc = Compared(q)
         /\ StatLine(q) <=> LineHigh(q, stat.enabled, lyc)
<1>1. last_ly = ppu.ly
  BY DEF PpuInv
<1>2. IsLycEqLy(q) <=> lyc = Compared(q)
  BY <1>1 DEF Compares, IsLycEqLy
<1> QED BY <1>2 DEF StatLine, LineHigh

LEMMA FrameFacts ==
  ASSUME PpuInv, FrameInv, frame.quiet # "no"
  PROVE  /\ ppu \in PpuStates /\ Planned(ppu) /\ ~ppu.first /\ last_lyc = lyc /\ last_ly = ppu.ly
         /\ stat.enabled \in SUBSET Sources /\ lyc \in Nat /\ frame \in FrameRecords
         /\ \A q \in DotOf(ppu) : q \in PpuStates
<1>1. stat \in [enabled : Enables, lyc_eq_ly : BOOLEAN] /\ lyc \in Lycs /\ Planned(ppu) /\ last_ly = ppu.ly
  BY DEF PpuInv, PpuTypeOK
<1>2. stat.enabled \in SUBSET Sources /\ lyc \in Nat
  BY <1>1, PpuAssumption
<1>3. ~ppu.first /\ last_lyc = lyc /\ frame \in FrameRecords
  BY DEF FrameInv, Undisturbed
<1>4. \A q \in DotOf(ppu) : q \in PpuStates
  BY <1>1, DotStep DEF Planned
<1> QED BY <1>1, <1>2, <1>3, <1>4 DEF Planned

(* A dot that tries no scan: a request noted is made, one of a line that   *)
(* rises is noted.                                                         *)
LEMMA PlainDot ==
  ASSUME PpuInv, FrameInv, frame.quiet # "no", LineFollows, ~TriesOamIrq,
         NEW q \in DotOf(ppu), NEW dma \in BOOLEAN, Dot(q, dma)
  PROVE  Undisturbed' /\ RequestsCounted'
<1> DEFINE e == stat.enabled
           high == LineHigh(ppu, e, lyc)
           high1 == LineHigh(q, e, lyc)
<1>1. /\ ppu \in PpuStates /\ Planned(ppu) /\ ~ppu.first /\ last_lyc = lyc /\ q \in PpuStates
      /\ e \in SUBSET Sources /\ lyc \in Nat /\ frame \in FrameRecords
  BY FrameFacts
<1>2. Compares(ppu, q) /\ ~q.first /\ (SameSources(ppu, q) \/ Turn(ppu, q))
  BY <1>1, DotTurns DEF Turn, TriesOamIrq, EntersFrame, ScanTried, FrameBegins
<1>3. (IsLycEqLy(q) <=> lyc = Compared(q)) /\ (StatLine(q) <=> high1)
  BY <1>1, <1>2, LineTells DEF LineFollows
<1>4. (PendingAfterOam <=> pending_stat_irq) /\ (LastAfterOam <=> last_stat_irq)
  BY DEF PendingAfterOam, LastAfterOam
<1>5. RisePlace(ppu, e, lyc) /\ high => high1
  BY <1>1, <1>2, SameCounts, TurnHolds
<1>6. ~high /\ high1 => RisePlace(q, e, lyc)
  BY <1>1, <1>2, SameCounts, TurnRises DEF Rises
<1>7. StalePlace(ppu) \/ Settling => (high1 <=> high)
  <2>1. ASSUME StalePlace(ppu) \/ Settling PROVE ~Turn(ppu, q)
    BY <2>1 DEF StalePlace, Settling, Turn, HBlankBegins, LineBegins, BlankLineBegins, VBlankBegins, LineZeroBegins
  <2> QED BY <1>1, <1>2, <2>1, SameCounts
<1>8. /\ pending_stat_irq => ~pending_stat_irq' /\ last_stat_irq' /\ high /\ high1
      /\ ~pending_stat_irq => (pending_stat_irq' <=> ~high /\ high1) /\ (last_stat_irq' <=> high1)
  BY <1>3, <1>4, <1>5, <1>7, DotTells DEF LineFollows, FrameInv
<1>9. LineFollows' /\ Undisturbed'
  BY <1>1, <1>2, <1>3, <1>6, <1>8, DotTells DEF LineFollows, Undisturbed
<1>10. RequestsCounted'
  <2>1. SUFFICES ASSUME frame'.quiet = "yes" PROVE RequestsCounted'
    BY DEF RequestsCounted
  <2>2. /\ frame.quiet = "yes" /\ ~EntersFrame
        /\ frame'.stat = frame.stat + One(PendingAfterOam) /\ frame'.vblank = frame.vblank + One(EntersVBlank)
        /\ frame.stat \in Nat
    BY <1>1, <2>1, DotTells, FrameTells DEF TriesOamIrq, FrameRecords
  <2>3. CountRight(ppu, e, lyc, frame.stat + One(pending_stat_irq)) /\ frame.vblank = One(ppu.mode = "VBLANK")
    BY <2>2 DEF FrameInv, RequestsCounted
  <2>4. CountRight(q, e, lyc, frame.stat + One(pending_stat_irq) + One(~high /\ high1))
    <3>1. frame.stat + One(pending_stat_irq) \in Nat
      BY <2>2 DEF One
    <3>2. CASE SameSources(ppu, q)
      BY <1>1, <2>3, <3>1, <3>2, SameCounts DEF One
    <3>3. CASE Turn(ppu, q)
      BY <1>1, <2>3, <3>1, <3>3, TurnCounts DEF Rises
    <3> QED BY <1>2, <3>2, <3>3
  <2>5. frame'.stat + One(pending_stat_irq') = frame.stat + One(pending_stat_irq) + One(~high /\ high1)
    BY <1>4, <1>8, <2>2 DEF One
  <2>6. frame'.vblank = One(q.mode = "VBLANK")
    BY <1>2, <2>2, <2>3 DEF One, EntersVBlank, SameSources, Turn, HBlankBegins, LineBegins,
       BlankLineBegins, VBlankBegins, LineZeroBegins
  <2> QED BY <2>4, <2>5, <2>6, DotTells DEF RequestsCounted
<1> QED BY <1>9, <1>10

(* The first dot of VBlank, after whatever was enabled before it. *)
LEMMA SettlingDot ==
  ASSUME PpuInv, FrameInv, Unsettled, NEW q \in DotOf(ppu), NEW dma \in BOOLEAN, Dot(q, dma)
  PROVE  Undisturbed' /\ RequestsCounted'
<1>1. /\ frame.quiet = "settling" /\ ppu.selector = "vblank" /\ ppu.dots = 0
      /\ ppu \in PpuStates /\ Planned(ppu) /\ ~ppu.first /\ last_lyc = lyc /\ frame \in FrameRecords
  BY FrameFacts DEF Unsettled, Settling
<1>2. Compares(ppu, q) /\ ~q.first
  BY <1>1, DotTurns
<1>3. (IsLycEqLy(q) <=> lyc = Compared(q)) /\ (StatLine(q) <=> LineHigh(q, stat.enabled, lyc))
  BY <1>1, <1>2, LineTells
<1>4. q.selector = "vblank" /\ q.dots = 1
  <2>1. q \in VBlankDot(ppu)
    BY <1>1 DEF DotOf, HBlankSelectors, VBlankSelectors
  <2>2. ppu.dots + 1 # Sync + 1
    BY <1>1, ConstantBounds DEF Bounds
  <2>3. q = GoNext(ppu, "vblank")
    BY <1>1, <2>1, <2>2 DEF VBlankDot
  <2> QED BY <1>1, <2>3 DEF GoNext, Go, PpuStates
<1>5. ~TriesOamIrq /\ ~EntersFrame
  BY <1>1 DEF TriesOamIrq, EntersFrame
<1>6. frame' = frame
  BY <1>1, <1>5, DotTells, FrameTells
<1>7. Settling' /\ RisePlace(q, stat.enabled, lyc)
  BY <1>1, <1>4, <1>6, DotTells DEF Settling, RisePlace
<1>8. /\ pending_stat_irq => ~pending_stat_irq' /\ last_stat_irq'
      /\ ~pending_stat_irq => /\ pending_stat_irq' <=> ~last_stat_irq /\ LineHigh(q, stat.enabled, lyc)
                              /\ last_stat_irq' <=> LineHigh(q, stat.enabled, lyc)
  BY <1>3, <1>5, DotTells DEF PendingAfterOam, LastAfterOam, FrameInv
<1>9. LineFollows'
  BY <1>3, <1>7, <1>8, DotTells DEF LineFollows
<1> QED BY <1>1, <1>2, <1>6, <1>9, DotTells DEF Undisturbed, RequestsCounted

(* The scans of the rows but the first are tried while HBlank lasts. *)
LEMMA ScanDotTried ==
  ASSUME PpuInv, FrameInv, frame.quiet # "no", TriesOamIrq, ~EntersFrame,
         NEW q \in DotOf(ppu), NEW dma \in BOOLEAN, Dot(q, dma)
  PROVE  Undisturbed' /\ RequestsCounted'
<1> DEFINE e == stat.enabled
           high == LineHigh(ppu, e, lyc)
           early == ppu.selector = "hblank_452" /\ "lyc_eq_ly" \in e /\ lyc = ppu.line + 1 /\ "oam" \notin e
<1> USE ConstantBounds DEF Bounds
<1>1. /\ ppu \in PpuStates /\ Planned(ppu) /\ ~ppu.first /\ last_lyc = lyc /\ last_ly = ppu.ly /\ q \in PpuStates
      /\ e \in SUBSET Sources /\ lyc \in Nat /\ frame \in FrameRecords
  BY FrameFacts
<1>2. Compares(ppu, q) /\ ~q.first /\ ScanTried(ppu, q)
  BY <1>1, DotTurns DEF TriesOamIrq, EntersFrame, SameSources, HBlankBegins, LineBegins,
     BlankLineBegins, VBlankBegins, LineZeroBegins, FrameBegins
<1>3. /\ ~Settling /\ ~Unsettled /\ ~StalePlace(ppu) /\ ~RisePlace(ppu, e, lyc)
      /\ Compared(ppu) = ppu.line /\ ppu.line \in Nat /\ last_ly = ppu.line
  BY <1>1, <1>2 DEF ScanTried, Unsettled, Settling, StalePlace, RisePlace, Compared
<1>4. LineFollows
  BY <1>3 DEF FrameInv, Undisturbed
<1>5. ~pending_stat_irq /\ (last_stat_irq <=> high)
  BY <1>3, <1>4 DEF LineFollows
<1>6. (LineHigh(q, e, lyc) <=> high) /\ ("lyc_eq_ly" \in e /\ lyc = ppu.line => high) /\ ("hblank" \in e => high)
  BY <1>2, <1>3 DEF ScanTried, LineHigh, Compared
<1>7. (IsLycEqLy(q) <=> lyc = Compared(q)) /\ (StatLine(q) <=> high)
  BY <1>1, <1>2, <1>4, <1>6, LineTells DEF LineFollows
<1>8. PendingAfterOam <=> "oam" \in e /\ ~high
  BY <1>1, <1>3, <1>5, <1>6 DEF PendingAfterOam, OamIrq
<1>9. ~PendingAfterOam => (LastAfterOam <=> high /\ ~early)
  <2>2. CASE ppu.selector = "hblank_452" /\ "lyc_eq_ly" \in e /\ lyc = ppu.line + 1
    BY <1>1, <1>3, <1>8, <2>2 DEF LastAfterOam, OamIrq
  <2>3. CASE ~(ppu.selector = "hblank_452" /\ "lyc_eq_ly" \in e /\ lyc = ppu.line + 1)
    <3>1. ppu.selector = "hblank_452" \/ ppu.selector = "last_hblank"
      BY <1>2 DEF ScanTried
    <3>2. LastAfterOam = last_stat_irq
      BY <1>1, <1>3, <2>3, <3>1 DEF LastAfterOam
    <3> QED BY <1>5, <2>3, <3>2
  <2> QED BY <2>2, <2>3
<1>10. /\ pending_stat_irq' <=> high /\ early
       /\ last_stat_irq' => high \/ q.selector = "hblank_453"
       /\ high => last_stat_irq'
  BY <1>1, <1>2, <1>3, <1>5, <1>7, <1>8, <1>9, DotTells DEF LastAfterOam, ScanTried
<1>11. high /\ early => "hblank" \in e /\ RisePlace(q, e, lyc)
  BY <1>2, <1>3 DEF LineHigh, ScanTried, RisePlace
<1>12. LineFollows' /\ Undisturbed'
  BY <1>1, <1>2, <1>6, <1>7, <1>10, <1>11, DotTells DEF LineFollows, Undisturbed, StalePlace
<1>13. RequestsCounted'
  <2>1. SUFFICES ASSUME frame'.quiet = "yes" PROVE RequestsCounted'
    BY DEF RequestsCounted
  <2>2. /\ frame.quiet = "yes" /\ ~EntersVBlank
        /\ frame'.stat = frame.stat + One(PendingAfterOam) /\ frame'.vblank = frame.vblank + One(EntersVBlank)
        /\ frame.stat \in Nat /\ frame.vblank \in Nat
    BY <1>1, <1>2, <2>1, DotTells, FrameTells DEF FrameRecords, EntersVBlank, ScanTried
  <2>3. CountRight(ppu, e, lyc, frame.stat) /\ frame.vblank = One(ppu.mode = "VBLANK")
    BY <1>5, <2>2 DEF FrameInv, RequestsCounted, One
  <2>4. /\ CountRight(q, e, lyc, frame.stat + One("oam" \in e /\ ~high))
        /\ high /\ early => CountRight(q, e, lyc, frame.stat + 1)
    BY <1>1, <1>2, <1>11, <2>2, <2>3, ScanCounts
  <2>5. frame'.stat + One(pending_stat_irq') =
          IF high /\ early THEN frame.stat + 1 ELSE frame.stat + One("oam" \in e /\ ~high)
    BY <1>8, <1>10, <2>2 DEF One
  <2>6. frame'.vblank = One(q.mode = "VBLANK")
    BY <1>2, <2>2, <2>3 DEF One, ScanTried
  <2> QED BY <2>4, <2>5, <2>6, DotTells DEF RequestsCounted
<1> QED BY <1>12, <1>13

(* The scan of line 0, tried while VBlank lasts, is of the new frame. *)
LEMMA FrameDot ==
  ASSUME PpuInv, FrameInv, frame.quiet # "no", EntersFrame,
         NEW q \in DotOf(ppu), NEW dma \in BOOLEAN, Dot(q, dma)
  PROVE  Undisturbed' /\ RequestsCounted'
<1> DEFINE e == stat.enabled
           high == LineHigh(ppu, e, lyc)
<1>1. /\ ppu \in PpuStates /\ Planned(ppu) /\ ~ppu.first /\ last_lyc = lyc /\ last_ly = ppu.ly /\ q \in PpuStates
      /\ e \in SUBSET Sources /\ lyc \in Nat /\ frame \in FrameRecords
  BY FrameFacts
<1>2. Compares(ppu, q) /\ ~q.first /\ FrameBegins(ppu, q)
  BY <1>1, DotTurns DEF EntersFrame, SameSources, HBlankBegins, ScanTried, LineBegins,
     BlankLineBegins, VBlankBegins, LineZeroBegins
<1>3. ~Settling /\ ~Unsettled /\ ~StalePlace(ppu) /\ ~RisePlace(ppu, e, lyc) /\ last_ly = 0
  BY <1>1, <1>2 DEF FrameBegins, Unsettled, Settling, StalePlace, RisePlace
<1>4. LineFollows
  BY <1>3 DEF FrameInv, Undisturbed
<1>5. ~pending_stat_irq /\ (last_stat_irq <=> high)
  BY <1>3, <1>4 DEF LineFollows
<1>6. /\ high <=> ("lyc_eq_ly" \in e /\ lyc = 0) \/ "vblank" \in e
      /\ LineHigh(q, e, lyc) <=> "lyc_eq_ly" \in e /\ lyc = 0
      /\ CountRight(q, e, lyc, One("oam" \in e /\ ~high))
  BY <1>1, <1>2, FrameCounts
<1>7. (IsLycEqLy(q) <=> lyc = Compared(q)) /\ (StatLine(q) <=> LineHigh(q, e, lyc))
  BY <1>1, <1>2, <1>4, LineTells DEF LineFollows
<1>8. PendingAfterOam <=> "oam" \in e /\ ~high
  BY <1>1, <1>3, <1>5, <1>6 DEF PendingAfterOam, OamIrq, TriesOamIrq
<1>9. LineHigh(q, e, lyc) => LastAfterOam /\ ~PendingAfterOam
  BY <1>1, <1>3, <1>5, <1>6, <1>8 DEF LastAfterOam, OamIrq
<1>10. ~pending_stat_irq' /\ (LineHigh(q, e, lyc) => last_stat_irq')
  BY <1>7, <1>8, <1>9, DotTells
<1>11. LineFollows' /\ Undisturbed'
  BY <1>1, <1>2, <1>7, <1>10, DotTells DEF LineFollows, Undisturbed, StalePlace, FrameBegins
<1>12. frame'.quiet = "yes" /\ frame'.stat = One(PendingAfterOam) /\ frame'.vblank = One(EntersVBlank)
  BY <1>1, DotTells, FrameTells
<1>13. frame'.vblank = One(q.mode = "VBLANK")
  BY <1>2, <1>12 DEF EntersVBlank, FrameBegins, One
<1>14. frame'.stat + One(pending_stat_irq') = One("oam" \in e /\ ~high)
  BY <1>8, <1>10, <1>12 DEF One
<1> QED BY <1>6, <1>11, <1>13, <1>14, DotTells DEF RequestsCounted

LEMMA FrameDotKeeps ==
  ASSUME PpuInv, FrameInv, NEW q \in DotOf(ppu), NEW dma \in BOOLEAN, Dot(q, dma)
  PROVE  FrameInv'
<1>1. frame \in FrameRecords /\ frame' \in FrameRecords
  BY DotTells, FrameTells DEF FrameInv
<1>2. pending_stat_irq' => last_stat_irq'
  BY DotTells
<1>3. ASSUME frame.quiet # "no" PROVE Undisturbed' /\ RequestsCounted'
  BY <1>3, PlainDot, SettlingDot, ScanDotTried, FrameDot DEF FrameInv, Undisturbed, TriesOamIrq
<1>4. ASSUME frame.quiet = "no" PROVE Undisturbed' /\ RequestsCounted'
  <2>1. CASE ~EntersVBlank
    BY <1>1, <1>4, <2>1, DotTells, FrameTells DEF Undisturbed, RequestsCounted
  <2>2. CASE EntersVBlank
    <3>1. frame'.quiet = "settling"
      BY <1>1, <1>4, <2>2, DotTells, FrameTells
    <3>2. Planned(ppu) /\ ppu \in PpuStates /\ ~ppu.first /\ ppu.selector = "last_hblank_455"
      BY <2>2 DEF PpuInv, Planned, LastHBlankPlan, EntersVBlank
    <3>3. q = [Go(ppu, "vblank", 0) EXCEPT !.mode = "VBLANK"]
      BY <3>2 DEF DotOf, HBlankSelectors, VBlankSelectors, HBlankDot
    <3>4. q.selector = "vblank" /\ q.dots = 0 /\ ~q.first
      BY <3>2, <3>3 DEF Go, PpuStates
    <3>5. Unsettled'
      BY <3>1, <3>4, DotTells DEF Unsettled, Settling
    <3> QED BY <3>1, <3>4, <3>5, DotTells DEF Undisturbed, RequestsCounted
  <2> QED BY <2>1, <2>2
<1> QED BY <1>1, <1>2, <1>3, <1>4 DEF FrameInv

(* A write disturbs the frame, a change of speed does not, and a PPU that  *)
(* is off draws none.                                                      *)
LEMMA FrameInitially == PpuInit => FrameInv
  BY DEF PpuInit, NoFrame, FrameInv, FrameRecords, Undisturbed, RequestsCounted

LEMMA FrameKept == PpuInv /\ FrameInv /\ [PpuNext]_ppuVars => FrameInv'
<1> SUFFICES ASSUME PpuInv, FrameInv, [PpuNext]_ppuVars PROVE FrameInv'
  OBVIOUS
<1>1. CASE PpuWrite
  <2>1. frame' = NoFrame /\ pending_stat_irq' = pending_stat_irq /\ last_stat_irq' = last_stat_irq
    BY <1>1 DEF PpuWrite, WriteLcdc, WriteStat, WriteLyc, Disturbed
  <2> QED BY <2>1 DEF NoFrame, FrameInv, FrameRecords, Undisturbed, RequestsCounted
<1>2. CASE ChangeSpeed \/ UNCHANGED ppuVars
  <2>1. /\ frame' = frame /\ pending_stat_irq' = pending_stat_irq /\ last_stat_irq' = last_stat_irq
        /\ lcdc' = lcdc /\ ppu' = ppu /\ stat' = stat /\ lyc' = lyc /\ last_lyc' = last_lyc
    BY <1>2 DEF ChangeSpeed, ppuVars, irqVars
  <2> QED BY <2>1 DEF FrameInv, FrameRecords, Undisturbed, RequestsCounted, LineFollows, Unsettled, Settling
<1>3. CASE TickOff
  <2>1. frame' = frame /\ pending_stat_irq' = pending_stat_irq /\ last_stat_irq' = last_stat_irq
        /\ frame.quiet = "no"
    BY <1>3 DEF TickOff, irqVars, FrameInv, Undisturbed
  <2> QED BY <2>1 DEF FrameInv, FrameRecords, Undisturbed, RequestsCounted
<1> QED BY <1>1, <1>2, <1>3, FrameDotKeeps DEF PpuNext, PpuTick

THEOREM FrameInvariant == PpuSpec => [](PpuInv /\ FrameInv)
<1>1. PpuInit => PpuInv /\ FrameInv
  BY PpuInitial, FrameInitially
<1>2. (PpuInv /\ FrameInv) /\ [PpuNext]_ppuVars => (PpuInv /\ FrameInv)'
  BY PpuStep, FrameKept
<1> QED BY <1>1, <1>2, PTL DEF PpuSpec

(* A frame no write disturbs requests VBlank once, and STAT as often as    *)
(* its enabled sources say, for lines of any length, frames of any number  *)
(* of rows and every value of LYC.                                         *)
LEMMA FrameEnds ==
  ASSUME PpuInv, FrameInv, frame.quiet = "yes", EntersFrame
  PROVE  frame.vblank = 1 /\ frame.stat \in Expected(stat.enabled)
<1> DEFINE e == stat.enabled
<1> USE ConstantBounds DEF Bounds
<1>1. /\ ppu.selector = "last_line_455" /\ ppu.mode = "VBLANK" /\ ppu.dots = Sync + 3
      /\ e \in SUBSET Sources /\ lyc \in Nat /\ frame.stat \in Nat
  BY FrameFacts DEF EntersFrame, Planned, LastLinePlan, LastLineSelectors, FrameRecords
<1>2. ~pending_stat_irq
  BY <1>1 DEF FrameInv, Undisturbed, Unsettled, Settling, LineFollows, RisePlace
<1>3. frame.vblank = 1 /\ CountRight(ppu, e, lyc, frame.stat)
  BY <1>1, <1>2 DEF FrameInv, RequestsCounted, One
<1>4. /\ Due(ppu, e) = One("oam" \in e /\ "vblank" \notin e) + One("vblank" \in e /\ "hblank" \notin e)
                         + (IF "hblank" \in e \/ "oam" \in e THEN Rows ELSE 0)
      /\ Met(ppu, lyc) <=> lyc < Lines
      /\ ~Early(ppu, e, lyc)
  BY <1>1 DEF Due, DrawnBy, Tried, Met, Early, ZeroSelectors, One
<1>5. CASE "lyc_eq_ly" \notin e
  <2>1. frame.stat = Due(ppu, e)
    BY <1>3, <1>5 DEF CountRight
  <2>2. e \in {{}, {"vblank"}, {"hblank"}, {"hblank", "vblank"}, {"hblank", "vblank", "oam"},
               {"oam"}, {"hblank", "oam"}, {"vblank", "oam"}}
    BY <1>1, <1>5 DEF Sources
  <2>3. CASE e = {}
    BY <1>3, <1>4, <2>1, <2>3 DEF Expected, One
  <2>4. CASE e = {"vblank"}
    BY <1>3, <1>4, <2>1, <2>4 DEF Expected, One
  <2>5. CASE e \in {{"hblank"}, {"hblank", "vblank"}, {"hblank", "vblank", "oam"}}
    <3>1. "hblank" \in e /\ ("oam" \in e => "vblank" \in e)
      BY <2>5
    <3>2. Expected(e) = {Rows}
      BY <2>5, <3>1 DEF Expected
    <3> QED BY <1>3, <1>4, <2>1, <3>1, <3>2 DEF One
  <2>6. CASE e \in {{"oam"}, {"hblank", "oam"}, {"vblank", "oam"}}
    <3>1. "oam" \in e /\ ("vblank" \in e => "hblank" \notin e)
      BY <2>6
    <3>2. Expected(e) = {Rows + 1}
      BY <2>6, <3>1 DEF Expected
    <3> QED BY <1>3, <1>4, <2>1, <3>1, <3>2 DEF One
  <2> QED BY <2>2, <2>3, <2>4, <2>5, <2>6
<1>6. CASE e = {"lyc_eq_ly"}
  BY <1>3, <1>4, <1>6 DEF CountRight, Expected, One
<1>7. CASE "lyc_eq_ly" \in e /\ e # {"lyc_eq_ly"}
  <2>1. Expected(e) = 0 .. Rows + 2
    BY <1>7 DEF Expected
  <2>2. frame.stat <= Rows + 2
    BY <1>1, <1>3, <1>4, <1>7 DEF CountRight, One
  <2> QED BY <1>1, <1>3, <2>1, <2>2
<1> QED BY <1>5, <1>6, <1>7

THEOREM FramesAlwaysInterrupt == PpuSpec => FrameInterrupts
<1>1. PpuInv /\ FrameInv => (frame.quiet = "yes" /\ EntersFrame =>
                               frame.vblank = 1 /\ frame.stat \in Expected(stat.enabled))
  BY FrameEnds
<1> QED BY <1>1, FrameInvariant, PTL DEF FrameInterrupts

-----------------------------------------------------------------------------
(* The LCD and the PPU: two counts of the ticks of a frame.                *)

(* The line a dot is of, which LY leaves behind before it ends, and the    *)
(* dots of the frame so far.                                               *)
LateSelectors ==
  {"hblank_454", "hblank_455", "last_hblank_454", "last_hblank_455", "vblank_454", "vblank_455"}
WrappedSelectors == {"last_line_4", "last_line_7", "last_line_453", "last_line_454", "last_line_455"}
LineOf(p) ==
  IF p.selector \in LateSelectors THEN p.line - 1
  ELSE IF p.selector \in WrappedSelectors THEN Lines - 1
  ELSE p.line
LineStart(n) == n * LineEnd
Position(p) == LineStart(LineOf(p)) + p.dots

(* All pixels of the row are pushed. *)
RowPushed(p) == p.selector \notin ScanSelectors \cup {"pixel_transfer"}

(* A dot is the next of its line, the first of the next line, or the first *)
(* of the next frame.                                                      *)
SameLine(p, q) ==
  /\ LineOf(q) = LineOf(p) /\ q.dots = p.dots + 1
  /\ RowPushed(q) => RowPushed(p) \/ p.selector = "pixel_transfer"
NextLine(p, q) ==
  /\ p.dots = LineEnd - 1 /\ q.dots = 0 /\ LineOf(q) = LineOf(p) + 1
  /\ RowPushed(q) => LineOf(q) >= Rows
NextFrame(p, q) ==
  /\ p.dots = LineEnd - 1 /\ LineOf(p) = Lines - 1
  /\ q.dots = 0 /\ LineOf(q) = 0 /\ ~RowPushed(q)

Moves(p, q) == IF p.selector = "last_line_455" THEN NextFrame(p, q) ELSE SameLine(p, q) \/ NextLine(p, q)

LEMMA DotMoves ==
  ASSUME NEW p, Planned(p), NEW q \in DotOf(p)
  PROVE  Moves(p, q)
<1> USE ConstantBounds DEF Bounds
<1>1. p \in PpuStates /\ p.selector \in Selectors BY DEF Planned, PpuStates
<1>2. CASE p.selector = "oam_scan"
  <2>1. q \in ScanDot(p) BY <1>2 DEF DotOf, HBlankSelectors, VBlankSelectors
  <2>2. q.selector \in {"oam_scan", "oam_scan_77"} /\ q.dots = p.dots + 1 /\ q.line = p.line
    BY <1>1, <1>2, <2>1 DEF ScanDot, PpuStates, Until, GoNext, Go
  <2>3. QED BY <1>1, <1>2, <2>2
    DEF PpuStates, Moves, SameLine, NextLine, NextFrame, LineOf, LateSelectors, WrappedSelectors, RowPushed, ScanSelectors
<1>3. CASE p.selector = "oam_scan_77"
  <2>1. q \in ScanDot(p) BY <1>3 DEF DotOf, HBlankSelectors, VBlankSelectors
  <2>2. q.selector = "oam_scan_done" /\ q.dots = p.dots + 1 /\ q.line = p.line
    BY <1>1, <1>3, <2>1 DEF ScanDot, PpuStates, GoNext, Go
  <2>3. QED BY <1>1, <1>3, <2>2
    DEF PpuStates, Moves, SameLine, NextLine, NextFrame, LineOf, LateSelectors, WrappedSelectors, RowPushed, ScanSelectors
<1>4. CASE p.selector = "oam_scan_done"
  <2>1. q \in ScanDot(p) BY <1>4 DEF DotOf, HBlankSelectors, VBlankSelectors
  <2>2. p.dots = Scan + 2 \/ p.dots = Scan + 3 BY <1>4 DEF Planned, ScanPlan
  <2>3. q.selector \in {"oam_scan_done", "pixel_transfer"} /\ q.dots = p.dots + 1 /\ q.line = p.line
    <3>1. CASE p.dots = Scan + 2
      <4>1. q = [GoNext(p, "oam_scan_done") EXCEPT !.mode = "PIXEL_TRANSFER"]
        BY <1>4, <2>1, <3>1 DEF ScanDot
      <4>2. QED BY <1>1, <4>1 DEF PpuStates, GoNext, Go
    <3>2. CASE p.dots = Scan + 3
      <4>1. q = EnterPixelTransfer(p) BY <1>4, <2>1, <3>2 DEF ScanDot
      <4>2. QED BY <1>1, <3>2, <4>1 DEF PpuStates, Go, EnterPixelTransfer
    <3>3. QED BY <2>2, <3>1, <3>2
  <2>4. QED BY <1>1, <1>4, <2>2, <2>3
    DEF PpuStates, Moves, SameLine, NextLine, NextFrame, LineOf, LateSelectors, WrappedSelectors, RowPushed, ScanSelectors
<1>5. CASE p.selector = "after_turn_on"
  <2>1. q \in ScanDot(p) BY <1>5 DEF DotOf, HBlankSelectors, VBlankSelectors
  <2>2. q.selector \in {"after_turn_on", "after_turn_on_78"} /\ q.dots = p.dots + 1 /\ q.line = p.line
    BY <1>1, <1>5, <2>1 DEF ScanDot, PpuStates, GoNext, Go
  <2>3. QED BY <1>1, <1>5, <2>2
    DEF PpuStates, Moves, SameLine, NextLine, NextFrame, LineOf, LateSelectors, WrappedSelectors, RowPushed, ScanSelectors
<1>6. CASE p.selector = "after_turn_on_78"
  <2>1. q \in ScanDot(p) BY <1>6 DEF DotOf, HBlankSelectors, VBlankSelectors
  <2>2. q.selector = "after_turn_on_79" /\ q.dots = p.dots + 1 /\ q.line = p.line
    BY <1>1, <1>6, <2>1 DEF ScanDot, PpuStates, GoNext, Go
  <2>3. QED BY <1>1, <1>6, <2>2
    DEF PpuStates, Moves, SameLine, NextLine, NextFrame, LineOf, LateSelectors, WrappedSelectors, RowPushed, ScanSelectors
<1>7. CASE p.selector = "after_turn_on_79"
  <2>1. q \in ScanDot(p) BY <1>7 DEF DotOf, HBlankSelectors, VBlankSelectors
  <2>2. p.dots = Scan + 3 BY <1>7 DEF Planned, ScanPlan
  <2>3. q.selector = "pixel_transfer" /\ q.dots = p.dots + 1 /\ q.line = p.line
    <3>1. q = EnterPixelTransfer(p) BY <1>7, <2>1 DEF ScanDot
    <3>2. QED BY <1>1, <2>2, <3>1 DEF PpuStates, Go, EnterPixelTransfer
  <2>4. QED BY <1>1, <1>7, <2>2, <2>3
    DEF PpuStates, Moves, SameLine, NextLine, NextFrame, LineOf, LateSelectors, WrappedSelectors, RowPushed, ScanSelectors
<1>8. CASE p.selector = "pixel_transfer"
  <2>1. q \in PixelTransfer(p) BY <1>8 DEF DotOf, HBlankSelectors, VBlankSelectors
  <2>2. q.selector \in {"first_hblank", "hblank", "last_hblank", "pixel_transfer"} /\ q.dots = p.dots + 1 /\ q.line = p.line
    BY <1>1, <1>8, <2>1 DEF PixelTransfer, PpuStates, EnterHBlank, GoNext, Go
  <2>3. QED BY <1>1, <1>8, <2>2
    DEF PpuStates, Moves, SameLine, NextLine, NextFrame, LineOf, LateSelectors, WrappedSelectors, RowPushed, ScanSelectors
<1>9. CASE p.selector = "first_hblank"
  <2>1. q \in HBlankDot(p) BY <1>9 DEF DotOf, HBlankSelectors, VBlankSelectors
  <2>2. q.selector \in {"first_hblank", "hblank"} /\ q.dots = p.dots + 1 /\ q.line = p.line
    BY <1>1, <1>9, <2>1 DEF HBlankDot, PpuStates, FirstHBlank
  <2>3. QED BY <1>1, <1>9, <2>2
    DEF PpuStates, Moves, SameLine, NextLine, NextFrame, LineOf, LateSelectors, WrappedSelectors, RowPushed, ScanSelectors
<1>10. CASE p.selector = "hblank"
  <2>1. q \in HBlankDot(p) BY <1>10 DEF DotOf, HBlankSelectors, VBlankSelectors
  <2>2. q.selector \in {"hblank", "hblank_452"} /\ q.dots = p.dots + 1 /\ q.line = p.line
    BY <1>1, <1>10, <2>1 DEF HBlankDot, PpuStates, Until, GoNext, Go
  <2>3. QED BY <1>1, <1>10, <2>2
    DEF PpuStates, Moves, SameLine, NextLine, NextFrame, LineOf, LateSelectors, WrappedSelectors, RowPushed, ScanSelectors
<1>11. CASE p.selector = "hblank_452"
  <2>1. q \in HBlankDot(p) BY <1>11 DEF DotOf, HBlankSelectors, VBlankSelectors
  <2>2. q.selector = "hblank_453" /\ q.dots = p.dots + 1 /\ q.line = p.line
    BY <1>1, <1>11, <2>1 DEF HBlankDot, PpuStates, Garbled, GoNext, Go
  <2>3. QED BY <1>1, <1>11, <2>2
    DEF PpuStates, Moves, SameLine, NextLine, NextFrame, LineOf, LateSelectors, WrappedSelectors, RowPushed, ScanSelectors
<1>12. CASE p.selector = "hblank_453"
  <2>1. q \in HBlankDot(p) BY <1>12 DEF DotOf, HBlankSelectors, VBlankSelectors
  <2>2. q.selector = "hblank_454" /\ q.dots = p.dots + 1 /\ q.line = p.line + 1
    BY <1>1, <1>12, <2>1 DEF HBlankDot, PpuStates, Increased, GoNext, Go
  <2>3. QED BY <1>1, <1>12, <2>2
    DEF PpuStates, Moves, SameLine, NextLine, NextFrame, LineOf, LateSelectors, WrappedSelectors, RowPushed, ScanSelectors
<1>13. CASE p.selector = "hblank_454"
  <2>1. q \in HBlankDot(p) BY <1>13 DEF DotOf, HBlankSelectors, VBlankSelectors
  <2>2. q.selector = "hblank_455" /\ q.dots = p.dots + 1 /\ q.line = p.line
    BY <1>1, <1>13, <2>1 DEF HBlankDot, PpuStates, GoNext, Go
  <2>3. QED BY <1>1, <1>13, <2>2
    DEF PpuStates, Moves, SameLine, NextLine, NextFrame, LineOf, LateSelectors, WrappedSelectors, RowPushed, ScanSelectors
<1>14. CASE p.selector = "hblank_455"
  <2>1. q \in HBlankDot(p) BY <1>14 DEF DotOf, HBlankSelectors, VBlankSelectors
  <2>2. p.dots = Sync + 3 BY <1>14 DEF Planned, HBlankPlan
  <2>3. q.selector = "oam_scan" /\ q.dots = 0 /\ q.line = p.line
    BY <1>1, <1>14, <2>1, <2>2 DEF HBlankDot, PpuStates, Go
  <2>4. QED BY <1>1, <1>14, <2>2, <2>3
    DEF PpuStates, Moves, SameLine, NextLine, NextFrame, LineOf, LateSelectors, WrappedSelectors, RowPushed, ScanSelectors
<1>15. CASE p.selector = "last_hblank"
  <2>1. q \in HBlankDot(p) BY <1>15 DEF DotOf, HBlankSelectors, VBlankSelectors
  <2>2. q.selector \in {"last_hblank", "last_hblank_453"} /\ q.dots = p.dots + 1 /\ q.line = p.line
    BY <1>1, <1>15, <2>1 DEF HBlankDot, PpuStates, Garbled, GoNext, Go
  <2>3. QED BY <1>1, <1>15, <2>2
    DEF PpuStates, Moves, SameLine, NextLine, NextFrame, LineOf, LateSelectors, WrappedSelectors, RowPushed, ScanSelectors
<1>16. CASE p.selector = "last_hblank_453"
  <2>1. q \in HBlankDot(p) BY <1>16 DEF DotOf, HBlankSelectors, VBlankSelectors
  <2>2. q.selector = "last_hblank_454" /\ q.dots = p.dots + 1 /\ q.line = p.line + 1
    BY <1>1, <1>16, <2>1 DEF HBlankDot, PpuStates, Increased, GoNext, Go
  <2>3. QED BY <1>1, <1>16, <2>2
    DEF PpuStates, Moves, SameLine, NextLine, NextFrame, LineOf, LateSelectors, WrappedSelectors, RowPushed, ScanSelectors
<1>17. CASE p.selector = "last_hblank_454"
  <2>1. q \in HBlankDot(p) BY <1>17 DEF DotOf, HBlankSelectors, VBlankSelectors
  <2>2. q.selector = "last_hblank_455" /\ q.dots = p.dots + 1 /\ q.line = p.line
    BY <1>1, <1>17, <2>1 DEF HBlankDot, PpuStates, GoNext, Go
  <2>3. QED BY <1>1, <1>17, <2>2
    DEF PpuStates, Moves, SameLine, NextLine, NextFrame, LineOf, LateSelectors, WrappedSelectors, RowPushed, ScanSelectors
<1>18. CASE p.selector = "last_hblank_455"
  <2>1. q \in HBlankDot(p) BY <1>18 DEF DotOf, HBlankSelectors, VBlankSelectors
  <2>2. p.dots = Sync + 3 /\ p.line = Rows BY <1>18 DEF Planned, LastHBlankPlan
  <2>3. q.selector = "vblank" /\ q.dots = 0 /\ q.line = p.line
    BY <1>1, <1>18, <2>1, <2>2 DEF HBlankDot, PpuStates, Go
  <2>4. QED BY <1>1, <1>18, <2>2, <2>3
    DEF PpuStates, Moves, SameLine, NextLine, NextFrame, LineOf, LateSelectors, WrappedSelectors, RowPushed, ScanSelectors
<1>19. CASE p.selector = "vblank"
  <2>1. q \in VBlankDot(p) BY <1>19 DEF DotOf, HBlankSelectors, VBlankSelectors
  <2>2. q.selector \in {"vblank", "vblank_453"} /\ q.dots = p.dots + 1 /\ q.line = p.line
    BY <1>1, <1>19, <2>1 DEF VBlankDot, PpuStates, Garbled, GoNext, Go
  <2>3. QED BY <1>1, <1>19, <2>2
    DEF PpuStates, Moves, SameLine, NextLine, NextFrame, LineOf, LateSelectors, WrappedSelectors, RowPushed, ScanSelectors
<1>20. CASE p.selector = "vblank_453"
  <2>1. q \in VBlankDot(p) BY <1>20 DEF DotOf, HBlankSelectors, VBlankSelectors
  <2>2. q.selector = "vblank_454" /\ q.dots = p.dots + 1 /\ q.line = p.line + 1
    BY <1>1, <1>20, <2>1 DEF VBlankDot, PpuStates, Increased, GoNext, Go
  <2>3. QED BY <1>1, <1>20, <2>2
    DEF PpuStates, Moves, SameLine, NextLine, NextFrame, LineOf, LateSelectors, WrappedSelectors, RowPushed, ScanSelectors
<1>21. CASE p.selector = "vblank_454"
  <2>1. q \in VBlankDot(p) BY <1>21 DEF DotOf, HBlankSelectors, VBlankSelectors
  <2>2. q.selector = "vblank_455" /\ q.dots = p.dots + 1 /\ q.line = p.line
    BY <1>1, <1>21, <2>1 DEF VBlankDot, PpuStates, GoNext, Go
  <2>3. QED BY <1>1, <1>21, <2>2
    DEF PpuStates, Moves, SameLine, NextLine, NextFrame, LineOf, LateSelectors, WrappedSelectors, RowPushed, ScanSelectors
<1>22. CASE p.selector = "vblank_455"
  <2>1. q \in VBlankDot(p) BY <1>22 DEF DotOf, HBlankSelectors, VBlankSelectors
  <2>2. p.dots = Sync + 3 /\ p.line > Rows BY <1>22 DEF Planned, VBlankPlan
  <2>3. q.selector \in {"last_line", "vblank"} /\ q.dots = 0 /\ q.line = p.line
    BY <1>1, <1>22, <2>1, <2>2 DEF VBlankDot, PpuStates, Go
  <2>4. QED BY <1>1, <1>22, <2>2, <2>3
    DEF PpuStates, Moves, SameLine, NextLine, NextFrame, LineOf, LateSelectors, WrappedSelectors, RowPushed, ScanSelectors
<1>23. CASE p.selector = "last_line"
  <2>1. q \in VBlankDot(p) BY <1>23 DEF DotOf, HBlankSelectors, VBlankSelectors
  <2>2. q.selector \in {"last_line", "last_line_2"} /\ q.dots = p.dots + 1 /\ q.line = p.line
    BY <1>1, <1>23, <2>1 DEF VBlankDot, PpuStates, Until, GoNext, Go
  <2>3. QED BY <1>1, <1>23, <2>2
    DEF PpuStates, Moves, SameLine, NextLine, NextFrame, LineOf, LateSelectors, WrappedSelectors, RowPushed, ScanSelectors
<1>24. CASE p.selector = "last_line_2"
  <2>1. q \in VBlankDot(p) BY <1>24 DEF DotOf, HBlankSelectors, VBlankSelectors
  <2>2. q.selector = "last_line_3" /\ q.dots = p.dots + 1 /\ q.line = p.line
    BY <1>1, <1>24, <2>1 DEF VBlankDot, PpuStates, GoNext, Go
  <2>3. QED BY <1>1, <1>24, <2>2
    DEF PpuStates, Moves, SameLine, NextLine, NextFrame, LineOf, LateSelectors, WrappedSelectors, RowPushed, ScanSelectors
<1>25. CASE p.selector = "last_line_3"
  <2>1. q \in VBlankDot(p) BY <1>25 DEF DotOf, HBlankSelectors, VBlankSelectors
  <2>2. p.line = Lines - 1 BY <1>25 DEF Planned, LastLinePlan
  <2>3. q.selector = "last_line_4" /\ q.dots = p.dots + 1 /\ q.line = 0
    BY <1>1, <1>25, <2>1, <2>2 DEF VBlankDot, PpuStates, GoNext, Go
  <2>4. QED BY <1>1, <1>25, <2>2, <2>3
    DEF PpuStates, Moves, SameLine, NextLine, NextFrame, LineOf, LateSelectors, WrappedSelectors, RowPushed, ScanSelectors
<1>26. CASE p.selector = "last_line_4"
  <2>1. q \in VBlankDot(p) BY <1>26 DEF DotOf, HBlankSelectors, VBlankSelectors
  <2>2. q.selector \in {"last_line_4", "last_line_7"} /\ q.dots = p.dots + 1 /\ q.line = p.line
    BY <1>1, <1>26, <2>1 DEF VBlankDot, PpuStates, Until, GoNext, Go
  <2>3. QED BY <1>1, <1>26, <2>2
    DEF PpuStates, Moves, SameLine, NextLine, NextFrame, LineOf, LateSelectors, WrappedSelectors, RowPushed, ScanSelectors
<1>27. CASE p.selector = "last_line_7"
  <2>1. q \in VBlankDot(p) BY <1>27 DEF DotOf, HBlankSelectors, VBlankSelectors
  <2>2. q.selector \in {"last_line_453", "last_line_7"} /\ q.dots = p.dots + 1 /\ q.line = p.line
    BY <1>1, <1>27, <2>1 DEF VBlankDot, PpuStates, Until, GoNext, Go
  <2>3. QED BY <1>1, <1>27, <2>2
    DEF PpuStates, Moves, SameLine, NextLine, NextFrame, LineOf, LateSelectors, WrappedSelectors, RowPushed, ScanSelectors
<1>28. CASE p.selector = "last_line_453"
  <2>1. q \in VBlankDot(p) BY <1>28 DEF DotOf, HBlankSelectors, VBlankSelectors
  <2>2. q.selector = "last_line_454" /\ q.dots = p.dots + 1 /\ q.line = p.line
    BY <1>1, <1>28, <2>1 DEF VBlankDot, PpuStates, GoNext, Go
  <2>3. QED BY <1>1, <1>28, <2>2
    DEF PpuStates, Moves, SameLine, NextLine, NextFrame, LineOf, LateSelectors, WrappedSelectors, RowPushed, ScanSelectors
<1>29. CASE p.selector = "last_line_454"
  <2>1. q \in VBlankDot(p) BY <1>29 DEF DotOf, HBlankSelectors, VBlankSelectors
  <2>2. q.selector = "last_line_455" /\ q.dots = p.dots + 1 /\ q.line = p.line
    BY <1>1, <1>29, <2>1 DEF VBlankDot, PpuStates, GoNext, Go
  <2>3. QED BY <1>1, <1>29, <2>2
    DEF PpuStates, Moves, SameLine, NextLine, NextFrame, LineOf, LateSelectors, WrappedSelectors, RowPushed, ScanSelectors
<1>30. CASE p.selector = "last_line_455"
  <2>1. q \in VBlankDot(p) BY <1>30 DEF DotOf, HBlankSelectors, VBlankSelectors
  <2>2. p.dots = Sync + 3 /\ p.line = 0 BY <1>30 DEF Planned, LastLinePlan
  <2>3. q.selector = "oam_scan" /\ q.dots = 0 /\ q.line = p.line
    BY <1>1, <1>30, <2>1, <2>2 DEF VBlankDot, PpuStates, Go
  <2>4. QED BY <1>1, <1>30, <2>2, <2>3
    DEF PpuStates, Moves, SameLine, NextLine, NextFrame, LineOf, LateSelectors, WrappedSelectors, RowPushed, ScanSelectors
<1>31. QED BY <1>1, <1>2, <1>3, <1>4, <1>5, <1>6, <1>7, <1>8, <1>9, <1>10, <1>11, <1>12, <1>13, <1>14, <1>15, <1>16, <1>17, <1>18, <1>19, <1>20, <1>21, <1>22, <1>23, <1>24, <1>25, <1>26, <1>27, <1>28, <1>29, <1>30 DEF Selectors
-----------------------------------------------------------------------------
LEMMA Multiples ==
  /\ LineStart(0) = 0
  /\ \A n \in Nat : LineStart(n) \in Nat /\ LineStart(n + 1) = LineStart(n) + LineEnd
  /\ \A m, n \in Nat : m < n => LineStart(m) + LineEnd <= LineStart(n)
<1>1. LineEnd \in Nat BY ConstantBounds DEF Bounds
<1>2. LineStart(0) = 0 BY <1>1 DEF LineStart
<1>3. ASSUME NEW n \in Nat PROVE LineStart(n) \in Nat /\ LineStart(n + 1) = LineStart(n) + LineEnd
  BY <1>1 DEF LineStart
<1>4. ASSUME NEW m \in Nat, NEW n \in Nat, m < n PROVE LineStart(m) + LineEnd <= LineStart(n)
  <2> DEFINE d == n - (m + 1)
  <2>1. d \in Nat /\ n = (m + 1) + d BY <1>4
  <2> HIDE DEF d
  <2>2. LineStart(n) = LineStart(m) + LineEnd + d * LineEnd BY <1>1, <2>1 DEF LineStart
  <2>3. d * LineEnd \in Nat /\ LineStart(m) \in Nat BY <1>1, <2>1 DEF LineStart
  <2>4. QED BY <1>1, <2>2, <2>3
<1>5. QED BY <1>2, <1>3, <1>4

LEMMA LastMultiples ==
  /\ SyncTicks = LineStart(SyncRows) /\ SyncTicks \in Nat /\ LineStart(Rows) \in Nat
  /\ LineStart(Rows) <= SyncTicks /\ SyncTicks > 0
  /\ SyncTicks + LineEnd <= LineStart(Lines) /\ LineStart(Lines) \in Nat
  /\ Rows \in Nat /\ Rows > 1
<1>1. SyncRows \in Nat /\ Rows \in Nat /\ Rows > 1 /\ Rows <= SyncRows /\ SyncRows < Lines /\ Lines \in Nat
  BY VideoAssumption, ConstantBounds DEF Bounds
<1>2. SyncTicks = LineStart(SyncRows) BY DEF SyncTicks, LineStart
<1>3. LineEnd \in Nat /\ LineEnd > 0 BY ConstantBounds DEF Bounds
<1>4. LineStart(Rows) <= LineStart(SyncRows)
  <2>1. CASE Rows = SyncRows BY <1>1, <2>1, Multiples
  <2>2. CASE Rows < SyncRows
    <3>1. LineStart(Rows) + LineEnd <= LineStart(SyncRows) BY <1>1, <2>2, Multiples
    <3>2. LineStart(Rows) \in Nat /\ LineStart(SyncRows) \in Nat BY <1>1, Multiples
    <3>3. QED BY <1>3, <3>1, <3>2
  <2>3. QED BY <1>1, <2>1, <2>2
<1>5. LineStart(SyncRows) + LineEnd <= LineStart(Lines) BY <1>1, Multiples
<1>6. LineStart(0) + LineEnd <= LineStart(Rows) /\ LineStart(0) = 0 BY <1>1, Multiples
<1>7. LineStart(SyncRows) \in Nat /\ LineStart(Rows) \in Nat /\ LineStart(Lines) \in Nat BY <1>1, Multiples
<1>8. LineStart(SyncRows) > 0 BY <1>3, <1>4, <1>6, <1>7
<1>9. QED BY <1>1, <1>2, <1>4, <1>5, <1>7, <1>8

LEMMA LinesOfDots ==
  ASSUME NEW p, Planned(p)
  PROVE  LineOf(p) \in 0 .. Lines - 1 /\ p.dots \in 0 .. LineEnd - 1 /\ p.line \in 0 .. Lines - 1
<1>1. p \in PpuStates BY DEF Planned
<1>2. p.selector \in LateSelectors => p.line >= 1
  BY <1>1, ConstantBounds DEF Bounds, Planned, HBlankPlan, LastHBlankPlan, VBlankPlan, LateSelectors, PpuStates
<1>3. QED BY <1>1, <1>2, ConstantBounds DEF Bounds, LineOf, PpuStates

LEMMA PositionMoves ==
  ASSUME NEW p, Planned(p), NEW q, Planned(q), Moves(p, q)
  PROVE  /\ Position(p) \in Nat /\ Position(q) \in Nat
         /\ p.selector = "last_line_455" => Position(p) = LineStart(Lines) - 1 /\ Position(q) = 0
         /\ p.selector # "last_line_455" => Position(q) = Position(p) + 1
<1>1. /\ LineOf(p) \in 0 .. Lines - 1 /\ p.dots \in 0 .. LineEnd - 1
      /\ LineOf(q) \in 0 .. Lines - 1 /\ q.dots \in 0 .. LineEnd - 1
  BY LinesOfDots
<1>2. Lines \in Nat /\ LineEnd \in Nat BY ConstantBounds DEF Bounds
<1>3. /\ LineStart(LineOf(p)) \in Nat /\ LineStart(LineOf(q)) \in Nat /\ LineStart(0) = 0
      /\ LineStart(LineOf(p) + 1) = LineStart(LineOf(p)) + LineEnd
  BY <1>1, <1>2, Multiples
<1>4. Position(p) \in Nat /\ Position(q) \in Nat BY <1>1, <1>2, <1>3 DEF Position
<1>5. CASE p.selector = "last_line_455"
  <2>1. NextFrame(p, q) BY <1>5 DEF Moves
  <2>2. LineOf(p) + 1 = Lines BY <1>2, <2>1 DEF NextFrame
  <2>3. QED BY <1>2, <1>3, <1>4, <1>5, <2>1, <2>2 DEF NextFrame, Position
<1>6. CASE p.selector # "last_line_455" /\ SameLine(p, q)
  BY <1>1, <1>2, <1>3, <1>4, <1>6 DEF SameLine, Position
<1>7. CASE p.selector # "last_line_455" /\ NextLine(p, q)
  BY <1>1, <1>2, <1>3, <1>4, <1>7 DEF NextLine, Position
<1>8. QED BY <1>5, <1>6, <1>7 DEF Moves
-----------------------------------------------------------------------------
LcdRecords ==
  [row : 0 .. Rows, row_ticks : 0 .. LineEnd - 1, frame_ticks : 0 .. SyncTicks + 1,
   ppu_on : BOOLEAN, rendering_enabled : BOOLEAN, row_increment_enabled : BOOLEAN,
   wait_new_frame : BOOLEAN, row_cursor : {"none", "some", "all"}, line : NoLine .. Rows - 1]

LcdPosition(l) == LineStart(l.row) + l.row_ticks

(* An LCD that does not wait while the PPU is on: it will wait before the  *)
(* PPU's next frame, with all rows behind it.                              *)
WillWait(l, position) ==
  /\ l.frame_ticks < SyncTicks
  /\ l.row < Rows => l.frame_ticks <= LcdPosition(l)
  /\ position <= l.frame_ticks + 1

(* An LCD that shows the frame the PPU draws: both count the ticks since   *)
(* new_frame, the rows shown are those behind, and the row to be shown     *)
(* next is all there once the PPU is past its pixels.                      *)
RowReady(l, p) ==
  l.row < Rows /\ l.row_ticks < Sync /\ LineOf(p) = l.row /\ RowPushed(p) =>
    l.line = l.row /\ l.row_cursor = "all"

InStep(l, position, missed, rows) ==
  /\ l.frame_ticks = position + 1 + missed
  /\ l.row < Rows => l.frame_ticks = LcdPosition(l)
  /\ l.row = Rows => l.frame_ticks >= LineStart(Rows)
  /\ rows = l.row + (IF l.row_ticks >= Sync THEN 1 ELSE 0)

LcdKept(l, p, position, missed, rows) ==
  /\ l.row = Rows => l.row_ticks = 0
  /\ l.wait_new_frame => l.ppu_on /\ l.row = 0 /\ l.row_ticks = 0
  /\ l.rendering_enabled => l.ppu_on
  /\ l.rendering_enabled /\ l.wait_new_frame => rows \in {0, Rows}
  /\ l.ppu_on /\ ~l.wait_new_frame => WillWait(l, position)
  /\ l.rendering_enabled /\ ~l.wait_new_frame => InStep(l, position, missed, rows) /\ RowReady(l, p)

VideoInv ==
  /\ PpuInv
  /\ lcd \in LcdRecords /\ lcd.ppu_on = lcdc.enable
  /\ lost \in 0 .. MaxLost /\ shown.rows \in Nat
  /\ RowsInStep
  /\ LcdKept(lcd, ppu, Position(ppu), lost, shown.rows)

(* What Lcd::tick does to a row.                                           *)
LEMMA RowTickedFields ==
  ASSUME NEW l \in LcdRecords, l.row = Rows => l.row_ticks = 0
  PROVE  /\ RowTicked(l) \in LcdRecords
         /\ l.row = Rows => RowTicked(l) = l
         /\ l.row < Rows /\ l.row_ticks + 1 < LineEnd =>
              RowTicked(l).row = l.row /\ RowTicked(l).row_ticks = l.row_ticks + 1
         /\ l.row < Rows /\ l.row_ticks + 1 = LineEnd =>
              RowTicked(l).row = l.row + 1 /\ RowTicked(l).row_ticks = 0
         /\ l.row_ticks + 1 # Sync => RowTicked(l).line = l.line
         /\ \A f \in {"frame_ticks", "ppu_on", "rendering_enabled", "wait_new_frame", "row_cursor"} :
              RowTicked(l)[f] = l[f]
<1>1. /\ Sync \in Nat /\ LineEnd = Sync + 4 /\ Rows \in Nat /\ RowHalf \in 1 .. Sync - 1 /\ Sync > 6
  BY ConstantBounds, VideoAssumption DEF Bounds
<1>2. l.row \in 0 .. Rows /\ l.row_ticks \in 0 .. LineEnd - 1 BY DEF LcdRecords
<1>3. l.row = Rows \/ l.row < Rows BY <1>1, <1>2
<1>4. CASE l.row = Rows BY <1>1, <1>4 DEF RowTicked
<1>5. CASE l.row < Rows /\ l.row_ticks + 1 = RowHalf
  <2>1. RowTicked(l) = [l EXCEPT !.row_ticks = l.row_ticks + 1, !.row_increment_enabled = TRUE]
    BY <1>1, <1>2, <1>5 DEF RowTicked
  <2>2. l.row_ticks + 1 \in 0 .. LineEnd - 1 BY <1>1, <1>2, <1>5
  <2>3. RowTicked(l) \in LcdRecords BY <2>1, <2>2 DEF LcdRecords
  <2>4. RowTicked(l).row = l.row /\ RowTicked(l).row_ticks = l.row_ticks + 1 /\ RowTicked(l).line = l.line
    BY <2>1 DEF LcdRecords
  <2>5. \A f \in {"frame_ticks", "ppu_on", "rendering_enabled", "wait_new_frame", "row_cursor"} : RowTicked(l)[f] = l[f]
    BY <2>1 DEF LcdRecords
  <2>6. QED BY <1>1, <1>2, <1>5, <2>3, <2>4, <2>5
<1>6. CASE l.row < Rows /\ l.row_ticks + 1 = Sync
  <2>1. RowTicked(l) = [l EXCEPT !.row_ticks = l.row_ticks + 1, !.line = NoLine]
    BY <1>1, <1>2, <1>6 DEF RowTicked
  <2>2. l.row_ticks + 1 \in 0 .. LineEnd - 1 /\ NoLine \in NoLine .. Rows - 1
    BY <1>1, <1>2, <1>6 DEF NoLine
  <2>3. RowTicked(l) \in LcdRecords BY <2>1, <2>2 DEF LcdRecords
  <2>4. RowTicked(l).row = l.row /\ RowTicked(l).row_ticks = l.row_ticks + 1
    BY <2>1 DEF LcdRecords
  <2>5. \A f \in {"frame_ticks", "ppu_on", "rendering_enabled", "wait_new_frame", "row_cursor"} : RowTicked(l)[f] = l[f]
    BY <2>1 DEF LcdRecords
  <2>6. QED BY <1>1, <1>2, <1>6, <2>3, <2>4, <2>5
<1>7. CASE l.row < Rows /\ l.row_ticks + 1 = LineEnd
  <2>1. RowTicked(l) = [l EXCEPT !.row_ticks = 0, !.row = l.row + 1]
    BY <1>1, <1>2, <1>7 DEF RowTicked
  <2>2. 0 \in 0 .. LineEnd - 1 /\ l.row + 1 \in 0 .. Rows BY <1>1, <1>2, <1>7
  <2>3. RowTicked(l) \in LcdRecords BY <2>1, <2>2 DEF LcdRecords
  <2>4. RowTicked(l).row = l.row + 1 /\ RowTicked(l).row_ticks = 0 /\ RowTicked(l).line = l.line
    BY <2>1 DEF LcdRecords
  <2>5. \A f \in {"frame_ticks", "ppu_on", "rendering_enabled", "wait_new_frame", "row_cursor"} : RowTicked(l)[f] = l[f]
    BY <2>1 DEF LcdRecords
  <2>6. QED BY <1>1, <1>2, <1>7, <2>3, <2>4, <2>5
<1>8. CASE l.row < Rows /\ l.row_ticks + 1 \notin {RowHalf, Sync, LineEnd}
  <2>1. RowTicked(l) = [l EXCEPT !.row_ticks = l.row_ticks + 1]
    BY <1>1, <1>2, <1>8 DEF RowTicked
  <2>2. l.row_ticks + 1 \in 0 .. LineEnd - 1 BY <1>1, <1>2, <1>8
  <2>3. QED BY <1>1, <1>2, <1>8, <2>1, <2>2 DEF LcdRecords
<1>9. QED BY <1>3, <1>4, <1>5, <1>6, <1>7, <1>8

LEMMA FrameTickedFields ==
  ASSUME NEW r \in LcdRecords
  PROVE  /\ FrameTicked(r) \in LcdRecords
         /\ r.frame_ticks + 1 = SyncTicks =>
              /\ FrameTicked(r).wait_new_frame = r.ppu_on /\ FrameTicked(r).row = 0
         /\ r.frame_ticks + 1 # SyncTicks =>
              /\ FrameTicked(r).wait_new_frame = r.wait_new_frame /\ FrameTicked(r).row = r.row
         /\ r.frame_ticks < SyncTicks => FrameTicked(r).frame_ticks = r.frame_ticks + 1
         /\ \A f \in {"row_ticks", "ppu_on", "rendering_enabled", "row_cursor", "line"} :
              FrameTicked(r)[f] = r[f]
<1>1. SyncTicks \in Nat /\ r.frame_ticks \in 0 .. SyncTicks + 1 BY LastMultiples DEF LcdRecords
<1>2. CASE r.frame_ticks + 1 = SyncTicks
  <2>1. FrameTicked(r) = [r EXCEPT !.frame_ticks = r.frame_ticks + 1, !.wait_new_frame = r.ppu_on, !.row = 0]
    BY <1>2 DEF FrameTicked
  <2>2. r.frame_ticks + 1 \in 0 .. SyncTicks + 1 /\ 0 \in 0 .. Rows BY <1>1, <1>2, LastMultiples
  <2>3. FrameTicked(r) \in LcdRecords BY <2>1, <2>2 DEF LcdRecords
  <2>4. QED BY <1>2, <2>1, <2>3 DEF LcdRecords
<1>3. CASE r.frame_ticks + 1 # SyncTicks
  <2> DEFINE t == IF r.frame_ticks + 1 > SyncTicks THEN SyncTicks + 1 ELSE r.frame_ticks + 1
  <2>1. FrameTicked(r) = [r EXCEPT !.frame_ticks = t] BY <1>3 DEF FrameTicked
  <2>2. t \in 0 .. SyncTicks + 1 /\ (r.frame_ticks < SyncTicks => t = r.frame_ticks + 1) BY <1>1, <1>3
  <2> HIDE DEF t
  <2>3. FrameTicked(r) \in LcdRecords BY <2>1, <2>2 DEF LcdRecords
  <2>4. QED BY <1>3, <2>1, <2>2, <2>3 DEF LcdRecords
<1>4. QED BY <1>2, <1>3

(* A tick of an LCD that is a tick behind the dot p.                       *)
LEMMA TickedKeeps ==
  ASSUME NEW l \in LcdRecords, ~l.wait_new_frame, NEW p, Planned(p),
         NEW missed \in 0 .. MaxLost, NEW rows \in Nat,
         LcdKept(l, p, Position(p) - 1, missed, rows)
  PROVE  /\ LcdTicked(l) \in LcdRecords /\ LcdTicked(l).ppu_on = l.ppu_on
         /\ LcdKept(LcdTicked(l), p, Position(p), missed, IF Renders(l) THEN rows + 1 ELSE rows)
         /\ Renders(l) => l.line = l.row /\ l.row_cursor = "all"
<1> DEFINE r == RowTicked(l)
           f == FrameTicked(r)
           n == IF Renders(l) THEN rows + 1 ELSE rows
<1>1. /\ Sync \in Nat /\ LineEnd = Sync + 4 /\ Rows \in Nat /\ Rows > 1 /\ Sync > 6
      /\ Long \in Nat /\ MaxLost \in 0 .. Sync - 1 - Long
  BY ConstantBounds, VideoAssumption DEF Bounds
<1>2. /\ l.row \in 0 .. Rows /\ l.row_ticks \in 0 .. LineEnd - 1 /\ l.frame_ticks \in 0 .. SyncTicks + 1
      /\ l.ppu_on \in BOOLEAN /\ l.rendering_enabled \in BOOLEAN
  BY DEF LcdRecords
<1>3. /\ l.row = Rows => l.row_ticks = 0
      /\ l.rendering_enabled => l.ppu_on
      /\ l.ppu_on => WillWait(l, Position(p) - 1)
      /\ l.rendering_enabled => InStep(l, Position(p) - 1, missed, rows) /\ RowReady(l, p)
  BY DEF LcdKept
<1>4. /\ r \in LcdRecords
      /\ l.row = Rows => r = l
      /\ l.row < Rows /\ l.row_ticks + 1 < LineEnd => r.row = l.row /\ r.row_ticks = l.row_ticks + 1
      /\ l.row < Rows /\ l.row_ticks + 1 = LineEnd => r.row = l.row + 1 /\ r.row_ticks = 0
      /\ l.row_ticks + 1 # Sync => r.line = l.line
      /\ r.frame_ticks = l.frame_ticks /\ r.ppu_on = l.ppu_on /\ r.rendering_enabled = l.rendering_enabled
      /\ r.wait_new_frame = l.wait_new_frame /\ r.row_cursor = l.row_cursor
  BY <1>3, RowTickedFields
<1> HIDE DEF r
<1>5. /\ f \in LcdRecords
      /\ r.frame_ticks + 1 = SyncTicks => f.wait_new_frame = r.ppu_on /\ f.row = 0
      /\ r.frame_ticks + 1 # SyncTicks => f.wait_new_frame = r.wait_new_frame /\ f.row = r.row
      /\ r.frame_ticks < SyncTicks => f.frame_ticks = r.frame_ticks + 1
      /\ f.row_ticks = r.row_ticks /\ f.ppu_on = r.ppu_on /\ f.rendering_enabled = r.rendering_enabled
      /\ f.row_cursor = r.row_cursor /\ f.line = r.line
  BY <1>4, FrameTickedFields
<1>6. LcdTicked(l) = f BY DEF LcdTicked, r
<1> HIDE DEF f
<1>7. SyncTicks \in Nat /\ LineStart(Rows) \in Nat /\ LineStart(Rows) <= SyncTicks /\ SyncTicks > 0
  BY LastMultiples
<1>8. /\ LineOf(p) \in 0 .. Lines - 1 /\ p.dots \in 0 .. LineEnd - 1 /\ Lines \in Nat
      /\ LineStart(LineOf(p)) \in Nat /\ Position(p) = LineStart(LineOf(p)) + p.dots
      /\ LineStart(LineOf(p) + 1) = LineStart(LineOf(p)) + LineEnd
  BY LinesOfDots, ConstantBounds, Multiples DEF Position, Bounds
<1>9. /\ LineStart(l.row) \in Nat /\ LineStart(r.row) \in Nat
      /\ LineStart(l.row + 1) = LineStart(l.row) + LineEnd
      /\ r.row \in 0 .. Rows /\ r.row_ticks \in 0 .. LineEnd - 1
  BY <1>1, <1>2, <1>4, Multiples DEF LcdRecords
<1>10. l.row < Rows => LcdPosition(r) = LcdPosition(l) + 1
  BY <1>1, <1>2, <1>4, <1>9 DEF LcdPosition
<1>11. l.row = Rows \/ (l.row < Rows /\ l.row_ticks + 1 < LineEnd) \/ (l.row < Rows /\ l.row_ticks + 1 = LineEnd)
  BY <1>1, <1>2
<1>12. l.rendering_enabled => rows + (IF Renders(l) THEN 1 ELSE 0) = r.row + (IF r.row_ticks >= Sync THEN 1 ELSE 0)
  BY <1>1, <1>2, <1>3, <1>4, <1>11 DEF InStep, Renders
<1>13. l.rendering_enabled => n = r.row + (IF r.row_ticks >= Sync THEN 1 ELSE 0)
  BY <1>12
<1>14. Renders(l) => l.line = l.row /\ l.row_cursor = "all"
  <2> SUFFICES ASSUME Renders(l) PROVE l.line = l.row /\ l.row_cursor = "all" OBVIOUS
  <2>0. l.row \in Nat /\ LineOf(p) \in Nat BY <1>1, <1>2, <1>8
  <2>1. l.rendering_enabled /\ l.row < Rows /\ l.row_ticks + 1 = Sync BY DEF Renders
  <2>2. LineStart(l.row) + (Sync - 1 - missed) = LineStart(LineOf(p)) + p.dots
    BY <1>1, <1>2, <1>3, <1>8, <1>9, <2>1 DEF InStep, LcdPosition
  <2>3. Sync - 1 - missed \in Long .. LineEnd - 1 BY <1>1
  <2>4. ~(l.row < LineOf(p))
    <3> SUFFICES ASSUME l.row < LineOf(p) PROVE FALSE OBVIOUS
    <3>1. LineStart(l.row) + LineEnd <= LineStart(LineOf(p)) BY <2>0, Multiples
    <3>2. QED BY <1>1, <1>8, <1>9, <2>2, <2>3, <3>1
  <2>5. ~(LineOf(p) < l.row)
    <3> SUFFICES ASSUME LineOf(p) < l.row PROVE FALSE OBVIOUS
    <3>1. LineStart(LineOf(p)) + LineEnd <= LineStart(l.row) BY <2>0, Multiples
    <3>2. QED BY <1>1, <1>8, <1>9, <2>2, <2>3, <3>1
  <2>6. LineOf(p) = l.row BY <1>1, <1>2, <1>8, <2>4, <2>5
  <2>7. p.dots >= Long BY <1>1, <1>8, <1>9, <2>2, <2>3, <2>6
  <2>8. RowPushed(p)
    BY <2>7, <1>8, ConstantBounds DEF Bounds, Planned, ScanPlan, TransferPlan, RowPushed, ScanSelectors
  <2>9. QED BY <1>1, <1>2, <1>3, <2>1, <2>6, <2>8 DEF RowReady
<1>15. CASE l.frame_ticks + 1 = SyncTicks /\ l.ppu_on
  <2>1. f.wait_new_frame /\ f.row = 0 /\ f.ppu_on BY <1>4, <1>5, <1>15
  <2>2. r.row = Rows /\ r.row_ticks = 0
    <3>1. CASE l.row = Rows BY <1>3, <1>4, <3>1
    <3>2. CASE l.row < Rows
      <4>1. LcdPosition(r) >= LineStart(Rows)
        BY <1>2, <1>3, <1>7, <1>9, <1>10, <1>15, <3>2 DEF WillWait, LcdPosition
      <4>2. ~(r.row < Rows)
        <5> SUFFICES ASSUME r.row < Rows PROVE FALSE OBVIOUS
        <5>0. r.row \in Nat /\ Rows \in Nat BY <1>1, <1>9
        <5>1. LineStart(r.row) + LineEnd <= LineStart(Rows) BY <5>0, Multiples
        <5>2. QED BY <1>1, <1>7, <1>9, <4>1, <5>1 DEF LcdPosition
      <4>3. r.row = Rows BY <1>1, <1>9, <4>2
      <4>4. l.row_ticks + 1 = LineEnd BY <1>1, <1>2, <1>4, <1>11, <3>2, <4>3
      <4>5. QED BY <1>4, <3>2, <4>3, <4>4
    <3>3. QED BY <1>11, <3>1, <3>2
  <2>3. l.rendering_enabled => n = Rows BY <1>1, <1>13, <2>2
  <2>4. LcdKept(f, p, Position(p), missed, n) BY <1>1, <1>4, <1>5, <2>1, <2>2, <2>3 DEF LcdKept
  <2>5. QED BY <1>4, <1>5, <1>6, <1>14, <2>4
<1>16. CASE l.frame_ticks + 1 = SyncTicks /\ ~l.ppu_on
  <2>1. ~f.wait_new_frame /\ f.row = 0 /\ ~f.ppu_on /\ ~f.rendering_enabled BY <1>2, <1>3, <1>4, <1>5, <1>16
  <2>2. LcdKept(f, p, Position(p), missed, n) BY <1>1, <2>1 DEF LcdKept
  <2>3. QED BY <1>4, <1>5, <1>6, <1>14, <2>2
<1>17. CASE l.frame_ticks + 1 # SyncTicks
  <2>1. ~f.wait_new_frame /\ f.row = r.row /\ f.row_ticks = r.row_ticks /\ f.line = r.line
        /\ f.row_cursor = l.row_cursor /\ f.ppu_on = l.ppu_on /\ f.rendering_enabled = l.rendering_enabled
        /\ LcdPosition(f) = LcdPosition(r)
    BY <1>4, <1>5, <1>17 DEF LcdPosition
  <2>2. l.ppu_on => f.frame_ticks = l.frame_ticks + 1 /\ l.frame_ticks < SyncTicks
    BY <1>3, <1>4, <1>5 DEF WillWait
  <2>3. f.row = Rows => f.row_ticks = 0
    BY <1>1, <1>2, <1>3, <1>4, <1>11, <2>1
  <2>4. l.ppu_on => WillWait(f, Position(p))
    <3> SUFFICES ASSUME l.ppu_on PROVE WillWait(f, Position(p)) OBVIOUS
    <3>1. f.frame_ticks < SyncTicks BY <1>2, <1>7, <1>17, <2>2
    <3>2. f.row < Rows => l.row < Rows BY <1>1, <1>2, <1>4, <2>1
    <3>3. l.row < Rows => l.frame_ticks + 1 <= LcdPosition(f)
      BY <1>2, <1>3, <1>9, <1>10, <2>1 DEF WillWait, LcdPosition
    <3>4. Position(p) <= f.frame_ticks + 1 BY <1>2, <1>3, <1>8, <2>2 DEF WillWait
    <3>5. QED BY <2>2, <3>1, <3>2, <3>3, <3>4 DEF WillWait
  <2>5. l.rendering_enabled => InStep(f, Position(p), missed, n)
    <3> SUFFICES ASSUME l.rendering_enabled PROVE InStep(f, Position(p), missed, n) OBVIOUS
    <3>1. f.frame_ticks = Position(p) + 1 + missed /\ f.frame_ticks = l.frame_ticks + 1
      BY <1>1, <1>2, <1>3, <1>8, <2>2 DEF InStep
    <3>2. f.row < Rows => l.row < Rows BY <1>1, <1>2, <1>4, <2>1
    <3>3. l.row < Rows => f.frame_ticks = LcdPosition(f)
      BY <1>2, <1>3, <1>9, <1>10, <2>1, <3>1 DEF InStep, LcdPosition
    <3>4. f.row = Rows => f.frame_ticks >= LineStart(Rows)
      <4>1. CASE l.row = Rows BY <1>2, <1>3, <1>7, <3>1, <4>1 DEF InStep
      <4>2. CASE l.row < Rows BY <1>7, <2>1, <2>3, <3>3, <4>2 DEF LcdPosition
      <4>3. QED BY <1>11, <4>1, <4>2
    <3>5. QED BY <1>13, <2>1, <3>1, <3>2, <3>3, <3>4 DEF InStep
  <2>6. l.rendering_enabled => RowReady(f, p)
    <3> SUFFICES ASSUME l.rendering_enabled, f.row < Rows, f.row_ticks < Sync, LineOf(p) = f.row, RowPushed(p)
                 PROVE  f.line = f.row /\ f.row_cursor = "all"
      BY DEF RowReady
    <3>1. l.row < Rows BY <1>1, <1>2, <1>4, <2>1
    <3>2. ~(l.row_ticks + 1 = LineEnd)
      <4> SUFFICES ASSUME l.row_ticks + 1 = LineEnd PROVE FALSE OBVIOUS
      <4>1. f.row = l.row + 1 BY <1>4, <2>1, <3>1
      <4>2. l.frame_ticks = Position(p) + missed /\ l.frame_ticks = LcdPosition(l)
        BY <1>1, <1>3, <1>8, <3>1 DEF InStep
      <4>3. LcdPosition(l) + 1 = LineStart(l.row + 1) BY <1>1, <1>2, <1>9 DEF LcdPosition
      <4>4. LineOf(p) = l.row + 1 BY <4>1
      <4>5. LineStart(LineOf(p)) = LineStart(l.row + 1) BY <4>4
      <4>6. Position(p) \in Nat /\ Position(p) >= LineStart(l.row + 1) BY <1>8, <1>9, <4>5
      <4>7. LcdPosition(l) >= LineStart(l.row + 1) BY <1>1, <1>2, <1>9, <4>2, <4>6
      <4>8. LcdPosition(l) \in Nat BY <1>1, <1>2, <1>9 DEF LcdPosition
      <4>9. LineStart(l.row + 1) \in Nat BY <1>1, <1>9
      <4>10. QED BY <4>3, <4>7, <4>8, <4>9
    <3>3. r.row = l.row /\ r.row_ticks = l.row_ticks + 1 BY <1>1, <1>2, <1>4, <1>11, <3>1, <3>2
    <3>4. l.row_ticks < Sync /\ l.row_ticks + 1 # Sync BY <1>1, <1>2, <2>1, <3>3
    <3>5. r.line = l.line BY <1>4, <3>4
    <3>6. QED BY <1>3, <2>1, <3>1, <3>3, <3>4, <3>5 DEF RowReady
  <2>7. LcdKept(f, p, Position(p), missed, n) BY <1>3, <2>1, <2>3, <2>4, <2>5, <2>6 DEF LcdKept
  <2>8. QED BY <1>4, <1>5, <1>6, <1>14, <2>7
<1>18. QED BY <1>2, <1>15, <1>16, <1>17

(* Pixels are pushed to the row of the LCD, of the line they are drawn in. *)
LEMMA PushedFields ==
  ASSUME NEW l \in LcdRecords, NEW p, Planned(p), NEW q
  PROVE  /\ Pushed(l, p, q) \in LcdRecords
         /\ \A f \in {"row", "row_ticks", "frame_ticks", "ppu_on", "rendering_enabled", "wait_new_frame"} :
              Pushed(l, p, q)[f] = l[f]
         /\ p.selector = "pixel_transfer" /\ q.selector # "pixel_transfer" =>
              Pushed(l, p, q).line = LineOf(p) /\ Pushed(l, p, q).row_cursor = "all"
         /\ p.selector # "pixel_transfer" /\ q.selector # "pixel_transfer" => Pushed(l, p, q) = l
<1>1. CASE q.selector = "pixel_transfer" /\ p.selector # "pixel_transfer"
  <2>1. Pushed(l, p, q) = [l EXCEPT !.row_cursor = "none"] BY <1>1 DEF Pushed
  <2>2. Pushed(l, p, q) \in LcdRecords BY <2>1 DEF LcdRecords
  <2>3. QED BY <1>1, <2>1, <2>2 DEF LcdRecords
<1>2. CASE q.selector = "pixel_transfer" /\ p.selector = "pixel_transfer"
  <2>1. Pushed(l, p, q) = [l EXCEPT !.row_cursor = "some"] BY <1>2 DEF Pushed
  <2>2. Pushed(l, p, q) \in LcdRecords BY <2>1 DEF LcdRecords
  <2>3. QED BY <1>2, <2>1, <2>2 DEF LcdRecords
<1>3. CASE q.selector # "pixel_transfer" /\ p.selector = "pixel_transfer"
  <2>1. Pushed(l, p, q) = [l EXCEPT !.row_cursor = "all", !.line = p.line] BY <1>3 DEF Pushed
  <2>2. p.line \in NoLine .. Rows - 1
    BY <1>3, ConstantBounds DEF Bounds, Planned, TransferPlan, NoLine
  <2>3. Pushed(l, p, q) \in LcdRecords BY <2>1, <2>2 DEF LcdRecords
  <2>4. LineOf(p) = p.line BY <1>3 DEF LineOf, LateSelectors, WrappedSelectors
  <2>5. QED BY <1>3, <2>1, <2>3, <2>4 DEF LcdRecords
<1>4. CASE q.selector # "pixel_transfer" /\ p.selector # "pixel_transfer"
  BY <1>4 DEF Pushed
<1>5. QED BY <1>1, <1>2, <1>3, <1>4

(* A tick of the LCD beside the dot p, or beside no dot.                   *)
LEMMA LcdAfterKeeps ==
  ASSUME NEW l \in LcdRecords, NEW p, Planned(p), NEW missed \in 0 .. MaxLost,
         NEW synced \in BOOLEAN, LcdAfter(l, synced), shown.rows \in Nat,
         synced => ~l.wait_new_frame /\ l.row_ticks = 0,
         ~l.wait_new_frame => LcdKept(l, p, Position(p) - 1, missed, IF synced THEN 0 ELSE shown.rows),
         l.wait_new_frame => LcdKept(l, p, Position(p), missed, shown.rows)
  PROVE  /\ lcd' \in LcdRecords /\ lcd'.ppu_on = l.ppu_on /\ shown'.rows \in Nat
         /\ RowsInStep'
         /\ LcdKept(lcd', p, Position(p), missed, shown'.rows)
<1> DEFINE rows == IF synced THEN 0 ELSE shown.rows
<1>1. /\ lcd' = LcdTicked(l)
      /\ shown' = IF Renders(l)
                  THEN [row |-> l.row, line |-> l.line, whole |-> l.row_cursor = "all", rows |-> shown.rows + 1]
                  ELSE [NothingShown EXCEPT !.rows = rows]
  BY DEF LcdAfter
<1>2. CASE l.wait_new_frame
  <2>1. ~synced /\ ~Renders(l) /\ LcdTicked(l) = l BY <1>2 DEF Renders, LcdTicked
  <2>2. shown' = [NothingShown EXCEPT !.rows = shown.rows] BY <1>1, <2>1
  <2>3. shown'.rows = shown.rows /\ shown'.row = NoLine BY <2>2 DEF NothingShown
  <2>4. lcd' = l BY <1>1, <2>1
  <2>5. QED BY <1>2, <2>3, <2>4 DEF RowsInStep
<1>3. CASE ~l.wait_new_frame
  <2>1. rows \in Nat OBVIOUS
  <2>2. LcdKept(l, p, Position(p) - 1, missed, rows) BY <1>3
  <2> HIDE DEF rows
  <2> DEFINE n == IF Renders(l) THEN rows + 1 ELSE rows
  <2>3. /\ LcdTicked(l) \in LcdRecords /\ LcdTicked(l).ppu_on = l.ppu_on
        /\ LcdKept(LcdTicked(l), p, Position(p), missed, n)
        /\ Renders(l) => l.line = l.row /\ l.row_cursor = "all"
    BY <1>3, <2>1, <2>2, TickedKeeps
  <2>4. Renders(l) => ~synced BY ConstantBounds DEF Renders, Bounds
  <2>5. shown'.rows = n
    BY <1>1, <2>4 DEF NothingShown, rows
  <2>6. RowsInStep' BY <1>1, <2>3 DEF RowsInStep, NothingShown
  <2>7. n \in Nat BY <2>1
  <2> HIDE DEF n
  <2>8. QED BY <1>1, <2>3, <2>5, <2>6, <2>7
<1>4. QED BY <1>2, <1>3

(* A dot of the PPU and the tick of the LCD after it.                      *)
FrameMet ==
  /\ lcd.wait_new_frame /\ lcd.row = 0 /\ lcd.row_ticks = 0
  /\ lcd.rendering_enabled /\ shown.rows > 0 => shown.rows = Rows

LEMMA VideoDotKeeps ==
  ASSUME VideoInv, NEW q \in DotOf(ppu), NEW dma \in BOOLEAN, Dot(q, dma), Tick
  PROVE  VideoInv' /\ ("new_frame" \in raised' => FrameMet)
<1> DEFINE pushed == Pushed(lcd, ppu, q)
           synced == ppu.selector = "last_line_455"
           l == IF synced THEN NewFrame(pushed) ELSE pushed
<1>1. /\ PpuInv /\ lcd \in LcdRecords /\ lcd.ppu_on = lcdc.enable
      /\ lost \in 0 .. MaxLost /\ shown.rows \in Nat
      /\ LcdKept(lcd, ppu, Position(ppu), lost, shown.rows)
      /\ Planned(ppu)
  BY DEF VideoInv, PpuInv
<1>2. PpuInv' /\ ppu' = q /\ lcdc.enable /\ Planned(q) BY <1>1, DotKeeps, DotStep DEF Dot
<1>3. "new_frame" \in raised' <=> synced BY DEF Dot, EntersFrame
<1>4. LcdAfter(l, synced) /\ lost' = IF synced THEN 0 ELSE lost
  BY <1>2, <1>3 DEF Tick
<1>5. lcdc'.enable = lcdc.enable BY <1>1, WriteTicks DEF Dot
<1>6. Moves(ppu, q) BY <1>1, DotMoves
<1>7. /\ Position(ppu) \in Nat /\ Position(q) \in Nat
      /\ synced => Position(ppu) = LineStart(Lines) - 1 /\ Position(q) = 0
      /\ ~synced => Position(q) = Position(ppu) + 1
  BY <1>1, <1>2, <1>6, PositionMoves
<1>0. /\ pushed \in LcdRecords
      /\ \A f \in {"row", "row_ticks", "frame_ticks", "ppu_on", "rendering_enabled", "wait_new_frame"} :
           pushed[f] = lcd[f]
      /\ ppu.selector = "pixel_transfer" /\ q.selector # "pixel_transfer" =>
           pushed.line = LineOf(ppu) /\ pushed.row_cursor = "all"
      /\ ppu.selector # "pixel_transfer" /\ q.selector # "pixel_transfer" => pushed = lcd
  BY ZenonT(30), <1>1, PushedFields
<1> HIDE DEF pushed
<1>8. /\ pushed \in LcdRecords
      /\ pushed.row = lcd.row /\ pushed.row_ticks = lcd.row_ticks /\ pushed.frame_ticks = lcd.frame_ticks
      /\ pushed.ppu_on = lcd.ppu_on /\ pushed.rendering_enabled = lcd.rendering_enabled
      /\ pushed.wait_new_frame = lcd.wait_new_frame
      /\ ppu.selector = "pixel_transfer" /\ q.selector # "pixel_transfer" =>
           pushed.line = LineOf(ppu) /\ pushed.row_cursor = "all"
      /\ ppu.selector # "pixel_transfer" /\ q.selector # "pixel_transfer" => pushed = lcd
  BY <1>0
<1>9. /\ lcd.row \in 0 .. Rows /\ lcd.row_ticks \in 0 .. LineEnd - 1 /\ lcd.frame_ticks \in 0 .. SyncTicks + 1
  BY <1>1 DEF LcdRecords
<1> HIDE DEF synced
<1>10. synced => FrameMet
  <2> SUFFICES ASSUME synced PROVE FrameMet OBVIOUS
  <2>1. lcd.wait_new_frame
    <3> SUFFICES ASSUME ~lcd.wait_new_frame PROVE FALSE BY <1>1 DEF LcdRecords
    <3>1. WillWait(lcd, Position(ppu)) BY <1>1, <1>2 DEF LcdKept
    <3>2. QED BY <1>7, <1>9, <3>1, LastMultiples, ConstantBounds DEF WillWait, Bounds
  <2>2. QED BY <1>1, <2>1 DEF LcdKept, FrameMet
<1>11. lost' \in 0 .. MaxLost BY <1>1, <1>4, VideoAssumption
<1>12. CASE synced
  <2>1. FrameMet BY <1>10, <1>12
  <2>2. l = [pushed EXCEPT !.rendering_enabled = TRUE, !.wait_new_frame = FALSE, !.frame_ticks = 0]
    BY <1>8, <1>12, <2>1 DEF NewFrame, FrameMet
  <2>3. 0 \in 0 .. SyncTicks + 1 BY LastMultiples
  <2> HIDE DEF l
  <2>4. l \in LcdRecords BY <1>8, <2>2, <2>3 DEF LcdRecords
  <2>5. /\ l.rendering_enabled /\ ~l.wait_new_frame /\ l.frame_ticks = 0 /\ l.row = 0 /\ l.row_ticks = 0
        /\ l.ppu_on
    BY <1>1, <1>2, <1>8, <2>1, <2>2 DEF LcdRecords, FrameMet
  <2>6. lost' = 0 /\ Position(q) = 0 BY <1>4, <1>7, <1>12
  <2>7. LcdPosition(l) = 0 /\ Rows > 0 /\ Rows # 0 /\ Rows \in Nat BY <2>5, Multiples, LastMultiples DEF LcdPosition
  <2>8. WillWait(l, Position(q) - 1)
    BY <2>5, <2>6, <2>7, LastMultiples DEF WillWait
  <2>9. InStep(l, Position(q) - 1, 0, 0)
    BY <2>5, <2>6, <2>7, ConstantBounds DEF InStep, Bounds
  <2>10. ~RowPushed(q) BY <1>6, <1>12 DEF Moves, NextFrame, synced
  <2>11. LcdKept(l, q, Position(q) - 1, 0, 0)
    BY <2>5, <2>7, <2>8, <2>9, <2>10 DEF LcdKept, RowReady
  <2>12. LcdAfter(l, TRUE) BY <1>4, <1>12
  <2>13. 0 \in 0 .. MaxLost BY VideoAssumption
  <2>14. /\ lcd' \in LcdRecords /\ lcd'.ppu_on = l.ppu_on /\ shown'.rows \in Nat
         /\ RowsInStep' /\ LcdKept(lcd', q, Position(q), 0, shown'.rows)
    BY <1>1, <1>2, <2>4, <2>5, <2>11, <2>12, <2>13, LcdAfterKeeps
  <2>15. LcdKept(lcd', ppu', Position(ppu'), lost', shown'.rows) BY <1>2, <2>6, <2>14
  <2>16. lcd'.ppu_on = lcdc'.enable BY <1>1, <1>2, <1>5, <2>5, <2>14
  <2>17. QED BY <1>2, <1>3, <1>10, <1>11, <2>14, <2>15, <2>16 DEF VideoInv, Position, LcdKept, RowReady
<1>13. CASE ~synced
  <2>1. l = pushed BY <1>13
  <2> HIDE DEF l
  <2>2. lost' = lost /\ Position(q) = Position(ppu) + 1 BY <1>4, <1>7, <1>13
  <2>3. lcd.rendering_enabled /\ ~lcd.wait_new_frame => RowReady(l, q)
    <3> SUFFICES ASSUME lcd.rendering_enabled, ~lcd.wait_new_frame,
                        l.row < Rows, l.row_ticks < Sync, LineOf(q) = l.row, RowPushed(q)
                 PROVE  l.line = l.row /\ l.row_cursor = "all"
      BY DEF RowReady
    <3>1. RowReady(lcd, ppu) BY <1>1 DEF LcdKept
    <3>2. lcd.row < Rows /\ lcd.row_ticks < Sync /\ LineOf(q) = lcd.row BY <1>8, <2>1
    <3>3. q.selector # "pixel_transfer" BY DEF RowPushed
    <3>4. ~NextLine(ppu, q) BY <1>9, <3>2, LastMultiples DEF NextLine
    <3>5. SameLine(ppu, q) BY <1>6, <1>13, <3>4 DEF Moves, synced
    <3>6. CASE ppu.selector = "pixel_transfer" BY <1>8, <2>1, <3>2, <3>3, <3>5, <3>6 DEF SameLine
    <3>7. CASE ppu.selector # "pixel_transfer"
      <4>1. RowPushed(ppu) /\ LineOf(ppu) = lcd.row BY <3>2, <3>5, <3>7 DEF SameLine
      <4>2. QED BY <1>8, <2>1, <3>1, <3>2, <3>3, <3>7, <4>1 DEF RowReady
    <3>8. QED BY <3>6, <3>7
  <2>4. ~l.wait_new_frame => LcdKept(l, q, Position(q) - 1, lost, shown.rows)
    <3>1. Position(q) - 1 = Position(ppu) BY <1>7, <2>2
    <3>2. QED BY <1>1, <1>8, <2>1, <2>3, <3>1 DEF LcdKept, WillWait, InStep, LcdPosition
  <2>5. l.wait_new_frame => LcdKept(l, q, Position(q), lost, shown.rows)
    BY <1>1, <1>8, <2>1 DEF LcdKept
  <2>6. LcdAfter(l, FALSE) BY <1>4, <1>13 DEF LcdAfter
  <2>7. l \in LcdRecords BY <1>8, <2>1
  <2>8. /\ lcd' \in LcdRecords /\ lcd'.ppu_on = l.ppu_on /\ shown'.rows \in Nat
        /\ RowsInStep' /\ LcdKept(lcd', q, Position(q), lost, shown'.rows)
    BY <1>1, <1>2, <2>4, <2>5, <2>6, <2>7, LcdAfterKeeps
  <2>9. lcd'.ppu_on = lcdc'.enable BY <1>1, <1>5, <1>8, <2>1, <2>8
  <2>10. LcdKept(lcd', ppu', Position(ppu'), lost', shown'.rows) BY <1>2, <2>2, <2>8
  <2>11. QED BY <1>2, <1>3, <1>10, <1>11, <2>8, <2>9, <2>10 DEF VideoInv, Position, LcdKept, RowReady
<1>14. QED BY <1>12, <1>13

(* A tick the PPU misses, and one of a PPU that is off.                    *)
LEMMA BlockedKeeps ==
  ASSUME VideoInv, BlockedTick
  PROVE  VideoInv'
<1>1. /\ PpuInv /\ lcd \in LcdRecords /\ lcd.ppu_on = lcdc.enable
      /\ lost \in 0 .. MaxLost /\ shown.rows \in Nat
      /\ LcdKept(lcd, ppu, Position(ppu), lost, shown.rows)
      /\ Planned(ppu)
  BY DEF VideoInv, PpuInv
<1>0. lost < MaxLost /\ lost' = lost + 1 /\ LcdAfter(lcd, FALSE) /\ UNCHANGED ppuVars
  BY DEF BlockedTick
<1>2. lost' = lost + 1 /\ lost + 1 \in 0 .. MaxLost /\ LcdAfter(lcd, FALSE) /\ UNCHANGED ppuVars
  <2>1. MaxLost \in Nat BY VideoAssumption, ConstantBounds DEF Bounds
  <2>2. lost \in 0 .. MaxLost /\ lost < MaxLost BY <1>0, <1>1
  <2>3. lost + 1 \in 0 .. MaxLost BY <2>1, <2>2
  <2>4. QED BY <1>0, <2>3
<1>3. PpuInv' BY <1>1, <1>2, PpuStep
<1>4. ppu' = ppu /\ lcdc' = lcdc BY <1>2 DEF ppuVars
<1>5. Position(ppu) \in Nat
  <2>1. LineOf(ppu) \in Nat /\ ppu.dots \in Nat BY <1>1, LinesOfDots, ConstantBounds DEF Bounds
  <2>2. QED BY <2>1, Multiples DEF Position
<1>6. lcd.frame_ticks \in Nat BY <1>1, LastMultiples DEF LcdRecords
<1>7. ~lcd.wait_new_frame => LcdKept(lcd, ppu, Position(ppu) - 1, lost + 1, shown.rows)
  BY <1>1, <1>5, <1>6 DEF LcdKept, WillWait, InStep
<1>8. lcd.wait_new_frame => LcdKept(lcd, ppu, Position(ppu), lost + 1, shown.rows)
  BY <1>1 DEF LcdKept
<1>9. /\ lcd' \in LcdRecords /\ lcd'.ppu_on = lcd.ppu_on /\ shown'.rows \in Nat
      /\ RowsInStep' /\ LcdKept(lcd', ppu, Position(ppu), lost + 1, shown'.rows)
  BY <1>1, <1>2, <1>7, <1>8, LcdAfterKeeps
<1>10. LcdKept(lcd', ppu', Position(ppu'), lost', shown'.rows) BY <1>2, <1>4, <1>9
<1>11. QED BY <1>1, <1>2, <1>3, <1>4, <1>9, <1>10 DEF VideoInv, Position, LcdKept, RowReady

LEMMA VideoOffKeeps ==
  ASSUME VideoInv, TickOff, Tick
  PROVE  VideoInv' /\ "new_frame" \notin raised'
<1>1. /\ PpuInv /\ lcd \in LcdRecords /\ lcd.ppu_on = lcdc.enable
      /\ lost \in 0 .. MaxLost /\ shown.rows \in Nat
      /\ LcdKept(lcd, ppu, Position(ppu), lost, shown.rows)
      /\ Planned(ppu)
  BY DEF VideoInv, PpuInv
<1>2. PpuInv' /\ ppu' = ppu /\ lcdc'.enable = lcdc.enable BY <1>1, TickOffKeeps
<1>3. raised' = {} /\ ~lcdc.enable BY DEF TickOff
<1>4. LcdAfter(lcd, FALSE) /\ lost' = lost
  <2>1. "new_frame" \notin raised' BY <1>3
  <2>2. QED BY <1>3, <2>1 DEF Tick, LcdAfter
<1>5. ~lcd.wait_new_frame /\ LcdKept(lcd, ppu, Position(ppu) - 1, lost, shown.rows)
  BY <1>1, <1>3 DEF LcdKept, LcdRecords
<1>6. /\ lcd' \in LcdRecords /\ lcd'.ppu_on = lcd.ppu_on /\ shown'.rows \in Nat
      /\ RowsInStep' /\ LcdKept(lcd', ppu, Position(ppu), lost, shown'.rows)
  BY <1>1, <1>4, <1>5, LcdAfterKeeps
<1>7. LcdKept(lcd', ppu', Position(ppu'), lost', shown'.rows) BY <1>2, <1>4, <1>6
<1>8. QED BY <1>1, <1>2, <1>3, <1>4, <1>6, <1>7 DEF VideoInv, Position, LcdKept, RowReady

(* LCDC turns the PPU on: the LCD waits for SyncRows rows from now on.     *)
LEMMA VideoWriteKeeps ==
  ASSUME VideoInv, NEW enable \in BOOLEAN, NEW bits \in Settings, Write(enable, bits)
  PROVE  VideoInv'
<1>1. /\ PpuInv /\ lcd \in LcdRecords /\ lcd.ppu_on = lcdc.enable
      /\ lost \in 0 .. MaxLost /\ shown.rows \in Nat
      /\ LcdKept(lcd, ppu, Position(ppu), lost, shown.rows)
      /\ lcdc \in [enable : BOOLEAN, bits : Settings] /\ ppu \in PpuStates
  BY DEF VideoInv, PpuInv, PpuTypeOK, PpuStates
<1>2. WriteLcdc(enable, bits) /\ lost' = lost BY DEF Write
<1>3. PpuInv' BY <1>1, <1>2, WriteLcdcKeeps
<1>4. lcdc'.enable = enable BY <1>1, <1>2 DEF WriteLcdc
<1>5. /\ lcd' = IF enable = lcdc.enable THEN lcd ELSE IF enable THEN LcdOn ELSE LcdOff
      /\ shown' = [NothingShown EXCEPT !.rows = IF enable = lcdc.enable THEN shown.rows ELSE 0]
  BY DEF Write
<1>6. /\ shown'.row = NoLine /\ shown'.rows = IF enable = lcdc.enable THEN shown.rows ELSE 0
  BY <1>5 DEF NothingShown
<1>7. RowsInStep' /\ shown'.rows \in Nat BY <1>1, <1>6 DEF RowsInStep
<1>8. CASE enable = lcdc.enable
  <2>1. ppu' = ppu BY <1>2, <1>8 DEF WriteLcdc
  <2>2. lcd' = lcd /\ shown'.rows = shown.rows BY <1>5, <1>6, <1>8
  <2>3. LcdKept(lcd', ppu', Position(ppu'), lost', shown'.rows) BY <1>1, <1>2, <2>1, <2>2
  <2>4. QED BY <1>1, <1>2, <1>3, <1>4, <1>7, <1>8, <2>2, <2>3 DEF VideoInv, Position, LcdKept, RowReady
<1>9. CASE enable /\ ~lcdc.enable
  <2>1. ppu' = IF double_speed THEN [ppu EXCEPT !.dots = 1] ELSE ppu
    BY <1>2, <1>9 DEF WriteLcdc, TurnOn
  <2>2. ppu.selector = "after_turn_on" /\ ppu.dots = 0 /\ ppu.line = 0
    BY <1>1, <1>9 DEF PpuInv, OffWaits, Planned, ScanPlan
  <2>3. ppu'.selector = "after_turn_on" /\ ppu'.dots \in {0, 1} /\ ppu'.line = 0
    BY <1>1, <2>1, <2>2 DEF PpuStates
  <2>4. LineOf(ppu') = 0 BY <2>3 DEF LineOf, LateSelectors, WrappedSelectors
  <2>5. Position(ppu') <= 1 BY <2>3, <2>4, Multiples DEF Position
  <2>6. lcd' = [lcd EXCEPT !.ppu_on = TRUE, !.frame_ticks = 0] BY <1>5, <1>9 DEF LcdOn
  <2>7. 0 \in 0 .. SyncTicks + 1 BY LastMultiples
  <2>8. lcd' \in LcdRecords BY <1>1, <2>6, <2>7 DEF LcdRecords
  <2>9. ~lcd.wait_new_frame /\ ~lcd.rendering_enabled BY <1>1, <1>9 DEF LcdKept, LcdRecords
  <2>10. /\ lcd'.ppu_on /\ lcd'.frame_ticks = 0 /\ lcd'.row = lcd.row /\ lcd'.row_ticks = lcd.row_ticks
         /\ ~lcd'.wait_new_frame /\ ~lcd'.rendering_enabled
    BY <1>1, <2>6, <2>9 DEF LcdRecords
  <2>11. lcd.row \in Nat /\ lcd.row_ticks \in Nat BY <1>1, ConstantBounds DEF LcdRecords, Bounds
  <2>12. WillWait(lcd', Position(ppu'))
    <3>1. LineStart(lcd'.row) \in Nat /\ lcd'.row_ticks \in Nat BY <2>10, <2>11, Multiples
    <3>2. LcdPosition(lcd') >= 0 BY <3>1 DEF LcdPosition
    <3>3. 0 < SyncTicks BY LastMultiples
    <3>4. lcd'.frame_ticks = 0 BY <2>10
    <3> HIDE DEF LcdPosition
    <3>5. QED BY <2>5, <3>2, <3>3, <3>4 DEF WillWait
  <2>13. LcdKept(lcd', ppu', Position(ppu'), lost', shown'.rows)
    BY <1>1, <2>10, <2>12 DEF LcdKept
  <2>14. lcd'.ppu_on = lcdc'.enable BY <1>4, <1>9, <2>10
  <2>15. QED BY <1>1, <1>2, <1>3, <1>7, <2>8, <2>13, <2>14 DEF VideoInv, Position, LcdKept, RowReady
<1>10. CASE ~enable /\ lcdc.enable
  <2>1. lcd' = LcdOff BY <1>5, <1>10
  <2> DEFINE next == IF lcd.row < Rows /\ lcd.row_increment_enabled THEN lcd.row + 1 ELSE lcd.row
             drawn == IF lcd.row < Rows THEN NoLine ELSE lcd.line
  <2>2. lcd' = [lcd EXCEPT !.row = next, !.line = drawn, !.ppu_on = FALSE, !.rendering_enabled = FALSE,
                           !.row_increment_enabled = FALSE, !.wait_new_frame = FALSE, !.row_ticks = 0]
    BY <1>1, <2>1 DEF LcdOff, LcdRecords
  <2>3. next \in 0 .. Rows /\ drawn \in NoLine .. Rows - 1 /\ 0 \in 0 .. LineEnd - 1
    BY <1>1, ConstantBounds DEF LcdRecords, Bounds, NoLine
  <2> HIDE DEF next, drawn
  <2>4. lcd' \in LcdRecords BY <1>1, <2>2, <2>3 DEF LcdRecords
  <2>5. ~lcd'.ppu_on /\ ~lcd'.rendering_enabled /\ ~lcd'.wait_new_frame /\ lcd'.row_ticks = 0
    BY <1>1, <2>2 DEF LcdRecords
  <2>6. LcdKept(lcd', ppu', Position(ppu'), lost', shown'.rows) BY <2>5 DEF LcdKept
  <2>7. lcd'.ppu_on = lcdc'.enable BY <1>4, <1>10, <2>4, <2>5 DEF LcdRecords
  <2>8. QED BY <1>1, <1>2, <1>3, <1>7, <2>4, <2>6, <2>7 DEF VideoInv, Position, LcdKept, RowReady
<1>11. QED BY <1>1, <1>8, <1>9, <1>10

LEMMA VideoInitial == VideoInit => VideoInv
<1> SUFFICES ASSUME VideoInit PROVE VideoInv OBVIOUS
<1>1. PpuInv BY PpuInitial DEF VideoInit
<1>2. lcdc.enable BY DEF VideoInit, PpuInit
<1>3. SyncTicks \in 0 .. SyncTicks + 1 /\ 0 \in 0 .. Rows /\ 0 \in 0 .. LineEnd - 1 /\ NoLine \in NoLine .. Rows - 1
      /\ Rows # 0 /\ 0 \in 0 .. MaxLost
  BY LastMultiples, ConstantBounds, VideoAssumption DEF Bounds, NoLine
<1>4. lcd = LcdReset /\ lost = 0 /\ shown = NothingShown BY DEF VideoInit
<1>5. lcd \in LcdRecords BY <1>3, <1>4 DEF LcdReset, LcdRecords
<1>6. shown.rows = 0 /\ shown.row = NoLine BY <1>4 DEF NothingShown
<1>7. lcd.ppu_on /\ lcd.wait_new_frame /\ lcd.row = 0 /\ lcd.row_ticks = 0 BY <1>4 DEF LcdReset
<1>8. lcd.ppu_on = lcdc.enable
  <2>1. lcdc.enable = TRUE BY DEF VideoInit, PpuInit
  <2>2. lcd.ppu_on = TRUE BY <1>4 DEF LcdReset
  <2>3. QED BY <2>1, <2>2
<1>9. LcdKept(lcd, ppu, Position(ppu), lost, shown.rows) BY <1>3, <1>6, <1>7 DEF LcdKept
<1>10. QED BY <1>1, <1>3, <1>4, <1>5, <1>6, <1>8, <1>9 DEF VideoInv, RowsInStep

LEMMA VideoTickKeeps ==
  ASSUME VideoInv, Tick
  PROVE  VideoInv' /\ ("new_frame" \in raised' => FrameMet)
<1>1. CASE \E q \in DotOf(ppu), dma \in BOOLEAN : Dot(q, dma)
  <2>1. PICK q \in DotOf(ppu), dma \in BOOLEAN : Dot(q, dma) BY <1>1
  <2>2. QED BY <2>1, VideoDotKeeps
<1>2. CASE TickOff BY <1>2, VideoOffKeeps
<1>3. QED BY <1>1, <1>2 DEF Tick, PpuTick

LEMMA VideoStep == VideoInv /\ [VideoNext]_videoVars => VideoInv'
<1> SUFFICES ASSUME VideoInv, [VideoNext]_videoVars PROVE VideoInv' OBVIOUS
<1>1. CASE Tick BY <1>1, VideoTickKeeps
<1>2. CASE BlockedTick BY <1>2, BlockedKeeps
<1>3. CASE \E enable \in BOOLEAN, bits \in Settings : Write(enable, bits)
  BY <1>3, VideoWriteKeeps
<1>4. CASE Speed \/ UNCHANGED videoVars
  <2>1. PpuInv' /\ ppu' = ppu /\ lcdc' = lcdc
    <3>1. PpuInv BY DEF VideoInv
    <3>2. CASE Speed BY <3>1, <3>2, OthersKeep DEF Speed
    <3>3. CASE UNCHANGED videoVars
      <4>1. UNCHANGED ppuVars BY <3>3 DEF videoVars
      <4>2. PpuInv' BY <3>1, <4>1, PpuStep
      <4>3. QED BY <4>1, <4>2 DEF ppuVars
    <3>4. QED BY <1>4, <3>2, <3>3
  <2>2. UNCHANGED <<lcd, lost, shown>> BY <1>4 DEF Speed, videoVars
  <2>3. QED BY <2>1, <2>2 DEF VideoInv, RowsInStep, Position, LcdKept, RowReady
<1>5. QED BY <1>1, <1>2, <1>3, <1>4 DEF VideoNext

LEMMA VideoInvShows == VideoInv => LcdTypeOK /\ RowsInStep
BY DEF VideoInv, LcdTypeOK, LcdRecords

LEMMA FramesMeet == VideoInv /\ [VideoNext]_videoVars =>
  [Tick /\ "new_frame" \in raised' =>
     /\ lcd.wait_new_frame /\ lcd.row = 0 /\ lcd.row_ticks = 0
     /\ lcd.rendering_enabled /\ shown.rows > 0 => shown.rows = Rows]_videoVars
BY VideoTickKeeps DEF FrameMet

(* The picture is in step, for lines and frames of any size and the PPU    *)
(* turned off and on at any time: every row the LCD shows is whole and the *)
(* line it stands on, every frame shown has all its rows, and a new frame  *)
(* of the PPU meets an LCD that waits for it.                              *)
THEOREM PictureAlwaysInStep == VideoSpec => PictureInStep
<1>1. VideoSpec => []VideoInv
  BY VideoInitial, VideoStep, PTL DEF VideoSpec
<1>2. VideoSpec => [](LcdTypeOK /\ RowsInStep)
  BY <1>1, VideoInvShows, PTL
<1>3. VideoSpec => FramesInStep
  BY <1>1, FramesMeet, PTL DEF VideoSpec, FramesInStep
<1>4. QED BY <1>2, <1>3 DEF PictureInStep

-----------------------------------------------------------------------------
(* The pixel transfer of a row, for tiles, rows and objects of any number. *)

Columns == 0 .. LastLx - 1

ObjSets == {objs \in SUBSET [x : Columns, number : Nat] : IsFiniteSet(objs)}
TransferSelectors == {"dummy", "discard_wx0", "discard", "draw", "hblank"}
RowRecords == [
  selector : TransferSelectors, dots : Nat, lx : 0 .. LastLx, discard : 0 .. Tile - 1,
  bg : 0 .. Tile, obj : 0 .. Tile, fill : BOOLEAN, partial : 0 .. Tile,
  fetch : Phases, push : BOOLEAN, sprite : BOOLEAN, cached : BOOLEAN,
  activating : BOOLEAN, active : BOOLEAN, just_activated : BOOLEAN,
  objs : ObjSets,
  scroll : 0 .. Tile - 1, total : Nat, served : Nat, triggers : Nat, wx0 : BOOLEAN, cancelled : BOOLEAN]

FetcherKept(r) ==
  /\ r.sprite <=> r.fetch \in ObjPhases
  /\ r.cached => r.sprite
  /\ r.activating => ~r.sprite /\ ~r.active

(* In the course of a dot, after handle_fill: nothing is put aside. *)
Filled(r) == FetcherKept(r) /\ ~r.fill /\ (r.sprite => r.bg > 0)

(* At the end of a dot. *)
TileWaits(r) == (r.sprite => r.bg > 0 \/ r.fill) /\ (r.fill => r.bg = 0)

(* What only the selector's own function changes. *)
SamePlace(r, s) ==
  s.selector = r.selector /\ s.dots = r.dots /\ s.lx = r.lx /\ s.discard = r.discard

LEMMA TileFills == Tile \in 0 .. Tile /\ Tile > 0 /\ 0 \in 0 .. Tile
BY TransferAssumption

LEMMA PhaseFacts ==
  /\ {"idle", "tile_0", "tile_1", "high_1"} \subseteq Phases /\ ObjPhases \subseteq Phases
  /\ {"idle", "tile_0", "tile_1", "high_1"} \cap ObjPhases = {}
  /\ {"obj_tile_0", "obj_tile_1"} \subseteq ObjPhases
BY DEF Phases, ObjPhases, NextPhase

LEMMA WindowRecord ==
  ASSUME NEW r \in RowRecords, NEW t \in Nat, NEW w \in BOOLEAN, NEW f \in Phases
  PROVE  [r EXCEPT !.triggers = t, !.wx0 = w, !.activating = FALSE, !.fetch = f] \in RowRecords
  BY Zenon DEF RowRecords

LEMMA CancelRecord ==
  ASSUME NEW r \in RowRecords, NEW n \in 0 .. Tile, NEW c \in BOOLEAN, NEW f \in Phases
  PROVE  [r EXCEPT !.partial = n, !.cancelled = c, !.activating = FALSE, !.fetch = f] \in RowRecords
  BY Zenon DEF RowRecords

LEMMA HandleWindowKeeps ==
  ASSUME NEW r \in RowRecords, FetcherKept(r), TileWaits(r)
  PROVE  /\ HandleWindow(r) \in RowRecords
         /\ FetcherKept(HandleWindow(r)) /\ TileWaits(HandleWindow(r))
         /\ ~HandleWindow(r).activating
         /\ SamePlace(r, HandleWindow(r)) /\ HandleWindow(r).objs = r.objs
<1>1. CASE ~r.activating
  BY <1>1 DEF HandleWindow, RowRecords, SamePlace
<1>2. CASE r.activating /\ row_lcdc.win
  <2>1. PICK triggers \in Nat, first \in BOOLEAN :
          HandleWindow(r) =
            [r EXCEPT !.bg = 0, !.active = TRUE, !.just_activated = TRUE, !.triggers = triggers,
                      !.wx0 = first, !.activating = FALSE, !.fetch = "tile_0"]
    <3>1. r.triggers + 1 \in Nat /\ (r.wx0 \/ TriggerColumn(r) = 0) \in BOOLEAN
      BY DEF RowRecords
    <3>2. HandleWindow(r) =
            [r EXCEPT !.bg = 0, !.active = TRUE, !.just_activated = TRUE, !.triggers = r.triggers + 1,
                      !.wx0 = (r.wx0 \/ TriggerColumn(r) = 0), !.activating = FALSE, !.fetch = "tile_0"]
      BY <1>2 DEF HandleWindow, ActivateWindow, RowRecords
    <3>3. QED BY <3>1, <3>2, Zenon
  <2>2. "tile_0" \in Phases /\ "tile_0" \notin ObjPhases BY PhaseFacts
  <2>3. HandleWindow(r) \in RowRecords
    <3> DEFINE s == [r EXCEPT !.bg = 0, !.active = TRUE, !.just_activated = TRUE]
    <3>1. s \in RowRecords
      BY TileFills DEF RowRecords
    <3>2. HandleWindow(r) =
            [s EXCEPT !.triggers = triggers, !.wx0 = first, !.activating = FALSE, !.fetch = "tile_0"]
      BY <2>1 DEF RowRecords
    <3> HIDE DEF s
    <3>3. [s EXCEPT !.triggers = triggers, !.wx0 = first, !.activating = FALSE, !.fetch = "tile_0"]
            \in RowRecords
      BY ONLY <2>2, <3>1, triggers \in Nat, first \in BOOLEAN, WindowRecord, Zenon
    <3>4. QED BY ONLY <3>2, <3>3
  <2>4. QED BY <1>2, <2>1, <2>2, <2>3 DEF RowRecords, SamePlace, FetcherKept, TileWaits
<1>3. CASE r.activating /\ ~row_lcdc.win
  <2>1. PICK pixels \in 0 .. Tile, cancels \in BOOLEAN :
          HandleWindow(r) =
            [r EXCEPT !.partial = pixels, !.cancelled = cancels, !.activating = FALSE, !.fetch = "tile_0"]
    <3> DEFINE pixels == IF r.bg = 0 THEN Tile ELSE r.bg
    <3>1. pixels \in 0 .. Tile /\ (r.cancelled \/ r.selector = "discard_wx0") \in BOOLEAN
      BY TileFills DEF RowRecords
    <3>2. HandleWindow(r) =
            [r EXCEPT !.partial = pixels, !.cancelled = (r.cancelled \/ r.selector = "discard_wx0"),
                      !.activating = FALSE, !.fetch = "tile_0"]
      BY <1>3 DEF HandleWindow, RowRecords
    <3> HIDE DEF pixels
    <3>3. QED BY <3>1, <3>2, Zenon
  <2>2. "tile_0" \in Phases /\ "tile_0" \notin ObjPhases BY PhaseFacts
  <2>3. HandleWindow(r) \in RowRecords
    <3>1. [r EXCEPT !.partial = pixels, !.cancelled = cancels, !.activating = FALSE, !.fetch = "tile_0"]
            \in RowRecords
      BY ONLY r \in RowRecords, <2>2, pixels \in 0 .. Tile, cancels \in BOOLEAN, CancelRecord, Zenon
    <3>2. QED BY ONLY <2>1, <3>1
  <2>4. QED BY <1>3, <2>1, <2>2, <2>3 DEF RowRecords, SamePlace, FetcherKept, TileWaits
<1>4. QED BY <1>1, <1>2, <1>3

LEMMA HandleFillKeeps ==
  ASSUME NEW r \in RowRecords, FetcherKept(r), TileWaits(r)
  PROVE  /\ HandleFill(r) \in RowRecords
         /\ Filled(HandleFill(r))
         /\ SamePlace(r, HandleFill(r)) /\ HandleFill(r).objs = r.objs
         /\ HandleFill(r).activating = r.activating
<1>1. CASE r.fill
  BY <1>1, TileFills
  DEF HandleFill, RowRecords, SamePlace, FetcherKept, TileWaits, Filled
<1>2. CASE ~r.fill /\ r.partial > 0
  BY <1>2, TileFills
  DEF HandleFill, RowRecords, SamePlace, FetcherKept, TileWaits, Filled
<1>3. CASE ~r.fill /\ ~(r.partial > 0)
  BY <1>3, TileFills
  DEF HandleFill, RowRecords, SamePlace, FetcherKept, TileWaits, Filled
<1>4. QED BY <1>1, <1>2, <1>3

LEMMA CheckWindowKeeps ==
  ASSUME NEW r \in RowRecords, Filled(r), ~r.sprite, ~r.activating
  PROVE  /\ CheckWindow(r) \in RowRecords
         /\ Filled(CheckWindow(r)) /\ ~CheckWindow(r).sprite
         /\ SamePlace(r, CheckWindow(r)) /\ CheckWindow(r).objs = r.objs
<1>1. CASE window_seen /\ ~r.active /\ row_lcdc.win /\ r.lx = wx
  BY <1>1 DEF CheckWindow, RowRecords, SamePlace, FetcherKept, Filled, Phases, ObjPhases
<1>2. CASE ~(window_seen /\ ~r.active /\ row_lcdc.win /\ r.lx = wx)
  BY <1>2 DEF CheckWindow, SamePlace
<1>3. QED BY <1>1, <1>2

(* NextPhase stays among the object's phases, or out of them. *)
LEMMA PhasesFollow ==
  ASSUME NEW p \in Phases, p \notin {"idle", "tile_0", "high_1", "obj_high_1"}
  PROVE  NextPhase[p] \in Phases /\ (p \in ObjPhases <=> NextPhase[p] \in ObjPhases)
<1>1. DOMAIN NextPhase = {"tile_0", "tile_1", "low_0", "low_1", "high_0",
                          "obj_tile_0", "obj_tile_1", "obj_low_0", "obj_low_1", "obj_high_0"}
  BY DEF NextPhase
<1>2. p \in {"tile_1", "low_0", "low_1", "high_0",
             "obj_tile_0", "obj_tile_1", "obj_low_0", "obj_low_1", "obj_high_0"}
  BY <1>1 DEF Phases, ObjPhases
<1>3. /\ NextPhase["tile_1"] = "low_0" /\ NextPhase["low_0"] = "low_1"
      /\ NextPhase["low_1"] = "high_0" /\ NextPhase["high_0"] = "high_1"
      /\ NextPhase["obj_tile_0"] = "obj_tile_1" /\ NextPhase["obj_tile_1"] = "obj_low_0"
      /\ NextPhase["obj_low_0"] = "obj_low_1" /\ NextPhase["obj_low_1"] = "obj_high_0"
      /\ NextPhase["obj_high_0"] = "obj_high_1"
  BY DEF NextPhase
<1>4. QED BY <1>1, <1>2, <1>3 DEF Phases, ObjPhases

LEMMA FewerObjs ==
  ASSUME NEW objs \in ObjSets, NEW fewer, fewer \subseteq objs
  PROVE  fewer \in ObjSets
BY FS_Subset DEF ObjSets

LEMMA PullObjKeeps ==
  ASSUME NEW r \in RowRecords, r.lx < LastLx, ObjsHere(r) # {},
         NEW p \in ObjPhases
  PROVE  /\ PullObj(r, p) \in RowRecords
         /\ PullObj(r, p).sprite /\ PullObj(r, p).fetch = p
         /\ PullObj(r, p).bg = r.bg /\ PullObj(r, p).fill = r.fill
         /\ PullObj(r, p).activating = r.activating
         /\ SamePlace(r, PullObj(r, p))
         /\ PullObj(r, p).objs \subseteq r.objs
<1> DEFINE objs == r.objs \ {CHOOSE o \in ObjsHere(r) : TRUE}
<1>1. r.objs \in ObjSets /\ r.served + 1 \in Nat BY DEF RowRecords
<1>2. objs \subseteq r.objs OBVIOUS
<1>3. objs \in ObjSets BY <1>1, <1>2, FewerObjs
<1>4. PullObj(r, p) = [r EXCEPT !.sprite = TRUE, !.objs = objs, !.served = @ + 1, !.fetch = p]
  BY DEF PullObj
<1> HIDE DEF objs
<1>5. p \in Phases BY PhaseFacts
<1>6. PullObj(r, p) \in RowRecords BY <1>1, <1>3, <1>4, <1>5 DEF RowRecords
<1>7. QED BY <1>2, <1>4, <1>6 DEF RowRecords, SamePlace

LEMMA TickFetcherKeeps ==
  ASSUME NEW r \in RowRecords, Filled(r), r.lx < LastLx,
         row_lcdc \in [win : BOOLEAN, obj : BOOLEAN]
  PROVE  /\ TickFetcher(r) \in RowRecords
         /\ Filled(TickFetcher(r))
         /\ TickFetcher(r).activating = r.activating
         /\ SamePlace(r, TickFetcher(r))
         /\ ~r.sprite => TickFetcher(r).objs = r.objs /\ ~TickFetcher(r).sprite
         /\ TickFetcher(r).objs \subseteq r.objs
<1>1. CASE r.fetch = "idle"
  BY <1>1 DEF TickFetcher, SamePlace
<1>2. CASE r.fetch = "tile_0"
  BY <1>2 DEF TickFetcher, SamePlace, RowRecords, Filled, FetcherKept, Phases, ObjPhases, NextPhase
<1>3. CASE r.fetch = "high_1"
  BY <1>3 DEF TickFetcher, SamePlace, RowRecords, Filled, FetcherKept, Phases, ObjPhases
<1>4. CASE r.fetch = "obj_high_1"
  <2>1. r.sprite /\ ~r.activating BY <1>4 DEF Filled, FetcherKept, ObjPhases
  <2> DEFINE s == [r EXCEPT !.obj = Tile]
  <2>2. s \in RowRecords /\ s.lx = r.lx /\ SamePlace(r, s) /\ s.objs = r.objs /\ s.bg = r.bg
        /\ s.activating = r.activating /\ s.fill = r.fill /\ s.cached = r.cached
    BY TileFills DEF RowRecords, SamePlace
  <2>3. TickFetcher(r) = IF ObjReady(s) THEN PullObj(s, "obj_tile_0")
                         ELSE [s EXCEPT !.sprite = FALSE, !.cached = FALSE, !.fetch = "idle"]
    BY <1>4 DEF TickFetcher, MergeObj
  <2> HIDE DEF s
  <2>4. CASE ObjReady(s)
    <3>1. ObjsHere(s) # {} /\ "obj_tile_0" \in ObjPhases BY <2>4 DEF ObjReady, ObjPhases
    <3> DEFINE u == PullObj(s, "obj_tile_0")
    <3>2. /\ u \in RowRecords /\ u.sprite /\ u.fetch = "obj_tile_0"
          /\ u.bg = s.bg /\ u.fill = s.fill /\ u.activating = s.activating /\ SamePlace(s, u)
          /\ u.objs \subseteq s.objs
      BY <3>1, <2>2, PullObjKeeps
    <3>3. TickFetcher(r) = u BY <2>3, <2>4
    <3> HIDE DEF u
    <3>4. QED BY <2>1, <2>2, <3>1, <3>2, <3>3 DEF Filled, FetcherKept, SamePlace
  <2>5. CASE ~ObjReady(s)
    <3>1. TickFetcher(r) = [s EXCEPT !.sprite = FALSE, !.cached = FALSE, !.fetch = "idle"]
      BY <2>3, <2>5
    <3>2. TickFetcher(r) \in RowRecords BY <2>2, <3>1, PhaseFacts DEF RowRecords
    <3>3. QED BY <2>1, <2>2, <3>1, <3>2, PhaseFacts DEF Filled, FetcherKept, SamePlace, RowRecords
  <2>6. QED BY <2>4, <2>5
<1>5. CASE r.fetch \notin {"idle", "tile_0", "high_1", "obj_high_1"}
  <2>1. TickFetcher(r) = [r EXCEPT !.fetch = NextPhase[r.fetch]]
    BY <1>5 DEF TickFetcher
  <2>2. r.fetch \in Phases BY DEF RowRecords
  <2>3. NextPhase[r.fetch] \in Phases /\ (r.fetch \in ObjPhases <=> NextPhase[r.fetch] \in ObjPhases)
    BY <1>5, <2>2, PhasesFollow
  <2>4. QED BY <2>1, <2>3 DEF Filled, FetcherKept, SamePlace, RowRecords
<1>6. QED BY <1>1, <1>2, <1>3, <1>4, <1>5

LEMMA WindowGlitchKeeps ==
  ASSUME NEW r \in RowRecords, Filled(r)
  PROVE  /\ WindowGlitch(r) \in RowRecords
         /\ Filled(WindowGlitch(r))
         /\ WindowGlitch(r).activating = r.activating
         /\ SamePlace(r, WindowGlitch(r)) /\ WindowGlitch(r).objs = r.objs
         /\ WindowGlitch(r).sprite = r.sprite
<1>1. CASE (r.activating \/ r.just_activated) /\ Disabling
  BY <1>1 DEF WindowGlitch, RowRecords, SamePlace, Filled, FetcherKept
<1>2. CASE ~((r.activating \/ r.just_activated) /\ Disabling)
  BY <1>2 DEF WindowGlitch, SamePlace
<1>3. QED BY <1>1, <1>2

LEMMA PushTileKeeps ==
  ASSUME NEW r \in RowRecords, Filled(r), r.bg = 0, ~r.sprite
  PROVE  /\ PushTile(r) \in RowRecords
         /\ FetcherKept(PushTile(r)) /\ TileWaits(PushTile(r)) /\ ~PushTile(r).sprite
         /\ PushTile(r).fill /\ PushTile(r).bg = 0 /\ PushTile(r).activating = r.activating
         /\ SamePlace(r, PushTile(r)) /\ PushTile(r).objs = r.objs
<1>1. "tile_0" \in Phases /\ "tile_0" \notin ObjPhases BY PhaseFacts
<1>2. PushTile(r) \in RowRecords BY ZenonT(40), <1>1 DEF PushTile, RowRecords
<1>3. QED BY <1>1, <1>2 DEF PushTile, RowRecords, SamePlace, Filled, FetcherKept, TileWaits

(* An object is fetched only where no window begins. *)
LEMMA StartObjKeeps ==
  ASSUME NEW r \in RowRecords, r.lx < LastLx, ObjsHere(r) # {},
         NEW cached \in BOOLEAN, ~r.activating, r.bg > 0 \/ r.fill, r.fill => r.bg = 0
  PROVE  /\ StartObj(r, cached) \in RowRecords
         /\ FetcherKept(StartObj(r, cached)) /\ TileWaits(StartObj(r, cached))
         /\ StartObj(r, cached).activating = r.activating
         /\ SamePlace(r, StartObj(r, cached))
         /\ StartObj(r, cached).objs \subseteq r.objs
<1> DEFINE u == PullObj(r, "obj_tile_1")
<1>1. "obj_tile_1" \in ObjPhases BY PhaseFacts
<1>2. /\ u \in RowRecords /\ u.sprite /\ u.fetch = "obj_tile_1"
      /\ u.bg = r.bg /\ u.fill = r.fill /\ u.activating = r.activating /\ SamePlace(r, u)
      /\ u.objs \subseteq r.objs
  BY <1>1, PullObjKeeps
<1>3. StartObj(r, cached) = [u EXCEPT !.cached = cached] BY DEF StartObj
<1> HIDE DEF u
<1>4. StartObj(r, cached) \in RowRecords BY <1>2, <1>3 DEF RowRecords
<1>5. QED BY <1>1, <1>2, <1>3, <1>4 DEF RowRecords, SamePlace, FetcherKept, TileWaits

LEMMA HandlePushKeeps ==
  ASSUME NEW r \in RowRecords, Filled(r), r.lx < LastLx,
         r.activating => ~ObjReady(r)
  PROVE  /\ HandlePush(r) \in RowRecords
         /\ FetcherKept(HandlePush(r)) /\ TileWaits(HandlePush(r))
         /\ HandlePush(r).activating = r.activating
         /\ SamePlace(r, HandlePush(r))
         /\ HandlePush(r).objs \subseteq r.objs
<1>1. CASE HandlePush(r) = r
  BY <1>1 DEF SamePlace, Filled, TileWaits
<1>2. CASE r.push /\ ~r.sprite /\ r.bg > 0 /\ ObjReady(r)
  <2>1. HandlePush(r) = StartObj(r, TRUE) BY <1>2 DEF HandlePush
  <2>2. ObjsHere(r) # {} /\ ~r.activating /\ (r.fill => r.bg = 0) BY <1>2 DEF ObjReady, Filled
  <2>3. r.lx < LastLx /\ (r.bg > 0 \/ r.fill) /\ TRUE \in BOOLEAN BY <1>2
  <2> DEFINE u == StartObj(r, TRUE)
  <2>4. /\ u \in RowRecords /\ FetcherKept(u) /\ TileWaits(u)
        /\ u.activating = r.activating /\ SamePlace(r, u)
        /\ u.objs \subseteq r.objs
    BY <2>2, <2>3, StartObjKeeps
  <2> HIDE DEF u
  <2>5. HandlePush(r) = u BY <2>1 DEF u
  <2>6. QED BY <2>4, <2>5
<1>3. CASE r.push /\ ~r.sprite /\ r.bg = 0 /\ HandlePush(r) = [r EXCEPT !.bg = 1]
  <2>1. 1 \in 0 .. Tile BY TileFills, TransferAssumption
  <2>2. HandlePush(r) \in RowRecords BY <1>3, <2>1 DEF RowRecords
  <2>3. QED BY <1>3, <2>2 DEF RowRecords, SamePlace, Filled, FetcherKept, TileWaits
<1>4. CASE r.push /\ ~r.sprite /\ r.bg = 0 /\ HandlePush(r) = PushTile(r)
  BY <1>4, PushTileKeeps
<1>5. CASE r.push /\ ~r.sprite /\ r.bg = 0 /\ ObjReady(r) /\ HandlePush(r) = StartObj(PushTile(r), FALSE)
  <2> DEFINE s == PushTile(r)
  <2>1. /\ s \in RowRecords /\ s.fill /\ s.bg = 0 /\ s.activating = r.activating
        /\ SamePlace(r, s) /\ s.objs = r.objs
    BY <1>5, PushTileKeeps
  <2>2. HandlePush(r) = StartObj(s, FALSE) BY <1>5
  <2> HIDE DEF s
  <2>3. s.lx < LastLx /\ ObjsHere(s) # {} /\ ~s.activating BY <1>5, <2>1 DEF SamePlace, ObjReady, ObjsHere
  <2>4. /\ StartObj(s, FALSE) \in RowRecords
        /\ FetcherKept(StartObj(s, FALSE)) /\ TileWaits(StartObj(s, FALSE))
        /\ StartObj(s, FALSE).activating = s.activating /\ SamePlace(s, StartObj(s, FALSE))
        /\ StartObj(s, FALSE).objs \subseteq s.objs
    BY <2>1, <2>3, StartObjKeeps
  <2>5. QED BY <2>1, <2>2, <2>4 DEF SamePlace
<1>6. r.bg \in 0 .. Tile BY DEF RowRecords
<1>7. r.bg > 0 \/ r.bg = 0 BY <1>6, TransferAssumption
<1>8. QED BY <1>1, <1>2, <1>3, <1>4, <1>5, <1>7 DEF HandlePush

(* The columns that are over have no objects left. *)
PastDone(r) == \A o \in r.objs : o.x >= r.lx

LEMMA IncreaseLxKeeps ==
  ASSUME NEW r \in RowRecords, r.lx < LastLx, PastDone(r)
  PROVE  /\ IncreaseLx(r) \in RowRecords /\ PastDone(IncreaseLx(r))
         /\ IncreaseLx(r).lx = r.lx + 1
         /\ \A f \in {"selector", "dots", "discard", "bg", "fill", "fetch", "sprite", "cached", "activating", "active"} :
              IncreaseLx(r)[f] = r[f]
<1> DEFINE objs == r.objs \ ObjsHere(r)
<1>1. r.lx \in 0 .. LastLx /\ r.objs \in ObjSets BY DEF RowRecords
<1>2. r.lx + 1 \in 0 .. LastLx BY <1>1, TransferAssumption
<1>3. objs \in ObjSets BY <1>1, FewerObjs
<1>4. IncreaseLx(r) = [r EXCEPT !.objs = objs, !.lx = @ + 1] BY DEF IncreaseLx
<1> HIDE DEF objs
<1>5. IncreaseLx(r) \in RowRecords BY <1>2, <1>3, <1>4 DEF RowRecords
<1>6. IncreaseLx(r).objs = objs /\ IncreaseLx(r).lx = r.lx + 1 BY <1>4 DEF RowRecords
<1>7. \A o \in objs : o \in r.objs /\ o.x # r.lx BY DEF objs, ObjsHere
<1>8. \A o \in objs : o.x >= r.lx + 1
  <2> TAKE o \in objs
  <2>1. o.x \in Nat /\ o.x >= r.lx /\ o.x # r.lx BY <1>1, <1>7, TransferAssumption DEF ObjSets, Columns, PastDone
  <2>2. QED BY <1>1, <2>1
<1>9. PastDone(IncreaseLx(r)) BY <1>6, <1>8 DEF PastDone
<1>10. QED BY <1>4, <1>5, <1>6, <1>9 DEF RowRecords

FetchedRow(r) == HandlePush(WindowGlitch(TickFetcher(r)))

LEMMA FetchedKeeps ==
  ASSUME NEW r \in RowRecords, Filled(r), r.lx < LastLx,
         r.activating => ~ObjReady(r), row_lcdc \in [win : BOOLEAN, obj : BOOLEAN]
  PROVE  /\ FetchedRow(r) \in RowRecords
         /\ FetcherKept(FetchedRow(r)) /\ TileWaits(FetchedRow(r))
         /\ FetchedRow(r).activating = r.activating
         /\ SamePlace(r, FetchedRow(r))
         /\ FetchedRow(r).objs \subseteq r.objs
<1> DEFINE a == TickFetcher(r)
           b == WindowGlitch(a)
           c == HandlePush(b)
<1>1. /\ a \in RowRecords /\ Filled(a) /\ a.activating = r.activating /\ SamePlace(r, a)
      /\ ~r.sprite => a.objs = r.objs /\ ~a.sprite
      /\ a.objs \subseteq r.objs
  BY TickFetcherKeeps
<1> HIDE DEF a
<1>2. /\ b \in RowRecords /\ Filled(b) /\ b.activating = a.activating /\ SamePlace(a, b)
      /\ b.objs = a.objs
  BY <1>1, WindowGlitchKeeps
<1> HIDE DEF b
<1>3. b.activating => ~ObjReady(b)
  BY <1>1, <1>2 DEF Filled, FetcherKept, ObjReady, ObjsHere, SamePlace
<1>4. b.lx = r.lx /\ b.lx < LastLx BY <1>1, <1>2 DEF SamePlace
<1>5. /\ c \in RowRecords /\ FetcherKept(c) /\ TileWaits(c) /\ c.activating = b.activating
      /\ SamePlace(b, c)
      /\ c.objs \subseteq b.objs
  BY <1>2, <1>3, <1>4, HandlePushKeeps
<1>6. FetchedRow(r) = c BY DEF FetchedRow, a, b
<1> HIDE DEF c
<1>7. SamePlace(r, c) BY <1>1, <1>2, <1>5 DEF SamePlace
<1>8. QED BY <1>1, <1>2, <1>4, <1>5, <1>6, <1>7

(* What a row is between two dots. *)
PlaceKept(r) ==
  /\ r.activating => r.selector \in {"draw", "discard_wx0"}
  /\ r.selector # "hblank" => r.lx < LastLx
  /\ r.selector = "hblank" => r.objs = {}
  /\ r.selector \in {"discard_wx0", "discard"} => r.discard > 0
  /\ r.selector = "dummy" => ~r.sprite /\ ~r.fill /\ ~r.activating

RowKept(r) ==
  /\ r \in RowRecords
  /\ FetcherKept(r) /\ TileWaits(r) /\ PastDone(r) /\ PlaceKept(r)

LEMMA PastDoneKept ==
  ASSUME NEW r, NEW s, PastDone(r), s.lx = r.lx,
         s.objs \subseteq r.objs, r.lx \in 0 .. LastLx
  PROVE  PastDone(s)
BY DEF PastDone

LEMMA DrawKeeps ==
  ASSUME NEW r, RowKept(r), r.selector = "draw", row_lcdc \in [win : BOOLEAN, obj : BOOLEAN]
  PROVE  RowKept(Draw(r)) /\ Draw(r).dots = r.dots
<1> DEFINE w == HandleWindow(r)
           s == HandleFill(w)
           popped == [s EXCEPT !.bg = @ - 1, !.obj = IF @ > 0 THEN @ - 1 ELSE 0]
           k == CheckWindow(popped)
<1>1. r \in RowRecords /\ FetcherKept(r) /\ TileWaits(r) /\ PastDone(r) /\ r.lx < LastLx
  BY DEF RowKept, PlaceKept
<1>2. Draw(r) = IF ~BgReady(s) THEN FetchedRow(s)
                ELSE IF s.lx + 1 = LastLx THEN [IncreaseLx(popped) EXCEPT !.selector = "hblank"]
                ELSE IncreaseLx(FetchedRow(k))
  BY DEF Draw, FetchedRow
<1>3. /\ w \in RowRecords /\ FetcherKept(w) /\ TileWaits(w) /\ ~w.activating
      /\ SamePlace(r, w) /\ w.objs = r.objs
  BY <1>1, HandleWindowKeeps
<1> HIDE DEF w
<1>4. /\ s \in RowRecords /\ Filled(s) /\ SamePlace(w, s) /\ s.objs = w.objs
      /\ s.activating = w.activating
  BY <1>3, HandleFillKeeps
<1> HIDE DEF s
<1>5. ~s.activating /\ SamePlace(r, s) /\ s.objs = r.objs /\ PastDone(s) /\ s.lx < LastLx
  BY <1>1, <1>3, <1>4 DEF SamePlace, PastDone
<1>6. s.lx \in 0 .. LastLx BY <1>4 DEF RowRecords
<1>7. CASE ~BgReady(s)
  <2> DEFINE f == FetchedRow(s)
  <2>1. /\ f \in RowRecords /\ FetcherKept(f) /\ TileWaits(f) /\ f.activating = s.activating
        /\ SamePlace(s, f) /\ f.objs \subseteq s.objs
    BY <1>4, <1>5, FetchedKeeps
  <2>2. Draw(r) = f BY <1>2, <1>7
  <2> HIDE DEF f
  <2>3. PastDone(f) BY <1>5, <1>6, <2>1, PastDoneKept DEF SamePlace
  <2>4. f.selector = "draw" /\ f.lx < LastLx /\ ~f.activating BY <1>5, <2>1 DEF SamePlace
  <2>5. f.dots = r.dots BY <1>5, <2>1 DEF SamePlace
  <2>6. QED BY <2>1, <2>2, <2>3, <2>4, <2>5 DEF RowKept, PlaceKept
<1>8. CASE BgReady(s)
  <2>1. ~s.sprite /\ s.bg > 0 /\ ~ObjReady(s) BY <1>8 DEF BgReady
  <2>2. /\ popped \in RowRecords /\ Filled(popped) /\ ~popped.sprite /\ ~popped.activating
        /\ SamePlace(s, popped) /\ popped.objs = s.objs
    <3>1. s.bg - 1 \in 0 .. Tile /\ (IF s.obj > 0 THEN s.obj - 1 ELSE 0) \in 0 .. Tile
      BY <1>4, <2>1, TransferAssumption DEF RowRecords
    <3>2. popped \in RowRecords BY <1>4, <3>1 DEF RowRecords
    <3>3. QED BY <1>4, <1>5, <2>1, <3>2 DEF RowRecords, SamePlace, Filled, FetcherKept
  <2> HIDE DEF popped
  <2>3. PastDone(popped) /\ popped.lx < LastLx /\ ~ObjReady(popped)
    BY <1>5, <2>1, <2>2 DEF SamePlace, PastDone, ObjReady, ObjsHere
  <2>4. CASE s.lx + 1 = LastLx
    <3> DEFINE u == IncreaseLx(popped)
               v == [u EXCEPT !.selector = "hblank"]
    <3>1. /\ u \in RowRecords /\ PastDone(u) /\ u.lx = popped.lx + 1
          /\ \A f \in {"selector", "dots", "discard", "bg", "fill", "fetch", "sprite", "cached", "activating", "active"} :
               u[f] = popped[f]
      BY <2>2, <2>3, IncreaseLxKeeps
    <3>2. Draw(r) = v BY <1>2, <1>8, <2>4
    <3> HIDE DEF u
    <3>3. u.lx = LastLx BY <2>2, <2>4, <3>1 DEF SamePlace
    <3>4. FetcherKept(u) /\ TileWaits(u) /\ ~u.activating
      BY <2>2, <3>1 DEF FetcherKept, TileWaits, Filled
    <3>5. u.objs = {}
      <4>1. \A o \in u.objs : o.x \in 0 .. LastLx - 1 /\ o.x >= LastLx
        BY <3>1, <3>3 DEF PastDone, Columns, RowRecords, ObjSets
      <4>2. QED BY <4>1, TransferAssumption
    <3>6. v \in RowRecords BY <3>1 DEF RowRecords, TransferSelectors
    <3>7. /\ v.selector = "hblank" /\ v.lx = u.lx /\ v.objs = u.objs
          /\ v.bg = u.bg /\ v.fill = u.fill /\ v.fetch = u.fetch /\ v.sprite = u.sprite
          /\ v.cached = u.cached /\ v.activating = u.activating /\ v.active = u.active /\ v.dots = u.dots
      BY <3>1 DEF RowRecords
    <3> HIDE DEF v
    <3>8. FetcherKept(v) /\ TileWaits(v) /\ PastDone(v) /\ PlaceKept(v)
      BY <3>1, <3>4, <3>5, <3>7 DEF FetcherKept, TileWaits, PastDone, PlaceKept
    <3>9. v.dots = r.dots BY <1>5, <2>2, <3>1, <3>7 DEF SamePlace
    <3>10. QED BY <3>2, <3>6, <3>7, <3>8, <3>9 DEF RowKept
  <2>5. CASE s.lx + 1 # LastLx
    <3>1. /\ k \in RowRecords /\ Filled(k) /\ ~k.sprite
          /\ SamePlace(popped, k) /\ k.objs = popped.objs
      BY <2>2, CheckWindowKeeps
    <3> HIDE DEF k
    <3>2. k.lx < LastLx /\ PastDone(k) /\ ~ObjReady(k) /\ k.lx \in 0 .. LastLx
      BY <1>6, <2>2, <2>3, <3>1 DEF SamePlace, PastDone, ObjReady, ObjsHere
    <3> DEFINE f == FetchedRow(k)
               u == IncreaseLx(f)
    <3>3. /\ f \in RowRecords /\ FetcherKept(f) /\ TileWaits(f) /\ f.activating = k.activating
          /\ SamePlace(k, f) /\ f.objs \subseteq k.objs
      BY <3>1, <3>2, FetchedKeeps
    <3>4. Draw(r) = u BY <1>2, <1>8, <2>5
    <3> HIDE DEF f
    <3>5. PastDone(f) BY <3>2, <3>3, PastDoneKept DEF SamePlace
    <3>6. f.lx < LastLx /\ f.lx + 1 # LastLx /\ f.selector = "draw" /\ f.lx \in 0 .. LastLx
      BY <1>1, <1>5, <2>2, <2>5, <3>1, <3>2, <3>3 DEF SamePlace
    <3>7. /\ u \in RowRecords /\ PastDone(u) /\ u.lx = f.lx + 1
          /\ \A g \in {"selector", "dots", "discard", "bg", "fill", "fetch", "sprite", "cached", "activating", "active"} :
               u[g] = f[g]
      BY <3>3, <3>5, <3>6, IncreaseLxKeeps
    <3> HIDE DEF u
    <3>8. FetcherKept(u) /\ TileWaits(u) BY <3>3, <3>7 DEF FetcherKept, TileWaits
    <3>9. u.selector = "draw" /\ u.lx < LastLx
      <4>1. u.selector = f.selector BY <3>7
      <4>2. f.lx \in Nat /\ f.lx < LastLx /\ f.lx + 1 # LastLx /\ LastLx \in Nat BY <3>6, TransferAssumption
      <4>3. f.lx + 1 < LastLx BY <4>2
      <4>4. QED BY <3>6, <3>7, <4>1, <4>3
    <3>10. u.dots = r.dots BY <1>5, <2>2, <3>1, <3>3, <3>7 DEF SamePlace
    <3>11. QED BY <3>4, <3>7, <3>8, <3>9, <3>10 DEF RowKept, PlaceKept
  <2>6. QED BY <2>4, <2>5
<1>9. QED BY <1>7, <1>8

LEMMA DiscardKeeps ==
  ASSUME NEW r, RowKept(r), r.selector = "discard", row_lcdc \in [win : BOOLEAN, obj : BOOLEAN]
  PROVE  RowKept(Discard(r)) /\ Discard(r).dots = r.dots
<1> DEFINE s == HandleFill(r)
           d == IF ~BgReady(s) THEN s
                ELSE [s EXCEPT !.bg = @ - 1, !.discard = @ - 1,
                               !.selector = IF s.discard = 1 THEN "draw" ELSE @]
           a == TickFetcher(d)
           p == HandlePush(a)
<1>1. r \in RowRecords /\ FetcherKept(r) /\ TileWaits(r) /\ PastDone(r) /\ r.lx < LastLx
      /\ ~r.activating /\ r.discard > 0
  BY DEF RowKept, PlaceKept
<1>2. Discard(r) = p BY DEF Discard
<1>3. /\ s \in RowRecords /\ Filled(s) /\ SamePlace(r, s) /\ s.objs = r.objs
      /\ s.activating = r.activating
  BY <1>1, HandleFillKeeps
<1> HIDE DEF s
<1>4. s.bg \in 0 .. Tile /\ s.discard \in 0 .. Tile - 1 /\ s.discard > 0 /\ s.selector = "discard"
      /\ s.lx < LastLx /\ PastDone(s) /\ ~s.activating /\ s.lx \in 0 .. LastLx
  BY <1>1, <1>3 DEF RowRecords, SamePlace, PastDone
<1>5. /\ d \in RowRecords /\ Filled(d) /\ d.lx = s.lx /\ d.objs = s.objs /\ ~d.activating
      /\ d.dots = s.dots /\ d.selector \in {"discard", "draw"} /\ (d.selector = "discard" => d.discard > 0)
  <2>1. CASE ~BgReady(s) BY <2>1, <1>3, <1>4
  <2>2. CASE BgReady(s) /\ s.discard = 1
    <3>1. s.bg - 1 \in 0 .. Tile /\ s.discard - 1 \in 0 .. Tile - 1
      BY <1>4, <2>2, TransferAssumption DEF BgReady
    <3>2. ~s.sprite BY <2>2 DEF BgReady
    <3>3. d = [s EXCEPT !.bg = @ - 1, !.discard = @ - 1, !.selector = "draw"] BY <2>2
    <3> HIDE DEF d
    <3>4. d \in RowRecords BY <1>3, <3>1, <3>3 DEF RowRecords, TransferSelectors
    <3>5. QED BY <1>3, <1>4, <3>2, <3>3, <3>4 DEF RowRecords, Filled, FetcherKept
  <2>3. CASE BgReady(s) /\ s.discard # 1
    <3>1. s.bg - 1 \in 0 .. Tile /\ s.discard - 1 \in 0 .. Tile - 1 /\ s.discard - 1 > 0
      BY <1>4, <2>3, TransferAssumption DEF BgReady
    <3>2. ~s.sprite BY <2>3 DEF BgReady
    <3>3. d = [s EXCEPT !.bg = @ - 1, !.discard = @ - 1, !.selector = "discard"]
      BY <1>3, <1>4, <2>3 DEF RowRecords
    <3> HIDE DEF d
    <3>4. d \in RowRecords BY <1>3, <3>1, <3>3 DEF RowRecords, TransferSelectors
    <3>5. QED BY <1>3, <1>4, <3>1, <3>2, <3>3, <3>4 DEF RowRecords, Filled, FetcherKept
  <2>4. QED BY <2>1, <2>2, <2>3
<1> HIDE DEF d
<1>6. d.lx < LastLx /\ PastDone(d) /\ d.lx \in 0 .. LastLx BY <1>4, <1>5 DEF PastDone
<1>7. /\ a \in RowRecords /\ Filled(a) /\ a.activating = d.activating /\ SamePlace(d, a)
      /\ a.objs \subseteq d.objs
  BY <1>5, <1>6, TickFetcherKeeps
<1> HIDE DEF a
<1>8. a.lx < LastLx /\ PastDone(a) /\ ~a.activating /\ a.lx \in 0 .. LastLx
  BY <1>5, <1>6, <1>7, PastDoneKept DEF SamePlace
<1>9. /\ p \in RowRecords /\ FetcherKept(p) /\ TileWaits(p) /\ p.activating = a.activating
      /\ SamePlace(a, p) /\ p.objs \subseteq a.objs
  BY <1>7, <1>8, HandlePushKeeps
<1> HIDE DEF p
<1>10. PastDone(p) BY <1>8, <1>9, PastDoneKept DEF SamePlace
<1>11. PlaceKept(p) BY <1>5, <1>7, <1>8, <1>9 DEF SamePlace, PlaceKept
<1>12. p.dots = r.dots BY <1>3, <1>5, <1>7, <1>9 DEF SamePlace
<1>13. QED BY <1>2, <1>9, <1>10, <1>11, <1>12 DEF RowKept

LEMMA DiscardWx0Keeps ==
  ASSUME NEW r, RowKept(r), r.selector = "discard_wx0"
  PROVE  RowKept(DiscardWx0(r)) /\ DiscardWx0(r).dots = r.dots
<1> DEFINE w == HandleWindow(r)
           v == [w EXCEPT !.selector = "discard"]
<1>1. r \in RowRecords /\ FetcherKept(r) /\ TileWaits(r) /\ PastDone(r) /\ r.lx < LastLx /\ r.discard > 0
  BY DEF RowKept, PlaceKept
<1>2. /\ w \in RowRecords /\ FetcherKept(w) /\ TileWaits(w) /\ ~w.activating
      /\ SamePlace(r, w) /\ w.objs = r.objs
  BY <1>1, HandleWindowKeeps
<1>3. DiscardWx0(r) = v BY DEF DiscardWx0
<1> HIDE DEF w
<1>4. v \in RowRecords BY <1>2 DEF RowRecords, TransferSelectors
<1>5. /\ v.selector = "discard" /\ v.dots = w.dots /\ v.lx = w.lx /\ v.objs = w.objs /\ v.discard = w.discard
      /\ v.bg = w.bg /\ v.fill = w.fill /\ v.fetch = w.fetch /\ v.sprite = w.sprite
      /\ v.cached = w.cached /\ v.activating = w.activating /\ v.active = w.active
  BY <1>2 DEF RowRecords
<1> HIDE DEF v
<1>6. FetcherKept(v) /\ TileWaits(v) /\ PastDone(v) /\ PlaceKept(v)
  BY <1>1, <1>2, <1>5 DEF FetcherKept, TileWaits, PastDone, PlaceKept, SamePlace
<1>7. v.dots = r.dots BY <1>2, <1>5 DEF SamePlace
<1>8. QED BY <1>3, <1>4, <1>5, <1>6, <1>7 DEF RowKept

LEMMA DummyKeeps ==
  ASSUME NEW r, RowKept(r), r.selector = "dummy", NEW q \in Dummy(r)
  PROVE  RowKept(q) /\ q.dots = r.dots
<1>1. /\ r \in RowRecords /\ FetcherKept(r) /\ TileWaits(r) /\ PastDone(r) /\ r.lx < LastLx
      /\ ~r.sprite /\ ~r.fill /\ ~r.activating
  BY DEF RowKept, PlaceKept
<1>2. CASE r.dots + 1 < 3
  BY <1>2 DEF Dummy
<1>3. CASE ~(r.dots + 1 < 3)
  <2>1. PICK scroll \in Scrolls :
          q = LET s == [r EXCEPT !.bg = Tile, !.discard = scroll, !.scroll = scroll]
                  c == CheckWindow(s)
              IN IF scroll = 0 THEN [s EXCEPT !.selector = "draw"]
                 ELSE [c EXCEPT !.selector = IF c.activating THEN "discard_wx0" ELSE "discard"]
    BY <1>3 DEF Dummy
  <2> DEFINE s == [r EXCEPT !.bg = Tile, !.discard = scroll, !.scroll = scroll]
             c == CheckWindow(s)
             to == IF scroll = 0 THEN "draw" ELSE IF c.activating THEN "discard_wx0" ELSE "discard"
             from == IF scroll = 0 THEN s ELSE c
  <2>2. scroll \in 0 .. Tile - 1 BY TransferAssumption
  <2>3. q = [from EXCEPT !.selector = to] BY <2>1
  <2>4. /\ s \in RowRecords /\ Filled(s) /\ ~s.sprite /\ ~s.activating
        /\ s.lx = r.lx /\ s.objs = r.objs /\ s.discard = scroll /\ s.dots = r.dots
    BY <1>1, <2>2, TileFills DEF RowRecords, Filled, FetcherKept
  <2> HIDE DEF s
  <2>5. /\ c \in RowRecords /\ Filled(c) /\ ~c.sprite /\ SamePlace(s, c) /\ c.objs = s.objs
    BY <2>4, CheckWindowKeeps
  <2> HIDE DEF c
  <2>6. /\ from \in RowRecords /\ Filled(from) /\ from.lx = r.lx /\ from.objs = r.objs
        /\ from.discard = scroll /\ from.dots = r.dots /\ (scroll = 0 => ~from.activating)
        /\ (scroll # 0 => from = c)
    BY <2>4, <2>5 DEF SamePlace
  <2>7. /\ to \in TransferSelectors /\ to # "hblank" /\ to # "dummy"
        /\ to \in {"discard", "discard_wx0"} => scroll > 0
        /\ from.activating => to \in {"draw", "discard_wx0"}
    BY <2>2, <2>6, TransferAssumption DEF TransferSelectors
  <2> HIDE DEF from, to
  <2>8. q \in RowRecords BY <2>3, <2>6, <2>7 DEF RowRecords
  <2>9. /\ q.selector = to /\ q.dots = from.dots /\ q.lx = from.lx /\ q.objs = from.objs /\ q.discard = from.discard
        /\ q.bg = from.bg /\ q.fill = from.fill /\ q.fetch = from.fetch /\ q.sprite = from.sprite
        /\ q.cached = from.cached /\ q.activating = from.activating /\ q.active = from.active
    BY <2>3, <2>6 DEF RowRecords
  <2>10. FetcherKept(q) /\ TileWaits(q) /\ PastDone(q) /\ PlaceKept(q)
    BY <1>1, <2>6, <2>7, <2>9 DEF FetcherKept, TileWaits, PastDone, PlaceKept, Filled
  <2>11. QED BY SMTT(30), <2>6, <2>8, <2>9, <2>10 DEF RowKept
<1>4. QED BY <1>2, <1>3

LEMMA CountedKeeps ==
  ASSUME NEW r, RowKept(r)
  PROVE  RowKept(DotCounted(r))
<1> DEFINE v == [r EXCEPT !.dots = r.dots + 1]
<1>1. r \in RowRecords /\ FetcherKept(r) /\ TileWaits(r) /\ PastDone(r) /\ PlaceKept(r)
  BY DEF RowKept
<1>2. DotCounted(r) = v BY DEF DotCounted
<1>3. r.dots + 1 \in Nat BY <1>1 DEF RowRecords
<1>4. v \in RowRecords BY <1>1, <1>3 DEF RowRecords
<1>5. /\ v.selector = r.selector /\ v.lx = r.lx /\ v.objs = r.objs /\ v.discard = r.discard
      /\ v.bg = r.bg /\ v.fill = r.fill /\ v.fetch = r.fetch /\ v.sprite = r.sprite
      /\ v.cached = r.cached /\ v.activating = r.activating /\ v.active = r.active
  BY <1>1 DEF RowRecords
<1> HIDE DEF v
<1>6. FetcherKept(v) /\ TileWaits(v) /\ PastDone(v) /\ PlaceKept(v)
  BY <1>1, <1>5 DEF FetcherKept, TileWaits, PastDone, PlaceKept
<1>7. QED BY <1>2, <1>4, <1>5, <1>6 DEF RowKept

(* A row with nothing fetched, whose objects are those of its layout. *)
LEMMA FreshRowKept ==
  ASSUME NEW objs, NEW selector \in {"dummy", "hblank"},
         objs \in ObjSets, selector = "hblank" => objs = {},
         NEW r \in RowRecords, r.selector = selector, r.objs = objs,
         r.lx = 0, r.bg = 0, ~r.fill, r.fetch = "tile_0", ~r.sprite, ~r.cached, ~r.activating
  PROVE  RowKept(r)
<1>1. "tile_0" \notin ObjPhases BY PhaseFacts
<1>2. 0 < LastLx BY TransferAssumption
<1>3. PastDone(r) BY TransferAssumption DEF PastDone, Columns, ObjSets
<1>4. FetcherKept(r) /\ TileWaits(r) /\ PlaceKept(r)
  BY <1>1, <1>2 DEF FetcherKept, TileWaits, PlaceKept
<1>5. QED BY <1>3, <1>4 DEF RowKept

LEMMA ZeroFits ==
  /\ 0 \in 0 .. Tile /\ 0 \in 0 .. Tile - 1 /\ 0 \in 0 .. LastLx
  /\ "tile_0" \in Phases
BY TransferAssumption, PhaseFacts

RowWrites ==
  {NoWrite} \cup [countdown : 1 .. 2, reg : {"lcdc"}, value : [win : BOOLEAN, obj : BOOLEAN]]
            \cup [countdown : 1 .. 2, reg : {"wx"}, value : Wxs]

RowInv ==
  /\ row_lcdc \in [win : BOOLEAN, obj : BOOLEAN] /\ wx \in Wxs
  /\ pending \in RowWrites
  /\ since_write \in 0 .. RowWriteDistance /\ window_seen \in BOOLEAN
  /\ RowKept(row)

LEMMA EmptyRowKept == RowKept(EmptyRow)
<1>1. {} \in ObjSets BY FS_EmptySet DEF ObjSets
<1>2. EmptyRow.objs = {} BY DEF EmptyRow
<1>3. EmptyRow.objs \in ObjSets BY <1>1, <1>2
<1>4. EmptyRow \in RowRecords BY <1>3, ZeroFits DEF EmptyRow, RowRecords, TransferSelectors
<1>5. /\ EmptyRow.selector = "hblank" /\ EmptyRow.lx = 0 /\ EmptyRow.bg = 0 /\ ~EmptyRow.fill
      /\ EmptyRow.fetch = "tile_0" /\ ~EmptyRow.sprite /\ ~EmptyRow.cached /\ ~EmptyRow.activating
  BY DEF EmptyRow
<1>6. QED BY <1>1, <1>2, <1>4, <1>5, FreshRowKept

LEMMA RowInitKept == RowInit => RowInv
<1> SUFFICES ASSUME RowInit PROVE RowInv OBVIOUS
<1>1. pending \in RowWrites /\ since_write \in 0 .. RowWriteDistance
  BY DEF RowInit, RowWrites, RowWriteDistance
<1>2. row = EmptyRow BY DEF RowInit
<1>3. RowKept(row) BY <1>2, EmptyRowKept
<1>4. QED BY <1>1, <1>3 DEF RowInit, RowInv

LEMMA RowDotKept ==
  ASSUME NEW r, RowKept(r), r.selector # "hblank", row_lcdc \in [win : BOOLEAN, obj : BOOLEAN],
         NEW q \in RowDot(r)
  PROVE  RowKept(q) /\ q.dots = r.dots
<1>1. r.selector \in TransferSelectors BY DEF RowKept, RowRecords
<1>2. CASE r.selector = "dummy" BY <1>2, DummyKeeps DEF RowDot
<1>3. CASE r.selector = "discard_wx0"
  <2>1. q = DiscardWx0(r) BY <1>3 DEF RowDot
  <2>2. QED BY <1>3, <2>1, DiscardWx0Keeps
<1>4. CASE r.selector = "discard"
  <2>1. q = Discard(r) BY <1>4 DEF RowDot
  <2>2. QED BY <1>4, <2>1, DiscardKeeps
<1>5. CASE r.selector = "draw"
  <2>1. q = Draw(r) BY <1>5 DEF RowDot
  <2>2. QED BY <1>5, <2>1, DrawKeeps
<1>6. QED BY <1>1, <1>2, <1>3, <1>4, <1>5 DEF TransferSelectors

LEMMA TickPendingKept ==
  ASSUME pending \in RowWrites, since_write \in 0 .. RowWriteDistance, wx \in Wxs,
         row_lcdc \in [win : BOOLEAN, obj : BOOLEAN], TickPending
  PROVE  /\ pending' \in RowWrites /\ since_write' \in 0 .. RowWriteDistance
         /\ wx' \in Wxs /\ row_lcdc' \in [win : BOOLEAN, obj : BOOLEAN]
<1>1. since_write' \in 0 .. RowWriteDistance BY DEF TickPending, RowWriteDistance
<1>2. CASE pending.countdown = 0 BY <1>1, <1>2 DEF TickPending
<1>3. CASE pending.countdown = 1
  <2>1. pending # NoWrite BY <1>3 DEF NoWrite
  <2>2. \/ pending.reg = "lcdc" /\ pending.value \in [win : BOOLEAN, obj : BOOLEAN]
        \/ pending.reg = "wx" /\ pending.value \in Wxs
    BY <2>1 DEF RowWrites
  <2>3. pending' \in RowWrites BY <1>3 DEF TickPending, RowWrites
  <2>4. wx' \in Wxs /\ row_lcdc' \in [win : BOOLEAN, obj : BOOLEAN]
    BY <1>3, <2>2 DEF TickPending
  <2>5. QED BY <1>1, <2>3, <2>4
<1>4. CASE pending.countdown \notin {0, 1}
  <2>1. pending # NoWrite BY <1>4 DEF NoWrite
  <2>2. pending' = [pending EXCEPT !.countdown = @ - 1] /\ UNCHANGED <<row_lcdc, wx>>
    BY <1>4 DEF TickPending
  <2>3. pending.countdown \in 1 .. 2 BY <2>1 DEF RowWrites
  <2>4. pending.countdown - 1 \in 1 .. 2 BY <1>4, <2>3
  <2>5. pending' \in RowWrites BY <2>1, <2>2, <2>4 DEF RowWrites
  <2>6. QED BY <1>1, <2>2, <2>5
<1>5. QED BY <1>2, <1>3, <1>4

LEMMA RowStepKept == RowInv /\ [RowNext]_rowVars => RowInv'
<1> SUFFICES ASSUME RowInv, [RowNext]_rowVars PROVE RowInv' OBVIOUS
<1>0. /\ row_lcdc \in [win : BOOLEAN, obj : BOOLEAN] /\ wx \in Wxs
      /\ pending \in RowWrites
      /\ since_write \in 0 .. RowWriteDistance /\ window_seen \in BOOLEAN
      /\ RowKept(row)
  BY DEF RowInv
<1>1. CASE RowTick
  <2>1. PICK r \in RowDot(row) : row' = DotCounted(r) BY <1>1 DEF RowTick
  <2>2. row.selector # "hblank" BY <1>1 DEF RowTick
  <2>3. RowKept(r) BY <1>0, <2>2, RowDotKept
  <2>4. RowKept(DotCounted(r)) BY <2>3, CountedKeeps
  <2>5. window_seen' \in BOOLEAN BY <1>0, <1>1 DEF RowTick, TickWindow
  <2>6. /\ pending' \in RowWrites /\ since_write' \in 0 .. RowWriteDistance
        /\ wx' \in Wxs /\ row_lcdc' \in [win : BOOLEAN, obj : BOOLEAN]
    BY <1>0, <1>1, TickPendingKept DEF RowTick
  <2>7. QED BY <2>1, <2>4, <2>5, <2>6 DEF RowInv, RowKept, FetcherKept, TileWaits, PastDone, PlaceKept
<1>2. CASE EnterRow
  <2>1. PICK layout \in Layouts :
          row' = [EmptyRow EXCEPT !.selector = "dummy", !.objs = layout, !.total = Cardinality(layout)]
    BY <1>2 DEF EnterRow
  <2> DEFINE total == Cardinality(layout)
  <2>2. row' = [EmptyRow EXCEPT !.selector = "dummy", !.objs = layout, !.total = total] BY <2>1
  <2>3. layout \in ObjSets /\ total \in Nat
    BY TransferAssumption, FS_CardinalityType DEF ObjSets, Columns
  <2> HIDE DEF total
  <2>4. row' \in RowRecords
    BY <2>2, <2>3, ZeroFits DEF EmptyRow, RowRecords, TransferSelectors
  <2>5. /\ row'.selector = "dummy" /\ row'.objs = layout /\ row'.lx = 0 /\ row'.bg = 0 /\ ~row'.fill
        /\ row'.fetch = "tile_0" /\ ~row'.sprite /\ ~row'.cached /\ ~row'.activating
    BY <2>2 DEF EmptyRow
  <2>6. RowKept(row') BY <2>3, <2>4, <2>5, FreshRowKept
  <2>7. since_write' \in 0 .. RowWriteDistance BY <1>2 DEF EnterRow, RowWriteDistance
  <2>8. QED BY <1>0, <1>2, <2>6, <2>7 DEF EnterRow, RowInv, RowKept, FetcherKept, TileWaits, PastDone, PlaceKept
<1>3. CASE RowOverDot
  <2>1. /\ pending' \in RowWrites /\ since_write' \in 0 .. RowWriteDistance
        /\ wx' \in Wxs /\ row_lcdc' \in [win : BOOLEAN, obj : BOOLEAN]
    BY <1>0, <1>3, TickPendingKept DEF RowOverDot
  <2>2. QED BY <1>0, <1>3, <2>1 DEF RowOverDot, RowInv
<1>4. CASE \E bits \in [win : BOOLEAN, obj : BOOLEAN], enable \in BOOLEAN : WriteRowLcdc(bits, enable)
  <2>1. PICK bits \in [win : BOOLEAN, obj : BOOLEAN], enable \in BOOLEAN : WriteRowLcdc(bits, enable)
    BY <1>4
  <2>2. pending' \in RowWrites BY <2>1 DEF WriteRowLcdc, WriteReg, RowWrites
  <2>3. RowKept(row') BY <1>0, <2>1, EmptyRowKept DEF WriteRowLcdc
  <2>4. since_write' \in 0 .. RowWriteDistance BY <2>1 DEF WriteRowLcdc, WriteReg, RowWriteDistance
  <2>5. QED BY <1>0, <2>1, <2>2, <2>3, <2>4
            DEF WriteRowLcdc, WriteReg, RowInv, RowKept, FetcherKept, TileWaits, PastDone, PlaceKept
<1>5. CASE \E v \in Wxs : WriteWx(v)
  <2>1. PICK v \in Wxs : WriteWx(v) BY <1>5
  <2>2. pending' \in RowWrites BY <2>1 DEF WriteWx, WriteReg, RowWrites
  <2>3. since_write' \in 0 .. RowWriteDistance BY <2>1 DEF WriteWx, WriteReg, RowWriteDistance
  <2>4. QED BY <1>0, <2>1, <2>2, <2>3 DEF WriteWx, WriteReg, RowInv
<1>6. CASE UNCHANGED rowVars
  BY <1>0, <1>6 DEF rowVars, RowInv
<1>7. QED BY <1>1, <1>2, <1>3, <1>4, <1>5, <1>6 DEF RowNext

LEMMA RowInvShows == RowInv => FetcherAssertions
<1> SUFFICES ASSUME RowInv PROVE FetcherAssertions OBVIOUS
<1>1. row \in RowRecords /\ FetcherKept(row) /\ TileWaits(row) /\ PlaceKept(row)
  BY DEF RowInv, RowKept
<1>2. pending.countdown \in 0 .. 2 BY DEF RowInv, RowWrites, NoWrite
<1>3. RowTypeOK BY <1>1, <1>2 DEF RowInv, RowTypeOK, RowRecords, TransferSelectors
<1>4. QED BY <1>1, <1>3 DEF FetcherAssertions, FetcherKept, TileWaits, PlaceKept

(* Whenever the window and the objects are enabled, disabled or moved,     *)
(* the fetcher, the queues and the window find what they assert in a row   *)
(* of any length, with any objects and tiles of any size.                  *)
THEOREM AssertionsAlwaysHold == RowSpec => []FetcherAssertions
BY RowInitKept, RowStepKept, RowInvShows, PTL DEF RowSpec

(* How many dots the fetcher needs to finish what it fetches, the present  *)
(* dot included.                                                           *)
DotsLeft == [
  tile_0 |-> 6, tile_1 |-> 5, low_0 |-> 4, low_1 |-> 3, high_0 |-> 2, high_1 |-> 1, idle |-> 0,
  obj_tile_0 |-> 6, obj_tile_1 |-> 5, obj_low_0 |-> 4, obj_low_1 |-> 3, obj_high_0 |-> 2, obj_high_1 |-> 1]
FetchLeft(r) == IF r.push THEN 0 ELSE DotsLeft[r.fetch]
ObjLeft(r) == IF r.sprite THEN DotsLeft[r.fetch] ELSE 0

(* The pixels the row is sure to have before the queue is empty. *)
Ahead(r) == IF r.fill THEN Tile ELSE IF r.partial > 0 THEN r.partial ELSE r.bg

(* What High and Low allow for, of the columns and objects gone through. *)
Floor(r) ==
  3 + (r.scroll - r.discard) + r.lx + (IF r.wx0 /\ r.scroll > 0 THEN 1 ELSE 0) + 6 * r.served
Accounted(r) ==
  Floor(r) + 6 * r.triggers + (IF r.cancelled THEN 1 ELSE 0) + 5 * (r.total - Cardinality(r.objs))

Ledger(r) ==
  <<r.selector, r.dots, r.lx, r.discard, r.scroll, r.total, r.served, r.triggers, r.wx0, r.cancelled, r.objs>>
Queue(r) == <<r.bg, r.fill, r.partial, r.just_activated, r.activating>>

LEMMA LeftFacts ==
  /\ \A p \in Phases : DotsLeft[p] \in 0 .. 6 /\ (DotsLeft[p] = 0 <=> p = "idle")
  /\ DotsLeft["tile_0"] = 6 /\ DotsLeft["tile_1"] = 5 /\ DotsLeft["high_1"] = 1
  /\ DotsLeft["obj_tile_0"] = 6 /\ DotsLeft["obj_tile_1"] = 5 /\ DotsLeft["obj_high_1"] = 1
  /\ \A p \in Phases : DotsLeft[p] = 1 => p \in {"high_1", "obj_high_1"}
BY DEF Phases, ObjPhases, NextPhase, DotsLeft

LEMMA LeftFollows ==
  ASSUME NEW p \in Phases, p \notin {"idle", "tile_0", "high_1", "obj_high_1"}
  PROVE  /\ NextPhase[p] \in Phases /\ NextPhase[p] # "idle"
         /\ p \in ObjPhases <=> NextPhase[p] \in ObjPhases
         /\ DotsLeft[NextPhase[p]] = DotsLeft[p] - 1
<1>1. DOMAIN NextPhase = {"tile_0", "tile_1", "low_0", "low_1", "high_0",
                          "obj_tile_0", "obj_tile_1", "obj_low_0", "obj_low_1", "obj_high_0"}
  BY DEF NextPhase
<1>2. p \in {"tile_1", "low_0", "low_1", "high_0",
             "obj_tile_0", "obj_tile_1", "obj_low_0", "obj_low_1", "obj_high_0"}
  BY <1>1 DEF Phases, ObjPhases
<1>3. /\ NextPhase["tile_1"] = "low_0" /\ NextPhase["low_0"] = "low_1"
      /\ NextPhase["low_1"] = "high_0" /\ NextPhase["high_0"] = "high_1"
      /\ NextPhase["obj_tile_0"] = "obj_tile_1" /\ NextPhase["obj_tile_1"] = "obj_low_0"
      /\ NextPhase["obj_low_0"] = "obj_low_1" /\ NextPhase["obj_low_1"] = "obj_high_0"
      /\ NextPhase["obj_high_0"] = "obj_high_1"
  BY DEF NextPhase
<1>4. /\ DotsLeft["tile_1"] = 5 /\ DotsLeft["low_0"] = 4 /\ DotsLeft["low_1"] = 3
      /\ DotsLeft["high_0"] = 2 /\ DotsLeft["high_1"] = 1
      /\ DotsLeft["obj_tile_0"] = 6 /\ DotsLeft["obj_tile_1"] = 5 /\ DotsLeft["obj_low_0"] = 4
      /\ DotsLeft["obj_low_1"] = 3 /\ DotsLeft["obj_high_0"] = 2 /\ DotsLeft["obj_high_1"] = 1
  BY DEF DotsLeft
<1>5. NextPhase[p] \in Phases /\ (p \in ObjPhases <=> NextPhase[p] \in ObjPhases)
  BY PhasesFollow
<1>6. QED BY <1>2, <1>3, <1>4, <1>5

(* The same ledger, the same accounts. *)
LEMMA LedgerTells ==
  ASSUME NEW r, NEW s, Ledger(s) = Ledger(r)
  PROVE  /\ Floor(s) = Floor(r) /\ Accounted(s) = Accounted(r)
         /\ ObjsHere(s) = ObjsHere(r) /\ (ObjReady(s) <=> ObjReady(r))
         /\ SamePlace(r, s) /\ s.objs = r.objs
<1>1. /\ s.selector = r.selector /\ s.dots = r.dots /\ s.lx = r.lx /\ s.discard = r.discard
      /\ s.scroll = r.scroll /\ s.total = r.total /\ s.served = r.served /\ s.triggers = r.triggers
      /\ s.wx0 = r.wx0 /\ s.cancelled = r.cancelled /\ s.objs = r.objs
  BY DEF Ledger
<1>2. Floor(s) = Floor(r) BY <1>1 DEF Floor
<1>3. Accounted(s) = Accounted(r) BY <1>1, <1>2 DEF Accounted
<1>4. ObjsHere(s) = ObjsHere(r) BY <1>1 DEF ObjsHere
<1>5. QED BY <1>1, <1>2, <1>3, <1>4 DEF ObjReady, SamePlace

LEMMA AccountTypes ==
  ASSUME NEW r \in RowRecords
  PROVE  Floor(r) \in Int /\ Accounted(r) \in Int /\ Cardinality(r.objs) \in Nat
<1>1. /\ r.scroll \in Nat /\ r.discard \in Nat /\ r.lx \in Nat /\ r.served \in Nat /\ r.triggers \in Nat
      /\ r.total \in Nat
  BY TransferAssumption DEF RowRecords
<1>2. Cardinality(r.objs) \in Nat BY FS_CardinalityType DEF RowRecords, ObjSets
<1>3. Floor(r) \in Int BY <1>1 DEF Floor
<1>4. QED BY <1>1, <1>2, <1>3 DEF Accounted

LEMMA TickTile ==
  ASSUME NEW r \in RowRecords, r.fetch \notin ObjPhases,
         NEW a, a = TickFetcher(r)
  PROVE  /\ Ledger(a) = Ledger(r) /\ Queue(a) = Queue(r) /\ a.sprite = r.sprite
         /\ a.fetch \in Phases /\ a.fetch \notin ObjPhases
         /\ a.push <=> r.push \/ r.fetch = "high_1"
         /\ a.fetch = "idle" <=> r.fetch \in {"idle", "high_1"}
         /\ r.fetch # "idle" => DotsLeft[a.fetch] = DotsLeft[r.fetch] - 1
         /\ a.active => r.active
<1>1. r.fetch \in Phases /\ r.push \in BOOLEAN /\ r.active \in BOOLEAN BY DEF RowRecords
<1>2. CASE r.fetch = "idle"
  BY <1>1, <1>2 DEF TickFetcher
<1>3. CASE r.fetch = "tile_0"
  <2>1. a = [r EXCEPT !.fetch = "tile_1", !.active = @ /\ row_lcdc.win] BY <1>3 DEF TickFetcher
  <2>2. DotsLeft["tile_1"] = 5 /\ DotsLeft["tile_0"] = 6 BY LeftFacts
  <2>3. QED BY <1>1, <1>3, <2>1, <2>2, PhaseFacts DEF RowRecords, Ledger, Queue
<1>4. CASE r.fetch = "high_1"
  <2>1. a = [r EXCEPT !.fetch = "idle", !.push = TRUE] BY <1>4 DEF TickFetcher
  <2>2. DotsLeft["high_1"] = 1 /\ DotsLeft["idle"] = 0 BY DEF DotsLeft
  <2>3. QED BY <1>1, <1>4, <2>1, <2>2, PhaseFacts DEF RowRecords, Ledger, Queue
<1>5. CASE r.fetch \notin {"idle", "tile_0", "high_1"}
  <2>1. r.fetch # "obj_high_1" BY DEF ObjPhases
  <2>2. a = [r EXCEPT !.fetch = NextPhase[r.fetch]] BY <1>5, <2>1 DEF TickFetcher
  <2>3. /\ NextPhase[r.fetch] \in Phases /\ NextPhase[r.fetch] # "idle" /\ NextPhase[r.fetch] \notin ObjPhases
        /\ DotsLeft[NextPhase[r.fetch]] = DotsLeft[r.fetch] - 1
    BY <1>1, <1>5, <2>1, LeftFollows
  <2>4. QED BY <1>1, <1>5, <2>2, <2>3 DEF RowRecords, Ledger, Queue
<1>6. QED BY <1>2, <1>3, <1>4, <1>5

LEMMA OneObjectLess ==
  ASSUME NEW objs \in ObjSets, NEW o \in objs
  PROVE  Cardinality(objs \ {o}) = Cardinality(objs) - 1
BY FS_RemoveElement DEF ObjSets

LEMMA PullTells ==
  ASSUME NEW r \in RowRecords, ObjsHere(r) # {}, NEW p \in ObjPhases,
         NEW u, u = PullObj(r, p)
  PROVE  /\ Queue(u) = Queue(r) /\ u.push = r.push /\ u.sprite /\ u.fetch = p
         /\ SamePlace(r, u) /\ u.total = r.total
         /\ Floor(u) = Floor(r) + 6 /\ Accounted(u) = Accounted(r) + 11
         /\ Cardinality(u.objs) = Cardinality(r.objs) - 1
<1> DEFINE o == CHOOSE z \in ObjsHere(r) : TRUE
           objs == r.objs \ {o}
<1>1. o \in r.objs BY DEF ObjsHere
<1>2. r.objs \in ObjSets BY DEF RowRecords
<1>3. Cardinality(objs) = Cardinality(r.objs) - 1 BY <1>1, <1>2, OneObjectLess
<1>4. u = [r EXCEPT !.sprite = TRUE, !.objs = objs, !.served = @ + 1, !.fetch = p]
  BY DEF PullObj
<1> HIDE DEF objs
<1>5. /\ u.objs = objs /\ u.served = r.served + 1 /\ u.total = r.total /\ u.sprite /\ u.fetch = p
      /\ u.scroll = r.scroll /\ u.wx0 = r.wx0 /\ u.cancelled = r.cancelled /\ u.triggers = r.triggers
      /\ u.push = r.push /\ SamePlace(r, u) /\ Queue(u) = Queue(r)
  BY <1>4 DEF RowRecords, SamePlace, Queue
<1> HIDE DEF o
<1>6. r.served \in Nat /\ r.scroll \in Nat /\ r.discard \in Nat /\ r.lx \in Nat /\ r.triggers \in Nat /\ r.total \in Nat
  BY TransferAssumption DEF RowRecords
<1>7. Floor(u) = Floor(r) + 6 /\ Floor(r) \in Int BY <1>5, <1>6 DEF Floor, SamePlace
<1>8. Cardinality(r.objs) \in Nat BY AccountTypes
<1>9. Accounted(u) = Accounted(r) + 11 BY <1>3, <1>5, <1>6, <1>7, <1>8 DEF Accounted
<1>10. QED BY <1>3, <1>5, <1>7, <1>9

(* A dot of an object's fetch: it is over one dot later, or the next object *)
(* of the column begins.                                                   *)
LEMMA TickObj ==
  ASSUME NEW r \in RowRecords, Filled(r), r.sprite, r.lx < LastLx,
         NEW a, a = TickFetcher(r)
  PROVE  /\ Queue(a) = Queue(r) /\ a.push = r.push /\ SamePlace(r, a) /\ a.total = r.total
         /\ a.fetch \in Phases /\ Cardinality(a.objs) <= Cardinality(r.objs)
         /\ Floor(a) = Floor(r) + ObjLeft(a) - ObjLeft(r) + 1
         /\ Accounted(a) >= Accounted(r) + ObjLeft(a) - ObjLeft(r) + 1
         /\ a.sprite \in BOOLEAN
         /\ ~a.sprite => a.fetch = "idle" /\ ~ObjReady(a)
<1>1. r.fetch \in ObjPhases /\ r.fetch \in Phases BY PhaseFacts DEF Filled, FetcherKept
<1>2. Floor(r) \in Int /\ Accounted(r) \in Int /\ Cardinality(r.objs) \in Nat BY AccountTypes
<1>3. ObjLeft(r) = DotsLeft[r.fetch] /\ DotsLeft[r.fetch] \in 0 .. 6 BY <1>1, LeftFacts DEF ObjLeft
<1>4. CASE r.fetch = "obj_high_1"
  <2> DEFINE s == [r EXCEPT !.obj = Tile]
  <2>1. s \in RowRecords BY TileFills DEF RowRecords
  <2>2. Ledger(s) = Ledger(r) /\ Queue(s) = Queue(r) /\ s.push = r.push BY DEF RowRecords, Ledger, Queue
  <2>3. /\ Floor(s) = Floor(r) /\ Accounted(s) = Accounted(r) /\ SamePlace(r, s) /\ s.objs = r.objs
        /\ s.total = r.total
    BY <2>2, LedgerTells DEF Ledger
  <2>4. a = IF ObjReady(s) THEN PullObj(s, "obj_tile_0")
            ELSE [s EXCEPT !.sprite = FALSE, !.cached = FALSE, !.fetch = "idle"]
    BY <1>4 DEF TickFetcher, MergeObj
  <2> HIDE DEF s
  <2>5. ObjLeft(r) = 1 BY <1>3, <1>4, LeftFacts
  <2>6. CASE ObjReady(s)
    <3>1. ObjsHere(s) # {} /\ "obj_tile_0" \in ObjPhases BY <2>6, PhaseFacts DEF ObjReady
    <3>2. a = PullObj(s, "obj_tile_0") BY <2>4, <2>6
    <3>3. /\ Queue(a) = Queue(s) /\ a.push = s.push /\ a.sprite /\ a.fetch = "obj_tile_0"
          /\ SamePlace(s, a) /\ a.total = s.total
          /\ Floor(a) = Floor(s) + 6 /\ Accounted(a) = Accounted(s) + 11
          /\ Cardinality(a.objs) = Cardinality(s.objs) - 1
      BY <2>1, <3>1, <3>2, PullTells
    <3>4. ObjLeft(a) = 6 /\ a.fetch \in Phases BY <3>3, LeftFacts, PhaseFacts DEF ObjLeft
    <3>5. SamePlace(r, a) BY <2>3, <3>3 DEF SamePlace
    <3>6. a.sprite = TRUE BY <2>1, <3>2, <3>3 DEF PullObj, RowRecords
    <3>7. QED BY <1>2, <2>2, <2>3, <2>5, <3>3, <3>4, <3>5, <3>6
  <2>7. CASE ~ObjReady(s)
    <3>1. a = [s EXCEPT !.sprite = FALSE, !.cached = FALSE, !.fetch = "idle"] BY <2>4, <2>7
    <3>2. /\ Ledger(a) = Ledger(s) /\ Queue(a) = Queue(s) /\ a.push = s.push /\ a.sprite = FALSE
          /\ a.fetch = "idle" /\ a.total = s.total
      BY <2>1, <3>1 DEF RowRecords, Ledger, Queue
    <3>3. /\ Floor(a) = Floor(s) /\ Accounted(a) = Accounted(s) /\ SamePlace(s, a) /\ a.objs = s.objs
          /\ ~ObjReady(a)
      BY <2>7, <3>2, LedgerTells
    <3>4. ObjLeft(a) = 0 /\ a.fetch \in Phases BY <3>2, PhaseFacts DEF ObjLeft
    <3>5. SamePlace(r, a) BY <2>3, <3>3 DEF SamePlace
    <3>6. /\ Floor(a) = Floor(r) + ObjLeft(a) - ObjLeft(r) + 1
          /\ Accounted(a) >= Accounted(r) + ObjLeft(a) - ObjLeft(r) + 1
      BY <1>2, <2>3, <2>5, <3>3, <3>4
    <3>7. Queue(a) = Queue(r) /\ a.push = r.push /\ a.total = r.total BY <2>2, <2>3, <3>2
    <3>8. Cardinality(a.objs) <= Cardinality(r.objs) BY <1>2, <2>3, <3>3
    <3>9. QED BY <3>2, <3>3, <3>4, <3>5, <3>6, <3>7, <3>8
  <2>8. QED BY <2>6, <2>7
<1>5. CASE r.fetch # "obj_high_1"
  <2>1. r.fetch \notin {"idle", "tile_0", "high_1"} BY <1>1, PhaseFacts
  <2>2. a = [r EXCEPT !.fetch = NextPhase[r.fetch]] BY <1>5, <2>1 DEF TickFetcher
  <2>3. NextPhase[r.fetch] \in Phases /\ DotsLeft[NextPhase[r.fetch]] = DotsLeft[r.fetch] - 1
    BY <1>1, <1>5, <2>1, LeftFollows
  <2>4. /\ Ledger(a) = Ledger(r) /\ Queue(a) = Queue(r) /\ a.push = r.push /\ a.sprite = r.sprite
        /\ a.fetch = NextPhase[r.fetch] /\ a.total = r.total /\ r.sprite \in BOOLEAN
    BY <2>2 DEF RowRecords, Ledger, Queue
  <2>5. Floor(a) = Floor(r) /\ Accounted(a) = Accounted(r) /\ SamePlace(r, a) /\ a.objs = r.objs
    BY <2>4, LedgerTells
  <2>6. ObjLeft(a) = ObjLeft(r) - 1 BY <1>3, <2>3, <2>4 DEF ObjLeft
  <2>7. QED BY <1>2, <1>3, <2>3, <2>4, <2>5, <2>6
<1>6. QED BY <1>4, <1>5

(* What is under way in a row after d dots, and that it is over in time.   *)
InObject(r, d) ==
  /\ r.push /\ r.bg > 0 /\ ~r.fill /\ r.partial = 0 /\ ~r.just_activated
  /\ d + DotsLeft[r.fetch] <= Accounted(r)

InWindow(r, d) ==
  /\ r.bg = 0 /\ ~r.fill /\ ~r.push /\ r.partial = 0 /\ ~r.activating /\ r.fetch # "idle"
  /\ d + DotsLeft[r.fetch] <= Accounted(r)

(* The next tile is there before the queue is empty. *)
TileComes(r) ==
  /\ Ahead(r) > 0 /\ FetchLeft(r) <= Ahead(r)
  /\ r.fetch = "idle" => r.push
  /\ r.partial > 0 => ~r.fill

(* The dots before an object of this column are the object's. *)
InBudget(r, d) ==
  IF ObjsHere(r) = {} THEN d <= Accounted(r)
  ELSE d + FetchLeft(r) <= Accounted(r) + 6 /\ d <= Accounted(r) + 5

(* A window begins in the next dot, or is disabled in it (~win) and leaves *)
(* the tile that has been fetched. *)
InTrigger(r, d, win) ==
  /\ r.partial = 0 /\ d <= Accounted(r)
  /\ win => r.fetch = "idle" /\ ~r.push /\ ~r.fill
  /\ ~win => r.push \/ r.fill
  /\ r.fill => ~r.push

OnTime(r, d, win) ==
  /\ Floor(r) <= d + ObjLeft(r) /\ Cardinality(r.objs) <= r.total
  /\ IF r.sprite THEN InObject(r, d)
     ELSE IF r.just_activated THEN InWindow(r, d)
     ELSE IF r.activating THEN InTrigger(r, d, win)
     ELSE TileComes(r) /\ InBudget(r, d)

LEMMA LeftTypes ==
  ASSUME NEW r \in RowRecords
  PROVE  /\ r.fetch \in Phases /\ DotsLeft[r.fetch] \in 0 .. 6 /\ (DotsLeft[r.fetch] = 0 <=> r.fetch = "idle")
         /\ FetchLeft(r) \in 0 .. 6 /\ ObjLeft(r) \in 0 .. 6
         /\ r.bg \in Nat /\ r.partial \in Nat /\ Tile \in Nat /\ Tile >= 6
<1>1. r.fetch \in Phases /\ r.bg \in Nat /\ r.partial \in Nat /\ Tile \in Nat /\ Tile >= 6
  BY TransferAssumption DEF RowRecords
<1>2. DotsLeft[r.fetch] \in 0 .. 6 /\ (DotsLeft[r.fetch] = 0 <=> r.fetch = "idle") BY <1>1, LeftFacts
<1>3. QED BY <1>1, <1>2 DEF FetchLeft, ObjLeft

(* A dot in which an object is fetched. *)
LEMMA ObjectDot ==
  ASSUME NEW s \in RowRecords, Filled(s), s.lx < LastLx, NEW d \in Int, NEW win,
         s.sprite, InObject(s, d), Floor(s) <= d + ObjLeft(s), Cardinality(s.objs) <= s.total,
         NEW a, a = TickFetcher(s), a \in RowRecords, NEW b \in {a, WindowGlitch(a)},
         NEW p, p = HandlePush(b)
  PROVE  OnTime(p, d + 1, win) /\ p.bg = s.bg /\ p.partial = s.partial
<1>1. /\ Queue(a) = Queue(s) /\ a.push = s.push /\ a.total = s.total
      /\ a.fetch \in Phases /\ Cardinality(a.objs) <= Cardinality(s.objs)
      /\ Floor(a) = Floor(s) + ObjLeft(a) - ObjLeft(s) + 1
      /\ Accounted(a) >= Accounted(s) + ObjLeft(a) - ObjLeft(s) + 1
      /\ ~a.sprite => a.fetch = "idle" /\ ~ObjReady(a)
  BY TickObj
<1>2. /\ a.bg = s.bg /\ a.fill = s.fill /\ a.partial = s.partial
      /\ a.just_activated = s.just_activated /\ a.activating = s.activating
  BY <1>1 DEF Queue
<1>3. ~s.activating /\ ~s.fill /\ s.bg > 0 /\ s.partial = 0 /\ s.push /\ ~s.just_activated
  BY DEF Filled, FetcherKept, InObject
<1>4. b = a BY <1>2, <1>3 DEF WindowGlitch
<1>5. p = a BY <1>1, <1>2, <1>3, <1>4 DEF HandlePush
<1>6. /\ Floor(s) \in Int /\ Floor(a) \in Int /\ Accounted(s) \in Int /\ Accounted(a) \in Int
      /\ Cardinality(s.objs) \in Nat /\ Cardinality(a.objs) \in Nat /\ s.total \in Nat
  BY AccountTypes DEF RowRecords
<1>7. ObjLeft(a) \in 0 .. 6 /\ ObjLeft(s) \in 0 .. 6 /\ DotsLeft[s.fetch] = ObjLeft(s)
  BY LeftTypes DEF ObjLeft
<1>8. Floor(a) <= d + 1 + ObjLeft(a) /\ Cardinality(a.objs) <= a.total /\ d + 1 + ObjLeft(a) <= Accounted(a)
  BY <1>1, <1>6, <1>7 DEF InObject
<1>9. CASE a.sprite
  <2>1. ObjLeft(a) = DotsLeft[a.fetch] BY <1>9 DEF ObjLeft
  <2>2. InObject(a, d + 1) BY <1>1, <1>2, <1>3, <1>8, <2>1 DEF InObject
  <2>3. QED BY <1>2, <1>5, <1>8, <1>9, <2>2 DEF OnTime
<1>10. CASE ~a.sprite
  <2>1. FetchLeft(a) = 0 /\ Ahead(a) = s.bg BY <1>1, <1>2, <1>3 DEF FetchLeft, Ahead
  <2>2. s.bg \in Nat BY LeftTypes
  <2>3. TileComes(a) BY <1>1, <1>2, <1>3, <2>1, <2>2 DEF TileComes
  <2>4. InBudget(a, d + 1) BY <1>6, <1>7, <1>8, <2>1 DEF InBudget
  <2>5. QED BY <1>2, <1>3, <1>5, <1>8, <1>10, <2>3, <2>4 DEF OnTime
<1>11. QED BY <1>9, <1>10

(* What pushing the fetched tile leaves. *)
LEMMA PushTells ==
  ASSUME NEW r \in RowRecords, NEW p, p = PushTile(r)
  PROVE  /\ Ledger(p) = Ledger(r) /\ p.bg = r.bg /\ p.fill /\ p.partial = r.partial
         /\ ~p.just_activated /\ p.activating = r.activating /\ p.sprite = r.sprite
         /\ ~p.push /\ p.fetch = "tile_0" /\ FetchLeft(p) = 6 /\ Ahead(p) = Tile
<1>1. /\ Ledger(p) = Ledger(r) /\ p.bg = r.bg /\ p.fill /\ p.partial = r.partial
      /\ ~p.just_activated /\ p.activating = r.activating /\ p.sprite = r.sprite
      /\ ~p.push /\ p.fetch = "tile_0"
  BY DEF PushTile, RowRecords, Ledger
<1>2. QED BY <1>1, LeftFacts DEF FetchLeft, Ahead

LEMMA GlitchTells ==
  ASSUME NEW a \in RowRecords, NEW b \in {a, WindowGlitch(a)}
  PROVE  /\ Ledger(b) = Ledger(a) /\ Queue(b) = Queue(a) /\ b.sprite = a.sprite /\ b.fetch = a.fetch
         /\ b.active = a.active /\ b \in RowRecords
         /\ b = a \/ (b.push /\ (a.activating \/ a.just_activated))
         /\ a.push => b.push
<1>1. CASE (a.activating \/ a.just_activated) /\ Disabling
  <2> DEFINE c == [a EXCEPT !.push = TRUE]
  <2>1. WindowGlitch(a) = c BY <1>1 DEF WindowGlitch
  <2>2. /\ c.push = TRUE /\ c.sprite = a.sprite /\ c.fetch = a.fetch /\ c.active = a.active
        /\ Ledger(c) = Ledger(a) /\ Queue(c) = Queue(a)
    BY DEF RowRecords, Ledger, Queue
  <2>3. c \in RowRecords BY DEF RowRecords
  <2> HIDE DEF c
  <2>4. b = a \/ b = c BY <2>1
  <2>5. CASE b = a BY <2>5
  <2>6. CASE b = c BY <1>1, <2>2, <2>3, <2>6
  <2>7. QED BY <2>4, <2>5, <2>6
<1>2. CASE ~((a.activating \/ a.just_activated) /\ Disabling)
  <2>1. WindowGlitch(a) = a BY <1>2 DEF WindowGlitch
  <2>2. QED BY <2>1
<1>3. QED BY <1>1, <1>2

(* A dot of the fetch of a window's first tile. *)
LEMMA WindowDot ==
  ASSUME NEW s \in RowRecords, Filled(s), NEW d \in Int, NEW win,
         ~s.sprite, s.just_activated, InWindow(s, d),
         Floor(s) <= d + 1, Cardinality(s.objs) <= s.total,
         NEW a, a = TickFetcher(s), a \in RowRecords, NEW b \in {a, WindowGlitch(a)},
         NEW p, p = HandlePush(b)
  PROVE  OnTime(p, d + 1, win) /\ (p.just_activated \/ p.fill) /\ p.partial = s.partial
<1>1. s.fetch \notin ObjPhases BY DEF Filled, FetcherKept
<1>2. /\ Ledger(a) = Ledger(s) /\ Queue(a) = Queue(s) /\ a.sprite = s.sprite
      /\ a.push <=> s.push \/ s.fetch = "high_1"
      /\ a.fetch = "idle" <=> s.fetch \in {"idle", "high_1"}
      /\ s.fetch # "idle" => DotsLeft[a.fetch] = DotsLeft[s.fetch] - 1
  BY <1>1, TickTile
<1>3. /\ Ledger(b) = Ledger(a) /\ Queue(b) = Queue(a) /\ b.sprite = a.sprite /\ b.fetch = a.fetch
      /\ b \in RowRecords /\ (b = a \/ b.push) /\ (a.push => b.push)
  BY GlitchTells
<1>4. Ledger(b) = Ledger(s) /\ Queue(b) = Queue(s) /\ ~b.sprite BY <1>2, <1>3
<1>5. b.bg = 0 /\ ~b.fill /\ b.partial = 0 /\ s.partial = 0 /\ b.just_activated /\ ~b.activating
  BY <1>4 DEF Queue, InWindow
<1>6. Floor(b) = Floor(s) /\ Accounted(b) = Accounted(s) /\ b.objs = s.objs /\ b.total = s.total
  BY <1>4, LedgerTells DEF Ledger
<1>7. Floor(s) \in Int /\ Accounted(s) \in Int /\ DotsLeft[s.fetch] \in 0 .. 6 /\ DotsLeft[s.fetch] # 0
  BY AccountTypes, LeftTypes DEF InWindow
<1>8. ObjLeft(s) = 0 BY DEF ObjLeft
<1>9. CASE ~b.push
  <2>1. p = b /\ b = a BY <1>3, <1>9 DEF HandlePush
  <2>2. DotsLeft[p.fetch] = DotsLeft[s.fetch] - 1 /\ p.fetch # "idle"
    BY <1>2, <1>9, <2>1 DEF InWindow
  <2>3. d + 1 + DotsLeft[p.fetch] <= Accounted(p) BY <1>6, <1>7, <2>1, <2>2 DEF InWindow
  <2>4. InWindow(p, d + 1) BY <1>5, <1>9, <2>1, <2>2, <2>3 DEF InWindow
  <2>5. ObjLeft(p) = 0 BY <1>4, <2>1 DEF ObjLeft
  <2>6. Floor(p) <= d + 1 + ObjLeft(p) /\ Cardinality(p.objs) <= p.total
    BY <1>6, <1>7, <1>8, <2>1, <2>5
  <2>7. QED BY <1>4, <1>5, <2>1, <2>4, <2>6 DEF OnTime
<1>10. CASE b.push
  <2>1. p = PushTile(b) BY <1>4, <1>5, <1>10 DEF HandlePush
  <2>2. /\ Ledger(p) = Ledger(b) /\ p.fill /\ p.partial = b.partial
        /\ ~p.just_activated /\ p.activating = b.activating /\ p.sprite = b.sprite
        /\ p.fetch = "tile_0" /\ FetchLeft(p) = 6 /\ Ahead(p) = Tile
    BY <1>3, <2>1, PushTells
  <2>3. Floor(p) = Floor(s) /\ Accounted(p) = Accounted(s) /\ p.objs = s.objs /\ p.total = s.total
    BY <1>6, <2>2, LedgerTells DEF Ledger
  <2>4. TileComes(p) BY <1>5, <2>2, TransferAssumption DEF TileComes
  <2>5. InBudget(p, d + 1) BY <1>7, <2>2, <2>3 DEF InBudget, InWindow
  <2>6. ObjLeft(p) = 0 BY <1>4, <2>2 DEF ObjLeft
  <2>7. Floor(p) <= d + 1 + ObjLeft(p) /\ Cardinality(p.objs) <= p.total
    BY <1>7, <1>8, <2>3, <2>6
  <2>8. QED BY <1>4, <1>5, <2>2, <2>4, <2>5, <2>7 DEF OnTime
<1>11. QED BY <1>9, <1>10

(* A tile in the queue, with handle_fill done.  A partial fill outlives it *)
(* only where the window was disabled in the dot of a fill.                *)
TileHere(r) ==
  /\ ~r.sprite /\ ~r.just_activated /\ ~r.activating /\ ~r.fill /\ r.bg > 0
  /\ FetchLeft(r) <= IF r.partial > 0 THEN Tile ELSE r.bg
  /\ r.fetch = "idle" => r.push
  /\ r.partial > 0 => /\ r.partial = Tile /\ r.bg = Tile
                      /\ r.fetch = "tile_0" /\ ~r.push /\ ~row_lcdc.win

(* A dot in which an object of this column makes the tile wait. *)
LEMMA WaitingDot ==
  ASSUME NEW s \in RowRecords, Filled(s), s.lx < LastLx, NEW d \in Int, NEW win,
         TileHere(s), InBudget(s, d), ObjReady(s),
         Floor(s) <= d + ObjLeft(s), Cardinality(s.objs) <= s.total,
         NEW a, a = TickFetcher(s), a \in RowRecords, NEW b \in {a, WindowGlitch(a)},
         NEW p, p = HandlePush(b)
  PROVE  OnTime(p, d + 1, win) /\ p.bg = s.bg /\ p.partial = s.partial
<1>1. s.fetch \notin ObjPhases BY DEF Filled, FetcherKept, TileHere
<1>2. /\ Ledger(a) = Ledger(s) /\ Queue(a) = Queue(s) /\ a.sprite = s.sprite
      /\ a.push <=> s.push \/ s.fetch = "high_1"
      /\ a.fetch = "idle" <=> s.fetch \in {"idle", "high_1"}
      /\ s.fetch # "idle" => DotsLeft[a.fetch] = DotsLeft[s.fetch] - 1
  BY <1>1, TickTile
<1>3. /\ a.bg = s.bg /\ a.fill = s.fill /\ a.partial = s.partial
      /\ ~a.just_activated /\ ~a.activating /\ ~a.sprite /\ ~a.fill /\ a.bg > 0
  BY <1>2 DEF Queue, TileHere
<1>4. b = a BY <1>3 DEF WindowGlitch
<1>5. /\ Floor(a) = Floor(s) /\ Accounted(a) = Accounted(s) /\ a.objs = s.objs /\ a.total = s.total
      /\ ObjsHere(a) = ObjsHere(s) /\ ObjReady(a)
  BY <1>2, LedgerTells DEF Ledger
<1>6. /\ Floor(s) \in Int /\ Accounted(s) \in Int /\ Cardinality(s.objs) \in Nat /\ s.total \in Nat
      /\ FetchLeft(s) \in 0 .. 6 /\ DotsLeft[a.fetch] \in 0 .. 6 /\ (DotsLeft[a.fetch] = 0 <=> a.fetch = "idle")
      /\ s.bg \in Nat /\ a.bg \in Nat /\ a.partial \in Nat
  BY AccountTypes, LeftTypes DEF RowRecords
<1>7. ObjLeft(s) = 0 BY DEF ObjLeft, TileHere
<1>8. ObjsHere(s) # {} /\ d + FetchLeft(s) <= Accounted(s) + 6 /\ d <= Accounted(s) + 5
  BY DEF ObjReady, InBudget
<1>9. CASE ~a.push
  <2>1. p = a BY <1>4, <1>9 DEF HandlePush
  <2>2. a.fetch # "idle" /\ s.fetch # "idle" /\ ~s.push BY <1>2, <1>9 DEF TileHere
  <2>3. FetchLeft(a) = FetchLeft(s) - 1 /\ FetchLeft(a) >= 1
    BY <1>2, <1>6, <1>9, <2>2 DEF FetchLeft
  <2>4. FetchLeft(a) <= Ahead(a) /\ Ahead(a) > 0
    BY <1>3, <1>6, <2>3, TransferAssumption DEF Ahead, TileHere
  <2>5. TileComes(a) BY <1>3, <2>2, <2>4 DEF TileComes
  <2>6. InBudget(a, d + 1) BY <1>5, <1>6, <1>8, <2>3 DEF InBudget
  <2>7. ObjLeft(a) = 0 BY <1>3 DEF ObjLeft
  <2>8. Floor(a) <= d + 1 + ObjLeft(a) /\ Cardinality(a.objs) <= a.total BY <1>5, <1>6, <1>7, <2>7
  <2>9. QED BY <1>3, <2>1, <2>5, <2>6, <2>8 DEF OnTime
<1>10. CASE a.push
  <2> DEFINE u == PullObj(a, "obj_tile_1")
  <2>1. p = StartObj(a, TRUE) BY <1>3, <1>4, <1>5, <1>10 DEF HandlePush
  <2>2. p = [u EXCEPT !.cached = TRUE] BY <2>1 DEF StartObj
  <2>3. ObjsHere(a) # {} /\ "obj_tile_1" \in ObjPhases /\ a.lx < LastLx
    BY <1>2, <1>5, <1>8, PhaseFacts DEF Ledger
  <2>4. u \in RowRecords BY <2>3, PullObjKeeps
  <2>5. /\ Queue(u) = Queue(a) /\ u.push = a.push /\ u.sprite /\ u.fetch = "obj_tile_1" /\ u.total = a.total
        /\ Floor(u) = Floor(a) + 6 /\ Accounted(u) = Accounted(a) + 11
        /\ Cardinality(u.objs) = Cardinality(a.objs) - 1
    BY <2>3, PullTells
  <2> HIDE DEF u
  <2>6. /\ Ledger(p) = Ledger(u) /\ Queue(p) = Queue(u) /\ p.push = u.push /\ p.sprite /\ p.fetch = "obj_tile_1"
    BY <2>2, <2>4, <2>5 DEF RowRecords, Ledger, Queue
  <2>7. Floor(p) = Floor(s) + 6 /\ Accounted(p) = Accounted(s) + 11 /\ p.total = s.total
        /\ Cardinality(p.objs) = Cardinality(s.objs) - 1
    BY <1>5, <2>5, <2>6, LedgerTells DEF Ledger
  <2>8. /\ p.bg = s.bg /\ p.bg > 0 /\ ~p.fill /\ p.partial = s.partial /\ ~p.just_activated
    BY <1>3, <2>5, <2>6 DEF Queue
  <2>9. s.partial = 0
    <3>1. s.partial \in Nat BY LeftTypes
    <3>2. CASE s.partial > 0 BY <1>2, <1>10, <3>2 DEF TileHere
    <3>3. QED BY <3>1, <3>2
  <2>10. DotsLeft[p.fetch] = 5 /\ ObjLeft(p) = 5 BY <2>6, LeftFacts DEF ObjLeft
  <2>11. d + 1 + DotsLeft[p.fetch] <= Accounted(p) BY <1>6, <1>8, <2>7, <2>10
  <2>12. InObject(p, d + 1) BY <1>10, <2>5, <2>6, <2>8, <2>9, <2>11 DEF InObject
  <2>13. Floor(p) <= d + 1 + ObjLeft(p) /\ Cardinality(p.objs) <= p.total BY <1>6, <1>7, <2>7, <2>10
  <2>14. QED BY <2>6, <2>8, <2>12, <2>13 DEF OnTime
<1>11. QED BY <1>9, <1>10

(* A tile of which a pixel has just been popped. *)
TilePopped(r) ==
  /\ ~r.sprite /\ ~r.just_activated /\ ~r.activating /\ ~r.fill
  /\ FetchLeft(r) <= IF r.partial > 0 THEN Tile ELSE r.bg + 1
  /\ r.fetch = "idle" => r.push
  /\ r.partial > 0 => /\ r.partial = Tile /\ r.bg > 0 /\ r.fetch = "tile_0" /\ ~r.push

LEMMA PoppedDot ==
  ASSUME NEW k \in RowRecords, Filled(k), TilePopped(k), ~ObjReady(k),
         NEW a, a = TickFetcher(k), a \in RowRecords, NEW b \in {a, WindowGlitch(a)},
         NEW p, p = HandlePush(b)
  PROVE  /\ Ledger(p) = Ledger(k) /\ ~p.sprite /\ ~p.just_activated /\ ~p.activating
         /\ TileComes(p) /\ FetchLeft(p) \in 0 .. 6 /\ p.partial = k.partial
         /\ k.bg > 0 => p.bg = k.bg /\ FetchLeft(p) <= FetchLeft(k)
<1>1. k.fetch \notin ObjPhases BY DEF Filled, FetcherKept, TilePopped
<1>2. /\ Ledger(a) = Ledger(k) /\ Queue(a) = Queue(k) /\ a.sprite = k.sprite
      /\ a.push <=> k.push \/ k.fetch = "high_1"
      /\ a.fetch = "idle" <=> k.fetch \in {"idle", "high_1"}
      /\ k.fetch # "idle" => DotsLeft[a.fetch] = DotsLeft[k.fetch] - 1
  BY <1>1, TickTile
<1>3. /\ a.bg = k.bg /\ a.partial = k.partial
      /\ ~a.just_activated /\ ~a.activating /\ ~a.sprite /\ ~a.fill
  BY <1>2 DEF Queue, TilePopped
<1>4. b = a /\ ~ObjReady(a) BY <1>2, <1>3, LedgerTells DEF WindowGlitch
<1>5. /\ k.bg \in Nat /\ k.partial \in Nat /\ Tile \in Nat /\ Tile >= 6
      /\ FetchLeft(k) \in 0 .. 6 /\ FetchLeft(a) \in 0 .. 6
      /\ DotsLeft[a.fetch] \in 0 .. 6 /\ (DotsLeft[a.fetch] = 0 <=> a.fetch = "idle")
  BY LeftTypes
<1>6. CASE ~a.push
  <2>1. p = a BY <1>4, <1>6 DEF HandlePush
  <2>2. a.fetch # "idle" /\ k.fetch # "idle" /\ ~k.push BY <1>2, <1>6 DEF TilePopped
  <2>3. FetchLeft(a) = FetchLeft(k) - 1 /\ FetchLeft(a) >= 1
    BY <1>2, <1>5, <1>6, <2>2 DEF FetchLeft
  <2>4. FetchLeft(a) <= Ahead(a) /\ Ahead(a) > 0
    BY <1>3, <1>5, <2>3 DEF Ahead, TilePopped
  <2>5. TileComes(a) BY <1>3, <2>2, <2>4 DEF TileComes
  <2>6. QED BY <1>2, <1>3, <1>5, <2>1, <2>3, <2>5
<1>7. CASE a.push
  <2>1. k.partial = 0 BY <1>2, <1>5, <1>7 DEF TilePopped
  <2>2. CASE k.bg > 0
    <3>1. p = a BY <1>3, <1>4, <1>7, <2>2 DEF HandlePush
    <3>2. FetchLeft(a) = 0 /\ Ahead(a) = k.bg BY <1>3, <1>7, <2>1 DEF FetchLeft, Ahead
    <3>3. TileComes(a) BY <1>3, <1>5, <1>7, <2>1, <2>2, <3>2 DEF TileComes
    <3>4. QED BY <1>2, <1>3, <1>5, <3>1, <3>2, <3>3
  <2>3. CASE k.bg = 0 /\ p = [a EXCEPT !.bg = 1]
    <3>1. /\ Ledger(p) = Ledger(a) /\ p.bg = 1 /\ p.partial = a.partial /\ p.push = a.push /\ p.fetch = a.fetch
          /\ ~p.just_activated /\ ~p.activating /\ ~p.sprite /\ ~p.fill
      BY <1>3, <2>3 DEF RowRecords, Ledger
    <3>2. FetchLeft(p) = 0 /\ Ahead(p) = 1 BY <1>3, <1>7, <2>1, <3>1 DEF FetchLeft, Ahead
    <3>3. TileComes(p) BY <1>3, <1>7, <2>1, <3>1, <3>2 DEF TileComes
    <3>4. Ledger(p) = Ledger(k) /\ p.partial = k.partial BY <1>2, <1>3, <3>1
    <3>5. ~(k.bg > 0) /\ FetchLeft(p) \in 0 .. 6 BY <2>3, <3>2
    <3>6. QED BY <3>1, <3>3, <3>4, <3>5
  <2>4. CASE k.bg = 0 /\ p = PushTile(a)
    <3>1. /\ Ledger(p) = Ledger(a) /\ p.fill /\ p.partial = a.partial
          /\ ~p.just_activated /\ p.activating = a.activating /\ p.sprite = a.sprite
          /\ p.fetch = "tile_0" /\ FetchLeft(p) = 6 /\ Ahead(p) = Tile
      BY <2>4, PushTells
    <3>2. TileComes(p) BY <1>3, <1>5, <2>1, <3>1 DEF TileComes
    <3>3. QED BY <1>2, <1>3, <2>4, <3>1, <3>2
  <2>5. k.bg = 0 => p = [a EXCEPT !.bg = 1] \/ p = PushTile(a)
    BY <1>3, <1>4, <1>7 DEF HandlePush
  <2>6. QED BY <1>5, <2>2, <2>3, <2>4, <2>5
<1>8. QED BY <1>6, <1>7

(* A window begins at this column. *)
LEMMA TriggerDot ==
  ASSUME NEW k \in RowRecords, Filled(k), ~ObjReady(k),
         ~k.sprite, ~k.just_activated, k.activating, ~k.fill, k.partial = 0, ~k.push,
         ~Disabling => k.fetch = "idle",
         NEW a, a = TickFetcher(k), a \in RowRecords, NEW p, p = HandlePush(WindowGlitch(a))
  PROVE  /\ Ledger(p) = Ledger(k) /\ ~p.sprite /\ ~p.just_activated /\ p.activating /\ p.partial = 0
         /\ ~Disabling => p.fetch = "idle" /\ ~p.push /\ ~p.fill
         /\ Disabling => p.push \/ p.fill
         /\ p.fill => ~p.push
<1>1. k.fetch \notin ObjPhases /\ ~k.active BY DEF Filled, FetcherKept
<1>2. /\ Ledger(a) = Ledger(k) /\ Queue(a) = Queue(k) /\ a.sprite = k.sprite
      /\ a.push <=> k.push \/ k.fetch = "high_1"
      /\ a.fetch = "idle" <=> k.fetch \in {"idle", "high_1"}
      /\ a.active => k.active
  BY <1>1, TickTile
<1>3. a.partial = 0 /\ ~a.just_activated /\ a.activating /\ ~a.sprite /\ ~a.fill /\ ~a.active
  BY <1>1, <1>2 DEF Queue
<1>4. CASE ~Disabling
  <2>1. WindowGlitch(a) = a BY <1>4 DEF WindowGlitch
  <2>2. ~a.push /\ a.fetch = "idle" BY <1>2, <1>4
  <2>3. p = a BY <2>1, <2>2 DEF HandlePush
  <2>4. QED BY <1>2, <1>3, <1>4, <2>2, <2>3
<1>5. CASE Disabling
  <2> DEFINE b == WindowGlitch(a)
  <2>1. b = [a EXCEPT !.push = TRUE] BY <1>3, <1>5 DEF WindowGlitch
  <2>2. /\ Ledger(b) = Ledger(a) /\ b.push /\ ~b.sprite /\ ~b.fill /\ b.activating /\ b.partial = 0
        /\ ~b.just_activated /\ ~b.active /\ b.bg = a.bg /\ b \in RowRecords
    BY ZenonT(40), <1>3, <2>1 DEF RowRecords, Ledger
  <2> HIDE DEF b
  <2>3. Ledger(b) = Ledger(k) /\ ~ObjReady(b) BY <1>2, <2>2, LedgerTells
  <2>4. p = HandlePush(b) BY DEF b
  <2>5. CASE b.bg > 0
    <3>1. p = b BY <2>2, <2>3, <2>4, <2>5 DEF HandlePush
    <3>2. QED BY <1>5, <2>2, <2>3, <3>1
  <2>6. CASE ~(b.bg > 0)
    <3>0. b \in RowRecords BY <2>2
    <3>1. p = PushTile(b) BY <2>2, <2>3, <2>4, <2>6 DEF HandlePush
    <3>2. /\ Ledger(p) = Ledger(b) /\ p.fill /\ p.partial = b.partial /\ ~p.just_activated
          /\ p.activating = b.activating /\ p.sprite = b.sprite /\ ~p.push
      BY <3>0, <3>1, PushTells
    <3>3. QED BY <1>5, <2>2, <2>3, <3>2
  <2>7. QED BY <2>5, <2>6
<1>6. QED BY <1>4, <1>5

(* The next column: an object left behind was accounted for. *)
LEMMA LxTells ==
  ASSUME NEW r \in RowRecords, NEW u, u = IncreaseLx(r)
  PROVE  /\ Queue(u) = Queue(r) /\ u.push = r.push /\ u.fetch = r.fetch /\ u.sprite = r.sprite
         /\ u.total = r.total /\ u.discard = r.discard /\ u.dots = r.dots /\ u.selector = r.selector
         /\ u.lx = r.lx + 1
         /\ Floor(u) = Floor(r) + 1 /\ Cardinality(u.objs) <= Cardinality(r.objs)
         /\ Accounted(u) >= Accounted(r) + 1
         /\ ObjsHere(r) # {} => Accounted(u) >= Accounted(r) + 6
<1> DEFINE objs == r.objs \ ObjsHere(r)
<1>1. r.objs \in ObjSets BY DEF RowRecords
<1>2. /\ Cardinality(objs) \in Nat /\ Cardinality(r.objs) \in Nat
      /\ Cardinality(objs) <= Cardinality(r.objs)
  BY <1>1, FS_Subset, FS_CardinalityType DEF ObjSets
<1>3. ASSUME ObjsHere(r) # {} PROVE Cardinality(objs) <= Cardinality(r.objs) - 1
  <2>1. PICK o \in ObjsHere(r) : TRUE BY <1>3
  <2>2. o \in r.objs /\ objs \subseteq r.objs \ {o} BY <2>1 DEF ObjsHere
  <2>3. IsFiniteSet(r.objs \ {o}) /\ Cardinality(r.objs \ {o}) = Cardinality(r.objs) - 1
    BY <1>1, <2>2, FS_RemoveElement DEF ObjSets
  <2>4. Cardinality(objs) <= Cardinality(r.objs \ {o}) BY <2>2, <2>3, FS_Subset
  <2>5. QED BY <2>3, <2>4
<1>4. u = [r EXCEPT !.objs = objs, !.lx = @ + 1] BY DEF IncreaseLx
<1> HIDE DEF objs
<1>5. /\ Queue(u) = Queue(r) /\ u.push = r.push /\ u.fetch = r.fetch /\ u.sprite = r.sprite
      /\ u.total = r.total /\ u.discard = r.discard /\ u.dots = r.dots /\ u.selector = r.selector
      /\ u.lx = r.lx + 1 /\ u.objs = objs /\ u.served = r.served /\ u.triggers = r.triggers
      /\ u.scroll = r.scroll /\ u.wx0 = r.wx0 /\ u.cancelled = r.cancelled
  BY <1>4 DEF RowRecords, Queue
<1>6. r.served \in Nat /\ r.scroll \in Nat /\ r.discard \in Nat /\ r.lx \in Nat /\ r.triggers \in Nat /\ r.total \in Nat
  BY TransferAssumption DEF RowRecords
<1>7. Floor(u) = Floor(r) + 1 /\ Floor(r) \in Int BY <1>5, <1>6 DEF Floor
<1> DEFINE rest == 6 * r.triggers + (IF r.cancelled THEN 1 ELSE 0)
<1>8. rest \in Int BY <1>6
<1>9. /\ Accounted(r) = Floor(r) + rest + 5 * (r.total - Cardinality(r.objs))
      /\ Accounted(u) = Floor(u) + rest + 5 * (r.total - Cardinality(objs))
  BY <1>5, <1>6, <1>7 DEF Accounted
<1> HIDE DEF rest
<1>10. QED BY <1>2, <1>3, <1>5, <1>6, <1>7, <1>8, <1>9

(* In the course of a dot, after handle_fill.  A dot more is allowed for a *)
(* window that begins in this dot: no pixel leaves in it.                  *)
Ready(s, d) ==
  /\ Floor(s) <= d + ObjLeft(s) + (IF s.just_activated THEN 1 ELSE 0)
  /\ Cardinality(s.objs) <= s.total
  /\ IF s.sprite THEN InObject(s, d)
     ELSE IF s.just_activated THEN InWindow(s, d)
     ELSE TileHere(s) /\ InBudget(s, d)

LEMMA FillReady ==
  ASSUME NEW r \in RowRecords, FetcherKept(r), TileWaits(r), ~r.activating, NEW d \in Int, NEW win,
         OnTime(r, d, win), NEW s, s = HandleFill(r)
  PROVE  /\ Ready(s, d) /\ Ledger(s) = Ledger(r) /\ s.just_activated = r.just_activated
         /\ s.bg = Ahead(r) /\ s.partial = 0
<1>1. r.bg \in Nat /\ r.partial \in Nat /\ Tile \in Nat /\ Tile >= 6 /\ r.partial \in 0 .. Tile
      /\ Floor(r) \in Int
  BY LeftTypes, AccountTypes DEF RowRecords
<1>2. /\ Ledger(s) = Ledger(r) /\ s.just_activated = r.just_activated /\ s.sprite = r.sprite
      /\ s.push = r.push /\ s.fetch = r.fetch /\ s.bg = Ahead(r) /\ ~s.fill
      /\ ~s.activating /\ s.partial = IF r.fill THEN r.partial ELSE 0
  <2>1. CASE r.fill BY <1>1, <2>1 DEF HandleFill, RowRecords, Ledger, Ahead
  <2>2. CASE ~r.fill /\ r.partial > 0 BY <1>1, <2>2 DEF HandleFill, RowRecords, Ledger, Ahead
  <2>3. CASE ~r.fill /\ ~(r.partial > 0)
    <3>1. s = r BY <2>3 DEF HandleFill
    <3>2. r.partial = 0 BY <1>1, <2>3
    <3>3. QED BY <2>3, <3>1, <3>2 DEF Ahead
  <2>4. QED BY <2>1, <2>2, <2>3
<1>3. /\ Floor(s) = Floor(r) /\ Accounted(s) = Accounted(r) /\ ObjsHere(s) = ObjsHere(r)
      /\ s.objs = r.objs /\ s.total = r.total
  BY <1>2, LedgerTells DEF Ledger
<1>4. ObjLeft(s) = ObjLeft(r) /\ FetchLeft(s) = FetchLeft(r) /\ ObjLeft(r) \in 0 .. 6
  BY <1>2, LeftTypes DEF ObjLeft, FetchLeft
<1>5. Floor(s) <= d + ObjLeft(s) + (IF s.just_activated THEN 1 ELSE 0) /\ Cardinality(s.objs) <= s.total
  BY <1>1, <1>3, <1>4 DEF OnTime
<1>6. CASE r.sprite
  <2>1. InObject(r, d) BY <1>6 DEF OnTime
  <2>2. s.bg = r.bg /\ s.partial = 0 BY <1>1, <1>2, <2>1 DEF InObject, Ahead
  <2>3. InObject(s, d) BY <1>2, <1>3, <2>1, <2>2 DEF InObject
  <2>4. QED BY <1>2, <1>5, <1>6, <2>2, <2>3 DEF Ready
<1>7. CASE ~r.sprite /\ r.just_activated
  <2>1. InWindow(r, d) BY <1>7 DEF OnTime
  <2>2. s.bg = 0 /\ s.partial = 0 BY <1>1, <1>2, <2>1 DEF InWindow, Ahead
  <2>3. InWindow(s, d) BY <1>2, <1>3, <2>1, <2>2 DEF InWindow
  <2>4. QED BY <1>2, <1>5, <1>7, <2>2, <2>3 DEF Ready
<1>8. CASE ~r.sprite /\ ~r.just_activated
  <2>1. TileComes(r) /\ InBudget(r, d) BY <1>8 DEF OnTime
  <2>2. s.partial = 0 BY <1>1, <1>2, <2>1 DEF TileComes
  <2>3. TileHere(s) BY <1>1, <1>2, <1>4, <1>8, <2>1, <2>2 DEF TileHere, TileComes
  <2>4. InBudget(s, d) BY <1>3, <1>4, <2>1 DEF InBudget
  <2>5. QED BY <1>2, <1>5, <1>8, <2>2, <2>3, <2>4 DEF Ready
<1>9. QED BY <1>2, <1>6, <1>7, <1>8

(* The dot after the one in which a window was triggered. *)
LEMMA TriggerReady ==
  ASSUME NEW r \in RowRecords, FetcherKept(r), TileWaits(r), r.activating, ~r.just_activated,
         r.selector # "discard_wx0", row_lcdc \in [win : BOOLEAN, obj : BOOLEAN], NEW d \in Int,
         InTrigger(r, d, row_lcdc.win), Floor(r) <= d, Cardinality(r.objs) <= r.total,
         NEW s, s = HandleFill(HandleWindow(r))
  PROVE  Ready(s, d)
<1>1. r.bg \in Nat /\ r.bg \in 0 .. Tile /\ Tile \in Nat /\ Tile >= 6 /\ r.triggers \in Nat /\ r.total \in Nat
      /\ Floor(r) \in Int /\ Accounted(r) \in Int /\ Cardinality(r.objs) \in Nat
      /\ r.scroll \in Nat /\ r.lx \in Nat /\ r.discard \in Nat /\ r.served \in Nat
  BY LeftTypes, AccountTypes, TransferAssumption DEF RowRecords
<1>2. ~r.sprite /\ r.partial = 0 /\ d <= Accounted(r) BY DEF FetcherKept, InTrigger
<1>3. CASE row_lcdc.win
  <2>1. ~r.push /\ ~r.fill BY <1>3 DEF InTrigger
  <2> DEFINE w == [r EXCEPT !.bg = 0, !.active = TRUE, !.just_activated = TRUE, !.triggers = @ + 1,
                            !.wx0 = @ \/ TriggerColumn(r) = 0, !.activating = FALSE, !.fetch = "tile_0"]
  <2>2. HandleWindow(r) = w BY <1>3 DEF HandleWindow, ActivateWindow, RowRecords
  <2>3. /\ w.bg = 0 /\ ~w.fill /\ w.partial = 0 /\ w.just_activated /\ ~w.activating /\ w.fetch = "tile_0"
        /\ ~w.push /\ ~w.sprite
        /\ w.scroll = r.scroll /\ w.discard = r.discard /\ w.lx = r.lx /\ w.served = r.served
        /\ w.total = r.total /\ w.objs = r.objs /\ w.cancelled = r.cancelled /\ w.triggers = r.triggers + 1
        /\ r.wx0 => w.wx0
    BY <1>2, <2>1 DEF RowRecords
  <2> HIDE DEF w
  <2>4. s = w BY <2>2, <2>3 DEF HandleFill
  <2>5. /\ Floor(w) <= Floor(r) + 1 /\ Floor(w) >= Floor(r) /\ Floor(w) \in Int
    BY <1>1, <2>3 DEF Floor
  <2>6. Accounted(w) >= Accounted(r) + 6
    <3> DEFINE cancels == IF r.cancelled THEN 1 ELSE 0
               left == 5 * (r.total - Cardinality(r.objs))
    <3>1. cancels \in Int /\ left \in Int BY <1>1
    <3>2. Accounted(r) = Floor(r) + 6 * r.triggers + cancels + left BY DEF Accounted
    <3>3. Accounted(w) = Floor(w) + 6 * (r.triggers + 1) + cancels + left BY <2>3 DEF Accounted
    <3> HIDE DEF cancels, left
    <3>4. QED BY <1>1, <2>5, <3>1, <3>2, <3>3
  <2>7. Accounted(w) \in Int
    BY <1>1, <2>3, <2>5 DEF Accounted
  <2>8. DotsLeft[w.fetch] = 6 /\ ObjLeft(w) = 0 /\ w.fetch # "idle" BY <2>3, LeftFacts DEF ObjLeft
  <2>9. d + DotsLeft[w.fetch] <= Accounted(w) BY <1>1, <1>2, <2>6, <2>7, <2>8
  <2>10. InWindow(w, d) BY <2>3, <2>8, <2>9 DEF InWindow
  <2>11. Floor(w) <= d + ObjLeft(w) + 1 BY <1>1, <2>5, <2>8
  <2>12. QED BY <2>3, <2>4, <2>10, <2>11 DEF Ready
<1>4. CASE ~row_lcdc.win
  <2> DEFINE pixels == IF r.bg = 0 THEN Tile ELSE r.bg
             w == [r EXCEPT !.partial = pixels, !.cancelled = r.cancelled, !.activating = FALSE, !.fetch = "tile_0"]
  <2>1. pixels \in 0 .. Tile /\ pixels > 0 /\ (r.bg = 0 => pixels = Tile) BY <1>1
  <2>2. HandleWindow(r) = w
    <3>1. (r.cancelled \/ r.selector = "discard_wx0") = r.cancelled BY DEF RowRecords
    <3>2. QED BY <1>4, <3>1 DEF HandleWindow, RowRecords
  <2> HIDE DEF pixels
  <2>3. /\ w.bg = r.bg /\ w.fill = r.fill /\ w.partial = pixels /\ ~w.just_activated /\ ~w.activating
        /\ w.fetch = "tile_0" /\ w.push = r.push /\ ~w.sprite /\ Ledger(w) = Ledger(r)
    BY <1>2 DEF RowRecords, Ledger
  <2> HIDE DEF w
  <2>4. /\ s.bg = (IF r.fill THEN Tile ELSE pixels) /\ ~s.fill /\ s.partial = (IF r.fill THEN pixels ELSE 0)
        /\ ~s.just_activated /\ ~s.activating /\ s.fetch = "tile_0" /\ s.push = r.push /\ ~s.sprite
        /\ Ledger(s) = Ledger(r)
    <3>1. s = HandleFill(w) BY <2>2
    <3>2. CASE r.fill
      <4>1. s = [w EXCEPT !.fill = FALSE, !.bg = Tile] BY <2>3, <3>1, <3>2 DEF HandleFill
      <4>2. QED BY <2>3, <3>2, <4>1 DEF RowRecords, Ledger
    <3>3. CASE ~r.fill
      <4>1. s = [w EXCEPT !.bg = pixels, !.partial = 0] BY <2>1, <2>3, <3>1, <3>3 DEF HandleFill
      <4>2. QED BY <2>3, <3>3, <4>1 DEF RowRecords, Ledger
    <3>4. QED BY <3>2, <3>3
  <2>5. /\ Floor(s) = Floor(r) /\ Accounted(s) = Accounted(r) /\ s.objs = r.objs /\ s.total = r.total
    BY <2>4, LedgerTells DEF Ledger
  <2>6. ObjLeft(s) = 0 /\ FetchLeft(s) = (IF r.push THEN 0 ELSE 6)
    BY <2>4, LeftFacts DEF ObjLeft, FetchLeft
  <2>7. (r.push \/ r.fill) /\ (r.fill => ~r.push /\ r.bg = 0) BY <1>4 DEF InTrigger, TileWaits
  <2>8. TileHere(s)
    <3>1. CASE r.fill BY <1>1, <1>4, <2>1, <2>4, <2>6, <2>7, <3>1 DEF TileHere
    <3>2. CASE ~r.fill BY <1>1, <1>4, <2>1, <2>4, <2>6, <2>7, <3>2 DEF TileHere
    <3>3. QED BY <3>1, <3>2
  <2>9. InBudget(s, d) BY <1>1, <1>2, <2>5, <2>6 DEF InBudget
  <2>10. QED BY <1>1, <2>4, <2>5, <2>6, <2>8, <2>9 DEF Ready
<1>5. QED BY <1>3, <1>4

(* A dot in which no pixel leaves. *)
LEMMA FetchDot ==
  ASSUME NEW s \in RowRecords, Filled(s), s.lx < LastLx, ~s.activating, NEW d \in Int, NEW win,
         Ready(s, d), ~BgReady(s),
         NEW a, a = TickFetcher(s), a \in RowRecords, NEW b \in {a, WindowGlitch(a)},
         NEW p, p = HandlePush(b)
  PROVE  OnTime(p, d + 1, win) /\ (p.just_activated \/ p.fill \/ p.bg = s.bg) /\ p.partial = s.partial
<1>1. /\ Floor(s) \in Int /\ ObjLeft(s) \in 0 .. 6 /\ (~s.sprite => ObjLeft(s) = 0)
      /\ Cardinality(s.objs) <= s.total
  BY AccountTypes, LeftTypes DEF Ready, ObjLeft
<1>2. CASE s.sprite
  <2>1. InObject(s, d) BY <1>2 DEF Ready
  <2>2. Floor(s) <= d + ObjLeft(s) BY <1>1, <2>1 DEF Ready, InObject
  <2>3. QED BY <1>1, <1>2, <2>1, <2>2, ObjectDot
<1>3. CASE ~s.sprite /\ s.just_activated
  <2>1. InWindow(s, d) BY <1>3 DEF Ready
  <2>2. Floor(s) <= d + 1 BY <1>1, <1>3 DEF Ready
  <2>3. QED BY <1>1, <1>3, <2>1, <2>2, WindowDot
<1>4. CASE ~s.sprite /\ ~s.just_activated
  <2>1. TileHere(s) /\ InBudget(s, d) BY <1>4 DEF Ready
  <2>2. ObjReady(s) BY <1>4, <2>1 DEF BgReady, TileHere
  <2>3. Floor(s) <= d + ObjLeft(s) BY <1>1, <1>4 DEF Ready
  <2>4. QED BY <1>1, <2>1, <2>2, <2>3, WaitingDot
<1>5. QED BY <1>2, <1>3, <1>4

(* More pixels in the queue than are to be discarded. *)
QueueOutlasts(r) == r.just_activated \/ Ahead(r) > r.discard

(* What a row is d dots after it began; win: the window bit in this dot.   *)
DummyOnTime(r, d) ==
  r.selector = "dummy" =>
    /\ d < 3 /\ d = r.dots
    /\ r.lx = 0 /\ r.discard = 0 /\ r.scroll = 0 /\ r.bg = 0 /\ ~r.fill /\ r.partial = 0
    /\ r.fetch = "tile_0" /\ ~r.push /\ ~r.sprite /\ ~r.activating /\ ~r.just_activated
    /\ r.served = 0 /\ r.triggers = 0 /\ ~r.wx0 /\ ~r.cancelled

Wx0OnTime(r, d, win) ==
  r.selector = "discard_wx0" =>
    /\ d = 3 /\ r.lx = 0 /\ r.discard = r.scroll /\ r.bg = Tile /\ ~r.fill /\ r.partial = 0
    /\ ~r.push /\ ~r.sprite /\ r.activating /\ ~r.just_activated
    /\ r.fetch = IF win THEN "idle" ELSE "tile_0"
    /\ r.served = 0 /\ r.triggers = 0 /\ ~r.wx0 /\ ~r.cancelled

HBlankOnTime(r, d) ==
  r.selector = "hblank" =>
    /\ d <= Accounted(r)
    /\ r.lx = LastLx => r.discard = 0 /\ Floor(r) <= d

RowOnTime(r, d, win) ==
  /\ Cardinality(r.objs) <= r.total
  /\ DummyOnTime(r, d) /\ Wx0OnTime(r, d, win) /\ HBlankOnTime(r, d)
  /\ r.selector = "discard" => OnTime(r, d, win) /\ QueueOutlasts(r)
  /\ r.selector = "draw" => OnTime(r, d, win) /\ r.discard = 0

(* How the window bit of the next dot follows from the window bit of this. *)
WinFollows(win) == row_lcdc.win => (win <=> ~Disabling)

LEMMA PopReady ==
  ASSUME NEW s \in RowRecords, NEW d \in Int, Ready(s, d), ~s.activating, BgReady(s),
         NEW k, k.bg = s.bg - 1, k.fill = s.fill, k.partial = s.partial, k.push = s.push, k.fetch = s.fetch,
         k.sprite = s.sprite, k.just_activated = s.just_activated, k.activating = s.activating
  PROVE  /\ TilePopped(k) /\ InBudget(s, d) /\ Floor(s) <= d /\ ~ObjReady(s) /\ s.bg > 0
         /\ s.partial > 0 => ~row_lcdc.win
<1>1. ~s.sprite /\ s.bg > 0 /\ ~ObjReady(s) BY DEF BgReady
<1>2. s.bg \in Nat /\ s.partial \in Nat /\ Tile \in Nat /\ Tile >= 6 /\ Floor(s) \in Int /\ FetchLeft(s) \in 0 .. 6
  BY LeftTypes, AccountTypes
<1>3. ~s.just_activated BY <1>1, <1>2 DEF Ready, InWindow
<1>4. TileHere(s) /\ InBudget(s, d) BY <1>1, <1>3 DEF Ready
<1>5. Floor(s) <= d BY <1>1, <1>2, <1>3 DEF Ready, ObjLeft
<1>6. FetchLeft(k) = FetchLeft(s) BY DEF FetchLeft
<1>7. TilePopped(k)
  <2>1. FetchLeft(k) <= IF k.partial > 0 THEN Tile ELSE k.bg + 1 BY <1>2, <1>4, <1>6 DEF TileHere
  <2>2. k.partial > 0 => /\ k.partial = Tile /\ k.bg > 0 /\ k.fetch = "tile_0" /\ ~k.push
    BY <1>2, <1>4 DEF TileHere
  <2>3. QED BY <1>4, <2>1, <2>2 DEF TilePopped, TileHere
<1>8. QED BY <1>1, <1>4, <1>5, <1>7 DEF TileHere

LEMMA DrawOnTime ==
  ASSUME NEW r, RowKept(r), r.selector = "draw", row_lcdc \in [win : BOOLEAN, obj : BOOLEAN],
         NEW d \in Int, RowOnTime(r, d, row_lcdc.win), NEW win \in BOOLEAN, WinFollows(win)
  PROVE  RowOnTime(Draw(r), d + 1, win)
<1> DEFINE w == HandleWindow(r)
           s == HandleFill(w)
           popped == [s EXCEPT !.bg = @ - 1, !.obj = IF @ > 0 THEN @ - 1 ELSE 0]
           k == CheckWindow(popped)
<1>1. r \in RowRecords /\ FetcherKept(r) /\ TileWaits(r) /\ PastDone(r) /\ r.lx < LastLx
  BY DEF RowKept, PlaceKept
<1>2. Draw(r) = IF ~BgReady(s) THEN FetchedRow(s)
                ELSE IF s.lx + 1 = LastLx THEN [IncreaseLx(popped) EXCEPT !.selector = "hblank"]
                ELSE IncreaseLx(FetchedRow(k))
  BY DEF Draw, FetchedRow
<1>3. OnTime(r, d, row_lcdc.win) /\ r.discard = 0 BY DEF RowOnTime
<1>4. /\ w \in RowRecords /\ FetcherKept(w) /\ TileWaits(w) /\ ~w.activating /\ SamePlace(r, w)
  BY <1>1, HandleWindowKeeps
<1>5. Ready(s, d)
  <2>1. CASE r.activating
    <3>1. ~r.sprite BY <1>1, <2>1 DEF FetcherKept
    <3>2. ~r.just_activated BY <1>3, <2>1, <3>1 DEF OnTime, InWindow
    <3>3. InTrigger(r, d, row_lcdc.win) BY <1>3, <2>1, <3>1, <3>2 DEF OnTime
    <3>4. ObjLeft(r) = 0 /\ Floor(r) \in Int BY <1>1, <3>1, AccountTypes DEF ObjLeft
    <3>5. Floor(r) <= d /\ Cardinality(r.objs) <= r.total BY <1>3, <3>4 DEF OnTime
    <3>6. QED BY <1>1, <2>1, <3>2, <3>3, <3>5, TriggerReady
  <2>2. CASE ~r.activating
    <3>1. w = r BY <2>2 DEF HandleWindow
    <3>2. QED BY <1>1, <1>3, <2>2, <3>1, FillReady
  <2>3. QED BY <2>1, <2>2
<1> HIDE DEF w
<1>6. s \in RowRecords /\ Filled(s) /\ SamePlace(w, s) /\ s.activating = w.activating
  BY <1>4, HandleFillKeeps
<1> HIDE DEF s
<1>7. ~s.activating /\ s.lx < LastLx /\ s.selector = "draw" /\ s.discard = 0 /\ s.lx \in Nat
  BY <1>1, <1>3, <1>4, <1>6, TransferAssumption DEF SamePlace, RowRecords
<1>8. CASE ~BgReady(s)
  <2> DEFINE a == TickFetcher(s)
             b == WindowGlitch(a)
             p == HandlePush(b)
  <2>1. a \in RowRecords BY <1>6, <1>7, TickFetcherKeeps
  <2>2. p = FetchedRow(s) BY DEF FetchedRow
  <2>3. OnTime(p, d + 1, win) BY <1>5, <1>6, <1>7, <1>8, <2>1, FetchDot
  <2>4. SamePlace(s, p) BY <1>6, <1>7, <2>2, FetchedKeeps
  <2> HIDE DEF p
  <2>5. p.selector = "draw" /\ p.discard = 0 BY <1>7, <2>4 DEF SamePlace
  <2>6. Draw(r) = p BY <1>2, <1>8, <2>2
  <2>7. QED BY <2>3, <2>5, <2>6 DEF RowOnTime, DummyOnTime, Wx0OnTime, HBlankOnTime, OnTime
<1>9. CASE BgReady(s)
  <2>1. /\ Ledger(popped) = Ledger(s) /\ popped.bg = s.bg - 1 /\ popped.fill = s.fill
        /\ popped.partial = s.partial /\ popped.push = s.push /\ popped.fetch = s.fetch
        /\ popped.sprite = s.sprite /\ popped.just_activated = s.just_activated
        /\ popped.activating = s.activating /\ popped.active = s.active /\ popped.cached = s.cached
    BY <1>6 DEF RowRecords, Ledger
  <2>2. popped \in RowRecords
    <3>1. s.bg - 1 \in 0 .. Tile /\ (IF s.obj > 0 THEN s.obj - 1 ELSE 0) \in 0 .. Tile
      BY <1>6, <1>9, TransferAssumption DEF RowRecords, BgReady
    <3>2. QED BY <1>6, <3>1 DEF RowRecords
  <2> HIDE DEF popped
  <2>3. /\ TilePopped(popped) /\ InBudget(s, d) /\ Floor(s) <= d /\ ~ObjReady(s)
        /\ s.partial > 0 => ~row_lcdc.win
    BY <1>5, <1>6, <1>7, <1>9, <2>1, PopReady
  <2>4. Filled(popped) /\ popped.lx = s.lx /\ popped.selector = "draw" /\ popped.discard = 0
    <3>1. ~s.sprite BY <1>9 DEF BgReady
    <3>2. QED BY <1>6, <1>7, <2>1, <3>1 DEF Filled, FetcherKept, Ledger
  <2>5. /\ Floor(popped) = Floor(s) /\ Accounted(popped) = Accounted(s) /\ ~ObjReady(popped)
        /\ ObjsHere(popped) = ObjsHere(s) /\ popped.objs = s.objs /\ popped.total = s.total
    BY <2>1, <2>3, LedgerTells DEF Ledger
  <2>6. /\ Floor(s) \in Int /\ Accounted(s) \in Int /\ Cardinality(s.objs) \in Nat /\ s.total \in Nat
        /\ Cardinality(s.objs) <= s.total
    BY <1>5, <1>6, AccountTypes DEF RowRecords, Ready
  (* The column is over, wherever the row stands in it. *)
  <2>7. ASSUME NEW p \in RowRecords, Ledger(p) = Ledger(s), NEW u, u = IncreaseLx(p)
        PROVE  /\ Floor(u) <= d + 1 /\ d + 1 <= Accounted(u) /\ Cardinality(u.objs) <= u.total
               /\ Accounted(u) \in Int /\ u.lx = s.lx + 1
               /\ u.selector = "draw" /\ u.discard = 0
    <3>1. /\ Floor(p) = Floor(s) /\ Accounted(p) = Accounted(s) /\ ObjsHere(p) = ObjsHere(s)
          /\ p.objs = s.objs /\ p.total = s.total /\ p.selector = "draw" /\ p.discard = 0 /\ p.lx = s.lx
      BY <1>7, <2>7, LedgerTells DEF Ledger
    <3>2. /\ u.total = p.total /\ u.discard = p.discard /\ u.selector = p.selector /\ u.lx = p.lx + 1
          /\ Floor(u) = Floor(p) + 1 /\ Cardinality(u.objs) <= Cardinality(p.objs)
          /\ Accounted(u) >= Accounted(p) + 1
          /\ ObjsHere(p) # {} => Accounted(u) >= Accounted(p) + 6
      BY <2>7, LxTells
    <3>3. u.objs \subseteq p.objs /\ u.triggers = p.triggers /\ u.cancelled = p.cancelled
      BY <2>7 DEF IncreaseLx, RowRecords
    <3>4. p.triggers \in Nat /\ p.objs \in ObjSets BY DEF RowRecords
    <3>5. u.objs \in ObjSets BY <3>3, <3>4, FewerObjs
    <3>6. Cardinality(u.objs) \in Nat BY <3>5, FS_CardinalityType DEF ObjSets
    <3>7. Accounted(u) \in Int BY <2>6, <3>1, <3>2, <3>3, <3>4, <3>6 DEF Accounted
    <3>8. d + 1 <= Accounted(u)
      <4>1. CASE ObjsHere(s) = {} BY <2>3, <2>6, <3>1, <3>2, <3>7, <4>1 DEF InBudget
      <4>2. CASE ObjsHere(s) # {} BY <2>3, <2>6, <3>1, <3>2, <3>7, <4>2 DEF InBudget
      <4>3. QED BY <4>1, <4>2
    <3>9. QED BY <2>3, <2>6, <3>1, <3>2, <3>6, <3>7, <3>8
  <2>8. CASE s.lx + 1 = LastLx
    <3> DEFINE u == IncreaseLx(popped)
               v == [u EXCEPT !.selector = "hblank"]
    <3>1. /\ Floor(u) <= d + 1 /\ d + 1 <= Accounted(u) /\ Cardinality(u.objs) <= u.total
          /\ u.discard = 0
      BY <2>1, <2>2, <2>7
    <3>2. u \in RowRecords
      <4>1. popped.lx < LastLx BY <1>7, <2>4
      <4>2. PastDone(popped)
        BY <1>1, <1>4, <1>6, <2>5, HandleWindowKeeps, HandleFillKeeps DEF PastDone, SamePlace, w, s, Ledger, popped
      <4>3. QED BY <2>2, <4>1, <4>2, IncreaseLxKeeps
    <3>3. Draw(r) = v BY <1>2, <1>9, <2>8
    <3> HIDE DEF u
    <3>4. /\ v.selector = "hblank" /\ v.discard = u.discard /\ v.objs = u.objs /\ v.total = u.total
          /\ Floor(v) = Floor(u)
      BY <3>2 DEF RowRecords, Floor
    <3>5. Accounted(v) = Accounted(u) BY <3>2, <3>4 DEF RowRecords, Accounted
    <3> HIDE DEF v
    <3>6. QED BY <3>1, <3>3, <3>4, <3>5 DEF RowOnTime, DummyOnTime, Wx0OnTime, HBlankOnTime
  <2>9. CASE s.lx + 1 # LastLx
    <3> DEFINE a == TickFetcher(k)
               b == WindowGlitch(a)
               p == HandlePush(b)
               u == IncreaseLx(p)
    <3>1. Draw(r) = u BY <1>2, <1>9, <2>9 DEF FetchedRow
    <3>2. ~popped.sprite /\ ~popped.activating BY <2>3 DEF TilePopped
    <3>3. k \in RowRecords /\ Filled(k) BY <2>2, <2>4, <3>2, CheckWindowKeeps
    <3>4. CASE k = popped
      <4>1. a \in RowRecords /\ k.lx < LastLx BY <1>7, <2>2, <2>4, <3>4, TickFetcherKeeps
      <4>2. /\ Ledger(p) = Ledger(k) /\ ~p.sprite /\ ~p.just_activated /\ ~p.activating
            /\ TileComes(p) /\ FetchLeft(p) \in 0 .. 6
        BY <2>2, <2>3, <2>4, <2>5, <3>4, <4>1, PoppedDot
      <4>3. p \in RowRecords
        <5>1. k.activating => ~ObjReady(k) BY <2>5, <3>4
        <5>2. FetchedRow(k) = p BY DEF FetchedRow
        <5>3. QED BY <3>3, <4>1, <5>1, <5>2, FetchedKeeps
      <4> HIDE DEF p
      <4>4. Ledger(p) = Ledger(s) BY <2>1, <3>4, <4>2
      <4>5. /\ Floor(u) <= d + 1 /\ d + 1 <= Accounted(u) /\ Cardinality(u.objs) <= u.total
            /\ Accounted(u) \in Int /\ u.selector = "draw" /\ u.discard = 0
        BY <2>7, <4>3, <4>4
      <4>6. Queue(u) = Queue(p) /\ u.push = p.push /\ u.fetch = p.fetch /\ u.sprite = p.sprite
        BY <4>3, LxTells
      <4> HIDE DEF u
      <4>7. FetchLeft(u) = FetchLeft(p) /\ Ahead(u) = Ahead(p) /\ ObjLeft(u) = 0
        BY <4>2, <4>6 DEF FetchLeft, Ahead, Queue, ObjLeft
      <4>8. TileComes(u) BY <4>2, <4>6, <4>7 DEF TileComes, Queue
      <4>9. InBudget(u, d + 1) BY <4>2, <4>5, <4>7 DEF InBudget
      <4>10. ~u.sprite /\ ~u.just_activated /\ ~u.activating BY <4>2, <4>6 DEF Queue
      <4>11. Floor(u) <= d + 1 + ObjLeft(u)
        <5>1. Floor(u) \in Int BY <1>6, <2>6, <4>3, <4>4, LxTells, LedgerTells DEF u
        <5>2. QED BY <4>5, <4>7, <5>1
      <4>12. OnTime(u, d + 1, win) BY <4>5, <4>8, <4>9, <4>10, <4>11 DEF OnTime
      <4>13. QED BY <3>1, <4>5, <4>12 DEF RowOnTime, DummyOnTime, Wx0OnTime, HBlankOnTime
    <3>5. CASE k # popped
      <4>1. /\ row_lcdc.win
            /\ k = [popped EXCEPT !.activating = TRUE, !.push = FALSE, !.fetch = IF Disabling THEN @ ELSE "idle"]
        BY <3>5 DEF CheckWindow
      <4>2. s.partial = 0 BY <2>3, <4>1, LeftTypes, <1>6
      <4>3. /\ Ledger(k) = Ledger(popped) /\ ~k.sprite /\ ~k.just_activated /\ k.activating /\ ~k.fill
            /\ k.partial = 0 /\ ~k.push /\ (~Disabling => k.fetch = "idle")
        BY <2>1, <2>2, <2>3, <4>1, <4>2 DEF RowRecords, Ledger, TilePopped
      <4>4. ~ObjReady(k) /\ k.lx < LastLx BY <1>7, <2>4, <2>5, <4>3, LedgerTells DEF Ledger
      <4>5. a \in RowRecords BY <3>3, <4>4, TickFetcherKeeps
      <4>6. /\ Ledger(p) = Ledger(k) /\ ~p.sprite /\ ~p.just_activated /\ p.activating /\ p.partial = 0
            /\ ~Disabling => p.fetch = "idle" /\ ~p.push /\ ~p.fill
            /\ Disabling => p.push \/ p.fill
            /\ p.fill => ~p.push
        BY <3>3, <4>3, <4>4, <4>5, TriggerDot
      <4>7. p \in RowRecords
        <5>1. FetchedRow(k) = p BY DEF FetchedRow
        <5>2. QED BY <3>3, <4>4, <5>1, FetchedKeeps
      <4> HIDE DEF p
      <4>8. Ledger(p) = Ledger(s) BY <2>1, <4>3, <4>6
      <4>9. /\ Floor(u) <= d + 1 /\ d + 1 <= Accounted(u) /\ Cardinality(u.objs) <= u.total
            /\ u.selector = "draw" /\ u.discard = 0
        BY <2>7, <4>7, <4>8
      <4>10. Queue(u) = Queue(p) /\ u.push = p.push /\ u.fetch = p.fetch /\ u.sprite = p.sprite
        BY <4>7, LxTells
      <4>11. Floor(u) \in Int BY <1>6, <2>6, <4>7, <4>8, LxTells, LedgerTells
      <4> HIDE DEF u
      <4>12. ~u.sprite /\ ~u.just_activated /\ u.activating BY <4>6, <4>10 DEF Queue
      <4>13. win <=> ~Disabling BY <4>1 DEF WinFollows
      <4>14. u.partial = p.partial /\ u.fill = p.fill BY <4>10 DEF Queue
      <4>15. InTrigger(u, d + 1, win) BY <4>6, <4>9, <4>10, <4>13, <4>14 DEF InTrigger
      <4>16. Floor(u) <= d + 1 + ObjLeft(u) BY <4>9, <4>11, <4>12 DEF ObjLeft
      <4>17. OnTime(u, d + 1, win) BY <4>9, <4>12, <4>15, <4>16 DEF OnTime
      <4>18. QED BY <3>1, <4>9, <4>17 DEF RowOnTime, DummyOnTime, Wx0OnTime, HBlankOnTime
    <3>6. QED BY <3>4, <3>5
  <2>10. QED BY <2>8, <2>9
<1>10. QED BY <1>8, <1>9

LEMMA DiscardOnTime ==
  ASSUME NEW r, RowKept(r), r.selector = "discard", row_lcdc \in [win : BOOLEAN, obj : BOOLEAN],
         NEW d \in Int, RowOnTime(r, d, row_lcdc.win), NEW win \in BOOLEAN
  PROVE  RowOnTime(Discard(r), d + 1, win)
<1> DEFINE s == HandleFill(r)
           to == IF s.discard = 1 THEN "draw" ELSE s.selector
           popped == [s EXCEPT !.bg = @ - 1, !.discard = @ - 1, !.selector = to]
           k == IF BgReady(s) THEN popped ELSE s
           a == TickFetcher(k)
           p == HandlePush(a)
<1>1. r \in RowRecords /\ FetcherKept(r) /\ TileWaits(r) /\ r.lx < LastLx /\ ~r.activating /\ r.discard > 0
  BY DEF RowKept, PlaceKept
<1>2. OnTime(r, d, row_lcdc.win) /\ QueueOutlasts(r) BY DEF RowOnTime
<1>3. Discard(r) = p
  <2>1. popped = [s EXCEPT !.bg = @ - 1, !.discard = @ - 1,
                          !.selector = IF s.discard = 1 THEN "draw" ELSE @]
    OBVIOUS
  <2>2. k = IF ~BgReady(s) THEN s
            ELSE [s EXCEPT !.bg = @ - 1, !.discard = @ - 1,
                           !.selector = IF s.discard = 1 THEN "draw" ELSE @]
    BY <2>1
  <2> HIDE DEF k
  <2>3. QED BY <2>2 DEF Discard
<1>4. /\ Ready(s, d) /\ Ledger(s) = Ledger(r) /\ s.just_activated = r.just_activated
      /\ s.bg = Ahead(r) /\ s.partial = 0
  BY <1>1, <1>2, FillReady
<1>5. s \in RowRecords /\ Filled(s) /\ SamePlace(r, s) /\ s.activating = r.activating
  BY <1>1, HandleFillKeeps
<1> HIDE DEF s
<1>6. ~s.activating /\ s.lx < LastLx /\ s.selector = "discard" /\ s.discard = r.discard
  BY <1>1, <1>5 DEF SamePlace
<1>7. s.bg \in Nat /\ s.discard \in 0 .. Tile - 1 /\ s.discard > 0 /\ r.partial \in Nat /\ r.bg \in Nat
  BY <1>1, <1>5, <1>6, LeftTypes DEF RowRecords
<1>8. (s.just_activated \/ s.bg > s.discard) /\ s.partial = 0
  BY <1>2, <1>4, <1>6 DEF QueueOutlasts
<1>9. CASE ~BgReady(s)
  <2>1. k = s BY <1>9
  <2> HIDE DEF k
  <2>2. a \in RowRecords BY <1>5, <1>6, <2>1, TickFetcherKeeps
  <2>3. OnTime(p, d + 1, win) /\ (p.just_activated \/ p.fill \/ p.bg = s.bg) /\ p.partial = s.partial
    BY <1>4, <1>5, <1>6, <1>9, <2>1, <2>2, FetchDot
  <2>4. Filled(a) /\ SamePlace(s, a) /\ a.activating = s.activating
    BY <1>5, <1>6, <2>1, TickFetcherKeeps
  <2> HIDE DEF a
  <2>5. SamePlace(a, p) BY <1>6, <2>2, <2>4, HandlePushKeeps DEF SamePlace
  <2>6. p.selector = "discard" /\ p.discard = s.discard BY <1>6, <2>4, <2>5 DEF SamePlace
  <2>7. s.just_activated => p.just_activated \/ p.fill
    <3>1. CASE s.just_activated
      <4>1. s.sprite => ~s.just_activated BY <1>4 DEF Ready, InObject
      <4>2. ~s.sprite /\ InWindow(s, d) BY <1>4, <3>1, <4>1 DEF Ready
      <4>3. Floor(s) <= d + 1 /\ Cardinality(s.objs) <= s.total
        <5>1. Floor(s) \in Int BY <1>5, AccountTypes
        <5>2. QED BY <1>4, <3>1, <4>2, <5>1 DEF Ready, ObjLeft
      <4>4. a = TickFetcher(s) BY <2>1 DEF a
      <4>5. QED BY <1>5, <2>2, <3>1, <4>2, <4>3, <4>4, WindowDot
    <3>2. QED BY <3>1
  <2>8. QueueOutlasts(p)
    BY <1>7, <1>8, <2>3, <2>6, <2>7, TransferAssumption DEF QueueOutlasts, Ahead
  <2> HIDE DEF p
  <2>9. QED BY <1>3, <2>3, <2>6, <2>8 DEF RowOnTime, DummyOnTime, Wx0OnTime, HBlankOnTime, OnTime
<1>10. CASE BgReady(s)
  <2>1. k = popped BY <1>10
  <2> HIDE DEF k
  <2>2. to \in {"draw", "discard"} /\ (to = "discard" => s.discard - 1 > 0) /\ (to = "draw" => s.discard - 1 = 0)
    BY <1>6, <1>7
  <2> HIDE DEF to
  <2>3. /\ k.bg = s.bg - 1 /\ k.fill = s.fill /\ k.partial = s.partial /\ k.push = s.push /\ k.fetch = s.fetch
        /\ k.sprite = s.sprite /\ k.just_activated = s.just_activated /\ k.activating = s.activating
        /\ k.active = s.active /\ k.cached = s.cached
        /\ k.selector = to /\ k.discard = s.discard - 1 /\ k.lx = s.lx /\ k.scroll = s.scroll /\ k.total = s.total
        /\ k.served = s.served /\ k.triggers = s.triggers /\ k.wx0 = s.wx0 /\ k.cancelled = s.cancelled
        /\ k.objs = s.objs
    BY <1>5, <2>1 DEF RowRecords
  <2>4. /\ TilePopped(k) /\ InBudget(s, d) /\ Floor(s) <= d /\ ~ObjReady(s) /\ s.bg > 0
    BY <1>4, <1>5, <1>6, <1>10, <2>3, PopReady
  <2>5. k \in RowRecords
    <3>1. s.bg - 1 \in 0 .. Tile /\ s.discard - 1 \in 0 .. Tile - 1
      BY <1>5, <1>7, <2>4, TransferAssumption DEF RowRecords
    <3>2. to \in TransferSelectors BY <2>2 DEF TransferSelectors
    <3>3. QED BY <1>5, <2>1, <3>1, <3>2 DEF RowRecords
  <2>6. Filled(k) BY <1>5, <2>3, <2>4 DEF Filled, FetcherKept, TilePopped
  <2>7. ObjsHere(k) = ObjsHere(s) /\ ~ObjReady(k) BY <2>3, <2>4 DEF ObjsHere, ObjReady
  <2>8. a \in RowRecords BY <1>6, <2>3, <2>5, <2>6, TickFetcherKeeps
  <2>9. /\ Ledger(p) = Ledger(k) /\ ~p.sprite /\ ~p.just_activated /\ ~p.activating
        /\ TileComes(p) /\ FetchLeft(p) \in 0 .. 6 /\ p.partial = k.partial
        /\ k.bg > 0 => p.bg = k.bg /\ FetchLeft(p) <= FetchLeft(k)
    BY <2>4, <2>5, <2>6, <2>7, <2>8, PoppedDot
  <2> HIDE DEF p
  <2>10. /\ s.scroll \in Nat /\ s.lx \in Nat /\ s.served \in Nat /\ s.triggers \in Nat /\ s.total \in Nat
         /\ Floor(s) \in Int /\ Accounted(s) \in Int /\ Cardinality(s.objs) \in Nat /\ Cardinality(s.objs) <= s.total
    BY <1>4, <1>5, AccountTypes, TransferAssumption DEF RowRecords, Ready
  <2>11. Floor(k) = Floor(s) + 1 BY <1>7, <2>3, <2>10 DEF Floor
  <2>12. Accounted(k) = Accounted(s) + 1 BY <2>3, <2>10, <2>11 DEF Accounted
  <2>13. /\ Floor(p) = Floor(k) /\ Accounted(p) = Accounted(k) /\ ObjsHere(p) = ObjsHere(k)
         /\ p.objs = s.objs /\ p.total = s.total /\ p.selector = to /\ p.discard = s.discard - 1
    BY <2>3, <2>9, LedgerTells DEF Ledger
  <2>14. InBudget(p, d + 1)
    <3>1. CASE ObjsHere(s) = {} BY <2>4, <2>7, <2>10, <2>12, <2>13, <3>1 DEF InBudget
    <3>2. CASE ObjsHere(s) # {}
      <4>1. d <= Accounted(s) + 5 BY <2>4, <3>2 DEF InBudget
      <4>2. d + FetchLeft(s) <= Accounted(s) + 6 BY <2>4, <3>2 DEF InBudget
      <4>3. FetchLeft(k) = FetchLeft(s) BY <2>3 DEF FetchLeft
      <4>4. k.bg > 0 BY <1>7, <1>8, <2>3, <2>4 DEF TilePopped
      <4>5. FetchLeft(p) <= FetchLeft(s) BY <2>9, <4>3, <4>4
      <4>6. FetchLeft(s) \in 0 .. 6 BY <1>5, LeftTypes
      <4>7. d + 1 + FetchLeft(p) <= Accounted(p) + 6
        BY <2>9, <2>10, <2>12, <2>13, <4>1, <4>2, <4>5, <4>6
      <4>8. QED BY <2>7, <2>10, <2>12, <2>13, <3>2, <4>1, <4>7 DEF InBudget
    <3>3. QED BY <3>1, <3>2
  <2>15. ObjLeft(p) = 0 BY <2>9 DEF ObjLeft
  <2>16. OnTime(p, d + 1, win)
    <3>1. Floor(p) <= d + 1 + ObjLeft(p) /\ Cardinality(p.objs) <= p.total
      BY <2>4, <2>10, <2>11, <2>13, <2>15
    <3>2. QED BY <2>9, <2>14, <3>1 DEF OnTime
  <2>17. to = "discard" => QueueOutlasts(p)
    BY <1>7, <1>8, <2>3, <2>4, <2>9, <2>13, TransferAssumption DEF QueueOutlasts, TilePopped, Ahead
  <2>18. to = "draw" => p.discard = 0 BY <2>2, <2>13
  <2>19. QED BY <1>3, <2>2, <2>13, <2>16, <2>17, <2>18 DEF RowOnTime, DummyOnTime, Wx0OnTime, HBlankOnTime, OnTime
<1>11. QED BY <1>9, <1>10

LEMMA DiscardWx0OnTime ==
  ASSUME NEW r, RowKept(r), r.selector = "discard_wx0", row_lcdc \in [win : BOOLEAN, obj : BOOLEAN],
         NEW d \in Int, RowOnTime(r, d, row_lcdc.win), NEW win
  PROVE  RowOnTime(DiscardWx0(r), d + 1, win)
<1> DEFINE q == DiscardWx0(r)
<1>1. /\ r \in RowRecords /\ r.discard > 0 /\ r.discard \in Nat /\ r.discard <= Tile - 1
      /\ Cardinality(r.objs) \in Nat /\ Cardinality(r.objs) <= r.total /\ r.total \in Nat /\ Tile \in Nat /\ Tile >= 6
  BY AccountTypes, TransferAssumption DEF RowKept, PlaceKept, RowRecords, RowOnTime
<1>2. /\ d = 3 /\ r.lx = 0 /\ r.discard = r.scroll /\ r.bg = Tile /\ ~r.fill /\ r.partial = 0
      /\ ~r.push /\ ~r.sprite /\ r.activating /\ ~r.just_activated
      /\ r.fetch = IF row_lcdc.win THEN "idle" ELSE "tile_0"
      /\ r.served = 0 /\ r.triggers = 0 /\ ~r.wx0 /\ ~r.cancelled
  BY DEF RowOnTime, Wx0OnTime
<1> DEFINE left == 5 * (r.total - Cardinality(r.objs))
<1>3. left \in Nat BY <1>1
<1>4. CASE row_lcdc.win
  <2>1. TriggerColumn(r) = 0 BY DEF TriggerColumn
  <2>2. q = [r EXCEPT !.bg = 0, !.active = TRUE, !.just_activated = TRUE, !.triggers = @ + 1,
                      !.wx0 = TRUE, !.activating = FALSE, !.fetch = "tile_0", !.selector = "discard"]
    BY <1>1, <1>2, <1>4, <2>1 DEF DiscardWx0, HandleWindow, ActivateWindow, RowRecords
  <2>3. /\ q.selector = "discard" /\ q.bg = 0 /\ q.just_activated /\ q.triggers = 1 /\ q.wx0 /\ ~q.activating
        /\ q.fetch = "tile_0" /\ ~q.fill /\ q.partial = 0 /\ ~q.push /\ ~q.sprite /\ q.lx = 0
        /\ q.discard = r.discard /\ q.scroll = r.discard /\ q.served = 0 /\ ~q.cancelled
        /\ q.objs = r.objs /\ q.total = r.total
    BY <1>1, <1>2, <2>2 DEF RowRecords
  <2> HIDE DEF q
  <2>4. Floor(q) = 4 BY <1>1, <2>3 DEF Floor
  <2>5. Accounted(q) = 10 + left BY <1>1, <1>3, <2>3, <2>4 DEF Accounted
  <2> HIDE DEF left
  <2>6. DotsLeft[q.fetch] = 6 /\ ObjLeft(q) = 0 /\ q.fetch # "idle" BY <2>3, LeftFacts DEF ObjLeft
  <2>7. InWindow(q, d + 1) BY <1>2, <1>3, <2>3, <2>5, <2>6 DEF InWindow
  <2>8. OnTime(q, d + 1, win) BY <1>1, <1>2, <2>3, <2>4, <2>6, <2>7 DEF OnTime
  <2>9. QueueOutlasts(q) BY <2>3 DEF QueueOutlasts
  <2>10. QED BY <1>1, <2>3, <2>8, <2>9 DEF q, RowOnTime, DummyOnTime, Wx0OnTime, HBlankOnTime
<1>5. CASE ~row_lcdc.win
  <2>1. q = [r EXCEPT !.partial = Tile, !.cancelled = TRUE, !.activating = FALSE, !.fetch = "tile_0",
                      !.selector = "discard"]
    <3>1. (IF r.bg = 0 THEN Tile ELSE r.bg) = Tile BY <1>2
    <3>2. (r.cancelled \/ r.selector = "discard_wx0") = TRUE OBVIOUS
    <3>3. QED BY <1>1, <1>2, <1>5, <3>1, <3>2 DEF DiscardWx0, HandleWindow, RowRecords
  <2>2. /\ q.selector = "discard" /\ q.bg = Tile /\ ~q.just_activated /\ q.triggers = 0 /\ ~q.wx0 /\ ~q.activating
        /\ q.fetch = "tile_0" /\ ~q.fill /\ q.partial = Tile /\ ~q.push /\ ~q.sprite /\ q.lx = 0
        /\ q.discard = r.discard /\ q.scroll = r.discard /\ q.served = 0 /\ q.cancelled
        /\ q.objs = r.objs /\ q.total = r.total
    BY <1>1, <1>2, <2>1 DEF RowRecords
  <2> HIDE DEF q
  <2>3. Floor(q) = 3 BY <1>1, <2>2 DEF Floor
  <2>4. Accounted(q) = 4 + left BY <1>1, <1>3, <2>2, <2>3 DEF Accounted
  <2> HIDE DEF left
  <2>5. FetchLeft(q) = 6 /\ ObjLeft(q) = 0 /\ Ahead(q) = Tile
    BY <1>1, <2>2, LeftFacts DEF FetchLeft, ObjLeft, Ahead
  <2>6. TileComes(q) BY <1>1, <2>2, <2>5 DEF TileComes
  <2>7. InBudget(q, d + 1) BY <1>2, <1>3, <2>4, <2>5 DEF InBudget
  <2>8. OnTime(q, d + 1, win) BY <1>1, <1>2, <2>2, <2>3, <2>5, <2>6, <2>7 DEF OnTime
  <2>9. QueueOutlasts(q) BY <1>1, <2>2, <2>5 DEF QueueOutlasts
  <2>10. QED BY <1>1, <2>2, <2>8, <2>9 DEF q, RowOnTime, DummyOnTime, Wx0OnTime, HBlankOnTime
<1>6. QED BY <1>4, <1>5

LEMMA DummyOnTimeKept ==
  ASSUME NEW r, RowKept(r), r.selector = "dummy", NEW d \in Int, RowOnTime(r, d, row_lcdc.win),
         NEW win \in BOOLEAN, WinFollows(win), NEW q \in Dummy(r)
  PROVE  RowOnTime(q, d + 1, win) \/ (q = r /\ d + 1 < 3)
<1>1. /\ r \in RowRecords /\ Cardinality(r.objs) \in Nat /\ Cardinality(r.objs) <= r.total /\ r.total \in Nat
      /\ Tile \in Nat /\ Tile >= 6
  BY AccountTypes, TransferAssumption DEF RowKept, RowRecords, RowOnTime
<1>2. /\ d < 3 /\ d = r.dots
      /\ r.lx = 0 /\ r.discard = 0 /\ r.scroll = 0 /\ r.bg = 0 /\ ~r.fill /\ r.partial = 0
      /\ r.fetch = "tile_0" /\ ~r.push /\ ~r.sprite /\ ~r.activating /\ ~r.just_activated
      /\ r.served = 0 /\ r.triggers = 0 /\ ~r.wx0 /\ ~r.cancelled
  BY DEF RowOnTime, DummyOnTime
<1>3. CASE r.dots + 1 < 3 BY <1>2, <1>3 DEF Dummy
<1>4. CASE ~(r.dots + 1 < 3)
  <2>1. d + 1 = 3 BY SMTT(30), <1>2, <1>4
  <2>2. PICK scroll \in Scrolls :
          q = LET s == [r EXCEPT !.bg = Tile, !.discard = scroll, !.scroll = scroll]
                  c == CheckWindow(s)
              IN IF scroll = 0 THEN [s EXCEPT !.selector = "draw"]
                 ELSE [c EXCEPT !.selector = IF c.activating THEN "discard_wx0" ELSE "discard"]
    BY <1>4 DEF Dummy
  <2> DEFINE s == [r EXCEPT !.bg = Tile, !.discard = scroll, !.scroll = scroll]
             c == CheckWindow(s)
             left == 5 * (r.total - Cardinality(r.objs))
  <2>3. q = IF scroll = 0 THEN [s EXCEPT !.selector = "draw"]
            ELSE [c EXCEPT !.selector = IF c.activating THEN "discard_wx0" ELSE "discard"]
    BY <2>2
  <2>4. scroll \in 0 .. Tile - 1 /\ left \in Nat BY <1>1, TransferAssumption
  <2>5. /\ s.bg = Tile /\ s.discard = scroll /\ s.scroll = scroll /\ s.lx = 0 /\ ~s.fill /\ s.partial = 0
        /\ s.fetch = "tile_0" /\ ~s.push /\ ~s.sprite /\ ~s.activating /\ ~s.just_activated
        /\ s.served = 0 /\ s.triggers = 0 /\ ~s.wx0 /\ ~s.cancelled /\ s.objs = r.objs /\ s.total = r.total
        /\ s \in RowRecords
    <3>1. s \in RowRecords BY <1>1, <2>4, TileFills DEF RowRecords
    <3>2. QED BY <1>1, <1>2, <3>1 DEF RowRecords
  <2> HIDE DEF s
  <2>6. CASE scroll # 0 /\ c # s
    <3>1. /\ row_lcdc.win
          /\ c = [s EXCEPT !.activating = TRUE, !.push = FALSE, !.fetch = IF Disabling THEN @ ELSE "idle"]
      BY <2>6 DEF CheckWindow
    <3>2. c.activating BY <2>5, <3>1 DEF RowRecords
    <3>3. q = [c EXCEPT !.selector = "discard_wx0"] BY <2>3, <2>6, <3>2
    <3>4. q = [s EXCEPT !.activating = TRUE, !.push = FALSE, !.fetch = IF Disabling THEN @ ELSE "idle",
                        !.selector = "discard_wx0"]
      BY <2>5, <3>1, <3>3 DEF RowRecords
    <3>5. /\ q.selector = "discard_wx0" /\ q.activating /\ ~q.push
          /\ q.fetch = (IF Disabling THEN "tile_0" ELSE "idle")
          /\ q.bg = Tile /\ q.discard = scroll /\ q.scroll = scroll /\ q.lx = 0 /\ ~q.fill /\ q.partial = 0
          /\ ~q.sprite /\ ~q.just_activated /\ q.objs = r.objs /\ q.total = r.total
          /\ q.served = 0 /\ q.triggers = 0 /\ ~q.wx0 /\ ~q.cancelled
      BY <2>5, <3>4 DEF RowRecords
    <3>6. win <=> ~Disabling BY <3>1 DEF WinFollows
    <3>7. Wx0OnTime(q, d + 1, win) BY <2>1, <3>5, <3>6 DEF Wx0OnTime
    <3>8. QED BY <1>1, <3>5, <3>7 DEF RowOnTime, DummyOnTime, HBlankOnTime
  <2>7. CASE ~(scroll # 0 /\ c # s)
    <3> DEFINE to == IF scroll = 0 THEN "draw" ELSE "discard"
    <3>1. q = [s EXCEPT !.selector = to] BY <2>3, <2>5, <2>7
    <3>2. /\ q.selector = to /\ ~q.activating /\ ~q.push /\ q.fetch = "tile_0"
          /\ q.bg = Tile /\ q.discard = scroll /\ q.scroll = scroll /\ q.lx = 0 /\ ~q.fill /\ q.partial = 0
          /\ ~q.sprite /\ ~q.just_activated /\ q.objs = r.objs /\ q.total = r.total
          /\ q.served = 0 /\ q.triggers = 0 /\ ~q.wx0 /\ ~q.cancelled
      BY <2>5, <3>1 DEF RowRecords
    <3>3. Floor(q) = 3 BY <2>4, <3>2 DEF Floor
    <3>4. Accounted(q) = 3 + left BY <1>1, <2>4, <3>2, <3>3 DEF Accounted
    <3>5. FetchLeft(q) = 6 /\ ObjLeft(q) = 0 /\ Ahead(q) = Tile
      BY <1>1, <3>2, LeftFacts DEF FetchLeft, ObjLeft, Ahead
    <3>6. TileComes(q) BY <1>1, <3>2, <3>5 DEF TileComes
    <3>7. InBudget(q, d + 1) BY <2>1, <2>4, <3>4, <3>5 DEF InBudget
    <3>8. OnTime(q, d + 1, win) BY <1>1, <2>1, <3>2, <3>3, <3>5, <3>6, <3>7 DEF OnTime
    <3>9. QueueOutlasts(q) BY <1>1, <2>4, <3>2, <3>5 DEF QueueOutlasts
    <3>10. to = "draw" => q.discard = 0 BY <3>2
    <3>11. to \in {"draw", "discard"} OBVIOUS
    <3> HIDE DEF to
    <3>12. QED BY <1>1, <3>2, <3>8, <3>9, <3>10, <3>11 DEF RowOnTime, DummyOnTime, Wx0OnTime, HBlankOnTime
  <2>8. QED BY <2>6, <2>7
<1>5. QED BY <1>3, <1>4

LEMMA WindowBitFollows ==
  ASSUME row_lcdc \in [win : BOOLEAN, obj : BOOLEAN], pending \in RowWrites, TickPending
  PROVE  WinFollows(row_lcdc'.win)
<1>1. CASE pending.countdown = 1 /\ pending.reg = "lcdc"
  <2>1. row_lcdc' = pending.value BY <1>1 DEF TickPending
  <2>2. Disabling <=> ~pending.value.win BY <1>1 DEF Disabling
  <2>3. QED BY <2>1, <2>2 DEF WinFollows
<1>2. CASE ~(pending.countdown = 1 /\ pending.reg = "lcdc")
  <2>1. row_lcdc' = row_lcdc BY <1>2 DEF TickPending
  <2>2. ~Disabling BY <1>2 DEF Disabling
  <2>3. QED BY <2>1, <2>2 DEF WinFollows
<1>3. QED BY <1>1, <1>2

LEMMA RowDotOnTime ==
  ASSUME NEW r, RowKept(r), r.selector # "hblank", row_lcdc \in [win : BOOLEAN, obj : BOOLEAN],
         RowOnTime(r, r.dots, row_lcdc.win), NEW win \in BOOLEAN, WinFollows(win), NEW q \in RowDot(r)
  PROVE  RowOnTime(q, r.dots + 1, win) \/ (q = r /\ r.selector = "dummy" /\ r.dots + 1 < 3)
<1>1. r.selector \in TransferSelectors /\ r.dots \in Int BY DEF RowKept, RowRecords
<1>2. CASE r.selector = "dummy"
  <2>1. q \in Dummy(r) BY <1>2 DEF RowDot
  <2>2. QED BY <1>1, <1>2, <2>1, DummyOnTimeKept
<1>3. CASE r.selector = "discard_wx0"
  <2>1. q = DiscardWx0(r) BY <1>3 DEF RowDot
  <2>2. QED BY <1>1, <1>3, <2>1, DiscardWx0OnTime
<1>4. CASE r.selector = "discard"
  <2>1. q = Discard(r) BY <1>4 DEF RowDot
  <2>2. QED BY <1>1, <1>4, <2>1, DiscardOnTime
<1>5. CASE r.selector = "draw"
  <2>1. q = Draw(r) BY <1>5 DEF RowDot
  <2>2. QED BY <1>1, <1>5, <2>1, DrawOnTime
<1>6. QED BY <1>1, <1>2, <1>3, <1>4, <1>5 DEF TransferSelectors

(* Counting the dot leaves the rest of the row as it is. *)
LEMMA CountedOnTime ==
  ASSUME NEW q, RowKept(q), NEW win,
         RowOnTime(q, q.dots + 1, win) \/ (q.selector = "dummy" /\ RowOnTime(q, q.dots, win) /\ q.dots + 1 < 3),
         NEW v, v = DotCounted(q)
  PROVE  RowOnTime(v, v.dots, win)
<1>1. v = [q EXCEPT !.dots = q.dots + 1] /\ q \in RowRecords BY DEF DotCounted, RowKept
<1>2. /\ v.dots = q.dots + 1
      /\ v.selector = q.selector /\ v.lx = q.lx /\ v.discard = q.discard /\ v.scroll = q.scroll
      /\ v.total = q.total /\ v.served = q.served /\ v.triggers = q.triggers /\ v.wx0 = q.wx0
      /\ v.cancelled = q.cancelled /\ v.objs = q.objs
      /\ v.bg = q.bg /\ v.fill = q.fill /\ v.partial = q.partial /\ v.fetch = q.fetch /\ v.push = q.push
      /\ v.sprite = q.sprite /\ v.activating = q.activating /\ v.just_activated = q.just_activated
  BY <1>1 DEF RowRecords
<1>3. Floor(v) = Floor(q) BY <1>2 DEF Floor
<1>4. Accounted(v) = Accounted(q) BY <1>2, <1>3 DEF Accounted
<1>5. /\ FetchLeft(v) = FetchLeft(q) /\ ObjLeft(v) = ObjLeft(q) /\ Ahead(v) = Ahead(q)
      /\ ObjsHere(v) = ObjsHere(q)
  BY <1>2 DEF FetchLeft, ObjLeft, Ahead, ObjsHere
<1>6. CASE q.selector = "dummy"
  <2>1. \/ RowOnTime(q, q.dots + 1, win)
        \/ RowOnTime(q, q.dots, win) /\ q.dots + 1 < 3
    OBVIOUS
  <2>2. q.dots \in Nat BY <1>1 DEF RowRecords
  <2>3. RowOnTime(q, q.dots, win) /\ q.dots + 1 < 3
    BY <1>6, <2>1, <2>2 DEF RowOnTime, DummyOnTime
  <2>4. DummyOnTime(v, v.dots) BY <1>2, <1>6, <2>3 DEF RowOnTime, DummyOnTime
  <2>5. QED BY <1>2, <1>6, <2>3, <2>4 DEF RowOnTime, Wx0OnTime, HBlankOnTime
<1>7. CASE q.selector # "dummy"
  <2>1. RowOnTime(q, v.dots, win) BY <1>2, <1>7
  <2> DEFINE d == v.dots
  <2>2. OnTime(q, d, win) => OnTime(v, d, win)
    <3>1. TileComes(q) => TileComes(v) BY <1>2, <1>5 DEF TileComes
    <3>2. InBudget(q, d) => InBudget(v, d) BY <1>4, <1>5 DEF InBudget
    <3>3. InTrigger(q, d, win) => InTrigger(v, d, win) BY <1>2, <1>4 DEF InTrigger
    <3>4. InWindow(q, d) => InWindow(v, d) BY <1>2, <1>4 DEF InWindow
    <3>5. InObject(q, d) => InObject(v, d) BY <1>2, <1>4 DEF InObject
    <3> HIDE DEF d
    <3>6. QED BY <1>2, <1>3, <1>5, <3>1, <3>2, <3>3, <3>4, <3>5 DEF OnTime
  <2>3. QueueOutlasts(q) => QueueOutlasts(v) BY <1>2, <1>5 DEF QueueOutlasts
  <2>4. Wx0OnTime(q, d, win) => Wx0OnTime(v, d, win) BY <1>2 DEF Wx0OnTime
  <2>5. HBlankOnTime(q, d) => HBlankOnTime(v, d) BY <1>2, <1>3, <1>4 DEF HBlankOnTime
  <2> HIDE DEF d
  <2>6. RowOnTime(q, d, win) BY <2>1 DEF d
  <2>7. DummyOnTime(v, d) BY <1>2, <1>7 DEF DummyOnTime
  <2>8. RowOnTime(v, d, win) BY <1>2, <2>2, <2>3, <2>4, <2>5, <2>6, <2>7 DEF RowOnTime
  <2>9. QED BY <2>8 DEF d
<1>8. QED BY <1>6, <1>7

RowTimedInv == RowInv /\ RowOnTime(row, row.dots, row_lcdc.win)

LEMMA EmptyRowOnTime ==
  ASSUME NEW win
  PROVE  RowOnTime(EmptyRow, EmptyRow.dots, win)
<1>1. Cardinality(EmptyRow.objs) = 0 BY FS_EmptySet DEF EmptyRow
<1>2. Accounted(EmptyRow) = 3 BY <1>1 DEF EmptyRow, Accounted, Floor
<1>3. 0 # LastLx BY TransferAssumption
<1>4. QED BY <1>1, <1>2, <1>3 DEF EmptyRow, RowOnTime, DummyOnTime, Wx0OnTime, HBlankOnTime

LEMMA RowInitTimed == RowInit => RowTimedInv
BY RowInitKept, EmptyRowOnTime DEF RowInit, RowTimedInv

(* What the window bit becomes after a row makes no difference to it. *)
LEMMA HBlankWindowBit ==
  ASSUME NEW r, NEW d, NEW win, NEW other, RowOnTime(r, d, win), r.selector = "hblank"
  PROVE  RowOnTime(r, d, other)
BY DEF RowOnTime, DummyOnTime, Wx0OnTime, HBlankOnTime

LEMMA RowStepTimed == RowTimedInv /\ [RowNext]_rowVars => RowTimedInv'
<1> SUFFICES ASSUME RowTimedInv, [RowNext]_rowVars PROVE RowTimedInv' OBVIOUS
<1>0. /\ RowInv /\ RowInv' /\ RowOnTime(row, row.dots, row_lcdc.win)
      /\ row_lcdc \in [win : BOOLEAN, obj : BOOLEAN] /\ row_lcdc' \in [win : BOOLEAN, obj : BOOLEAN]
      /\ pending \in RowWrites /\ RowKept(row)
  BY SMTT(30), RowStepKept DEF RowTimedInv, RowInv
<1> SUFFICES RowOnTime(row', row'.dots, row_lcdc'.win)
  BY <1>0 DEF RowTimedInv, RowOnTime, DummyOnTime, Wx0OnTime, HBlankOnTime, OnTime, InObject, InWindow,
              InTrigger, TileComes, InBudget, QueueOutlasts, Floor, Accounted, FetchLeft, ObjLeft, Ahead, ObjsHere
<1>1. CASE RowTick
  <2>1. PICK q \in RowDot(row) : row' = DotCounted(q) BY <1>1 DEF RowTick
  <2>2. row.selector # "hblank" /\ TickPending BY <1>1 DEF RowTick
  <2>3. RowKept(q) /\ q.dots = row.dots BY <1>0, <2>2, RowDotKept
  <2>4. WinFollows(row_lcdc'.win) /\ row_lcdc'.win \in BOOLEAN BY <1>0, <2>2, WindowBitFollows
  <2>5. RowOnTime(q, row.dots + 1, row_lcdc'.win) \/ (q = row /\ row.selector = "dummy" /\ row.dots + 1 < 3)
    BY <1>0, <2>2, <2>4, RowDotOnTime
  <2>6. CASE RowOnTime(q, row.dots + 1, row_lcdc'.win)
    BY <2>1, <2>3, <2>6, CountedOnTime
  <2>7. CASE q = row /\ row.selector = "dummy" /\ row.dots + 1 < 3
    <3>1. RowOnTime(q, q.dots, row_lcdc'.win)
      BY <1>0, <2>7 DEF RowOnTime, Wx0OnTime
    <3>2. QED BY <2>1, <2>3, <2>7, <3>1, CountedOnTime
  <2>8. QED BY <2>5, <2>6, <2>7
<1>2. CASE EnterRow
  <2>1. PICK layout \in Layouts :
          row' = [EmptyRow EXCEPT !.selector = "dummy", !.objs = layout, !.total = Cardinality(layout)]
    BY <1>2 DEF EnterRow
  <2>2. /\ row'.selector = "dummy" /\ row'.objs = layout /\ row'.total = Cardinality(layout)
        /\ row'.dots = 0 /\ row'.lx = 0 /\ row'.discard = 0 /\ row'.scroll = 0 /\ row'.bg = 0 /\ ~row'.fill
        /\ row'.partial = 0 /\ row'.fetch = "tile_0" /\ ~row'.push /\ ~row'.sprite /\ ~row'.activating
        /\ ~row'.just_activated
        /\ row'.served = 0 /\ row'.triggers = 0 /\ ~row'.wx0 /\ ~row'.cancelled
    BY <2>1 DEF EmptyRow
  <2>3. Cardinality(layout) \in Nat BY TransferAssumption, FS_CardinalityType
  <2>4. QED BY <2>2, <2>3 DEF RowOnTime, DummyOnTime, Wx0OnTime, HBlankOnTime
<1>3. CASE RowOverDot
  <2>1. row' = row /\ row.selector = "hblank" BY <1>3 DEF RowOverDot
  <2>2. QED BY <1>0, <2>1, HBlankWindowBit
<1>4. CASE \E bits \in [win : BOOLEAN, obj : BOOLEAN], enable \in BOOLEAN : WriteRowLcdc(bits, enable)
  <2>1. row_lcdc' = row_lcdc /\ (row' = row \/ row' = EmptyRow) BY <1>4 DEF WriteRowLcdc, WriteReg
  <2>2. QED BY <1>0, <2>1, EmptyRowOnTime
<1>5. CASE \E v \in Wxs : WriteWx(v)
  <2>1. row_lcdc' = row_lcdc /\ row' = row BY <1>5 DEF WriteWx, WriteReg
  <2>2. QED BY <1>0, <2>1
<1>6. CASE UNCHANGED rowVars
  <2>1. row_lcdc' = row_lcdc /\ row' = row BY <1>6 DEF rowVars
  <2>2. QED BY <1>0, <2>1
<1>7. QED BY <1>1, <1>2, <1>3, <1>4, <1>5, <1>6 DEF RowNext

(* Nothing that is under way takes a row past what is accounted for. *)
LEMMA TimedWithin ==
  ASSUME NEW r \in RowRecords, NEW d \in Int, NEW win, OnTime(r, d, win)
  PROVE  d <= Accounted(r) + (IF r.objs = {} THEN 0 ELSE 5)
<1>1. Accounted(r) \in Int /\ DotsLeft[r.fetch] \in 0 .. 6 /\ FetchLeft(r) \in 0 .. 6
  BY AccountTypes, LeftTypes
<1>2. CASE r.sprite BY <1>1, <1>2 DEF OnTime, InObject
<1>3. CASE ~r.sprite /\ r.just_activated BY <1>1, <1>3 DEF OnTime, InWindow
<1>4. CASE ~r.sprite /\ ~r.just_activated /\ r.activating BY <1>1, <1>4 DEF OnTime, InTrigger
<1>5. CASE ~r.sprite /\ ~r.just_activated /\ ~r.activating
  <2>1. InBudget(r, d) BY <1>5 DEF OnTime
  <2>2. r.objs = {} => ObjsHere(r) = {} BY DEF ObjsHere
  <2>3. QED BY <1>1, <2>1, <2>2 DEF InBudget
<1>6. QED BY <1>2, <1>3, <1>4, <1>5

LEMMA TimedShows == RowTimedInv => RowInBounds
<1> SUFFICES ASSUME RowTimedInv PROVE RowInBounds OBVIOUS
<1>1. row \in RowRecords /\ RowOnTime(row, row.dots, row_lcdc.win) BY DEF RowTimedInv, RowInv, RowKept
<1>2. /\ row.scroll \in Nat /\ row.discard \in Nat /\ row.lx \in 0 .. LastLx /\ row.served \in Nat
      /\ row.triggers \in Nat /\ row.total \in Nat /\ row.dots \in Nat
      /\ Cardinality(row.objs) \in Nat /\ Floor(row) \in Int /\ Accounted(row) \in Int /\ LastLx \in Nat
      /\ row.selector \in TransferSelectors /\ Cardinality(row.objs) <= row.total
  BY <1>1, AccountTypes, TransferAssumption DEF RowRecords, RowOnTime
<1> DEFINE late == IF row.wx0 /\ row.scroll > 0 THEN 1 ELSE 0
           cancels == IF row.cancelled THEN 1 ELSE 0
<1>3. late \in 0 .. 1 /\ cancels \in 0 .. 1 OBVIOUS
<1>4. /\ Low(row) = 3 + LastLx + row.scroll + late + 6 * row.served
      /\ High(row) = Low(row) + 5 * row.total + 6 * row.triggers + cancels
      /\ Floor(row) = 3 + (row.scroll - row.discard) + row.lx + late + 6 * row.served
      /\ Accounted(row) = Floor(row) + 6 * row.triggers + cancels + 5 * (row.total - Cardinality(row.objs))
  BY DEF Low, High, Floor, Accounted
<1> HIDE DEF late, cancels
<1>5. Low(row) \in Int /\ High(row) \in Int /\ Floor(row) <= Low(row) BY <1>2, <1>3, <1>4
<1>6. Accounted(row) + 5 * Cardinality(row.objs) <= High(row) BY <1>2, <1>3, <1>4
<1>7. row.objs # {} => Cardinality(row.objs) >= 1
  <2>1. IsFiniteSet(row.objs) BY <1>1 DEF RowRecords, ObjSets
  <2>2. Cardinality(row.objs) = 0 <=> row.objs = {} BY <2>1, FS_EmptySet
  <2>3. QED BY <1>2, <2>2
<1>8. row.dots <= High(row)
  <2>1. CASE row.selector = "dummy"
    <3>1. row.dots < 3 BY <1>1, <2>1 DEF RowOnTime, DummyOnTime
    <3>2. High(row) >= 3 BY <1>2, <1>3, <1>4
    <3>3. QED BY <1>2, <1>5, <3>1, <3>2
  <2>2. CASE row.selector = "discard_wx0"
    <3>1. row.dots = 3 BY <1>1, <2>2 DEF RowOnTime, Wx0OnTime
    <3>2. High(row) >= 3 BY <1>2, <1>3, <1>4
    <3>3. QED BY <3>1, <3>2
  <2>3. CASE row.selector \in {"discard", "draw"}
    <3>1. OnTime(row, row.dots, row_lcdc.win) BY <1>1, <2>3 DEF RowOnTime
    <3>2. row.dots <= Accounted(row) + (IF row.objs = {} THEN 0 ELSE 5) BY <1>1, <1>2, <3>1, TimedWithin
    <3>3. CASE row.objs = {} BY <1>2, <1>5, <1>6, <3>2, <3>3
    <3>4. CASE row.objs # {} BY <1>2, <1>5, <1>6, <1>7, <3>2, <3>4
    <3>5. QED BY <3>3, <3>4
  <2>4. CASE row.selector = "hblank"
    <3>1. row.dots <= Accounted(row) BY <1>1, <2>4 DEF RowOnTime, HBlankOnTime
    <3>2. QED BY <1>2, <1>5, <1>6, <3>1
  <2>5. QED BY <1>2, <2>1, <2>2, <2>3, <2>4 DEF TransferSelectors
<1>9. ASSUME row.selector = "hblank", row.lx = LastLx PROVE row.dots >= Low(row)
  <2>1. row.discard = 0 /\ Floor(row) <= row.dots BY <1>1, <1>9 DEF RowOnTime, HBlankOnTime
  <2>2. Floor(row) = Low(row) BY <1>2, <1>3, <1>4, <1>9, <2>1
  <2>3. QED BY <1>2, <1>5, <2>1, <2>2
<1>10. QED BY <1>8, <1>9 DEF RowInBounds

THEOREM RowAlwaysInBounds == RowSpec => []RowInBounds
BY RowInitTimed, RowStepTimed, TimedShows, PTL DEF RowSpec
=============================================================================
