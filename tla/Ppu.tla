--------------------------------- MODULE Ppu --------------------------------
(***************************************************************************)
(* The schedule of the PPU (docboy/ppu, CGB): which function every dot of  *)
(* a frame calls, what that does to the mode, to LY and to the video       *)
(* buses, and how STAT's interrupt line follows - while a program writes   *)
(* LCDC, STAT and LYC between any two dots.  The pixel fetchers are one    *)
(* function that ends somewhere in the bounds enter_hblank asserts, before *)
(* the line does (a program may break that: MCRowOverrun).                 *)
(***************************************************************************)
EXTENDS Integers

CONSTANTS
  Scan,        \* last even dot of the OAM scan: 76
  Short, Long, \* dots in which a pixel transfer may end: 251; 369, and 6 for each window (PixelTransfer)
  Sync,        \* the dot in which a line begins to end: 452
  Rows, Lines, \* lines drawn, lines of a frame: 144 and 154
  Lycs,        \* values written to LYC
  Enables,     \* sets of interrupts enabled in STAT
  Settings     \* the delayed bits of LCDC

Sources == {"lyc_eq_ly", "oam", "vblank", "hblank"}

ASSUME PpuAssumption ==
  /\ Scan \in Nat /\ Scan % 2 = 0
  /\ Short \in Nat /\ Long \in Short .. Sync - 4 /\ Scan + 4 < Short /\ Sync \in Nat /\ Sync > 6
  /\ Rows \in Nat \ {0, 1} /\ Lines \in Nat /\ Rows < Lines - 1
  /\ Lycs \subseteq Nat /\ Enables \subseteq SUBSET Sources /\ {} \in Enables

VARIABLES
  lcdc,             \* enable, and the bits the PPU sees
  pending_lcdc,     \* pending_write.lcdc: countdown and value
  double_speed,     \* SpeedSwitchController::is_double_speed_mode
  ppu,              \* dot, function to call, mode, lines, buses
  stat_mode,        \* the mode STAT shows
  stat,             \* the enabled interrupts and the LYC flag
  lyc, last_lyc, last_ly,
  last_stat_irq, pending_stat_irq,
  raised,           \* history: the interrupts requested by this dot
  since_lcdc,       \* history: dots since LCDC was written
  frame             \* history: the requests of this frame, if undisturbed

irqVars == <<stat, lyc, last_lyc, last_ly, last_stat_irq, pending_stat_irq>>
ppuVars == <<lcdc, pending_lcdc, double_speed, ppu, stat_mode, irqVars, raised, since_lcdc, frame>>

Modes == {"HBLANK", "VBLANK", "OAM_SCAN", "PIXEL_TRANSFER"}
LineEnd == Sync + 4

Selectors ==
  {"oam_scan", "oam_scan_77", "oam_scan_done", "after_turn_on", "after_turn_on_78", "after_turn_on_79",
   "pixel_transfer", "first_hblank", "hblank", "hblank_452", "hblank_453", "hblank_454", "hblank_455",
   "last_hblank", "last_hblank_453", "last_hblank_454", "last_hblank_455",
   "vblank", "vblank_453", "vblank_454", "vblank_455", "last_line", "last_line_2", "last_line_3",
   "last_line_4", "last_line_7", "last_line_453", "last_line_454", "last_line_455"}

(* CPU instructions that write LCDC are this many dots apart at least: two *)
(* machine cycles at double speed. *)
WriteDistance == 4

(* ly is LY as a program reads it, line is real_ly; lyc_irq is             *)
(* enable_lyc_eq_ly_irq; first is is_glitched_line_0, delay its count.     *)
PpuTypeOK ==
  /\ lcdc \in [enable : BOOLEAN, bits : Settings]
  /\ pending_lcdc \in [countdown : 0 .. 2, bits : Settings]
  /\ double_speed \in BOOLEAN
  /\ ppu \in [selector : Selectors, dots : 0 .. LineEnd - 1, mode : Modes,
              ly : 0 .. Lines - 1, line : 0 .. Lines - 1, lyc_irq : BOOLEAN,
              oam : BOOLEAN, vram : BOOLEAN, first : BOOLEAN, delay : 0 .. 2]
  /\ stat_mode \in Modes
  /\ stat \in [enabled : Enables, lyc_eq_ly : BOOLEAN]
  /\ {last_stat_irq, pending_stat_irq} \subseteq BOOLEAN
  /\ lyc \in Lycs /\ last_lyc \in Lycs /\ last_ly \in 0 .. Lines - 1
  /\ raised \subseteq {"vblank", "stat", "new_frame"}
  /\ since_lcdc \in 0 .. WriteDistance

NoFrame == [quiet |-> "no", stat |-> 0, vblank |-> 0]

(* Ppu::reset: somewhere in the vertical blank; the buses are reset after. *)
PpuInit ==
  /\ lcdc \in [enable : {TRUE}, bits : Settings]
  /\ pending_lcdc = [countdown |-> 0, bits |-> lcdc.bits]
  /\ double_speed = FALSE
  /\ ppu = [selector |-> "vblank", dots |-> Short, mode |-> "VBLANK", ly |-> Rows, line |-> Rows,
            lyc_irq |-> TRUE, oam |-> FALSE, vram |-> FALSE, first |-> FALSE, delay |-> 0]
  /\ stat_mode = "VBLANK"
  /\ stat \in [enabled : {{}}, lyc_eq_ly : {FALSE}]
  /\ lyc \in Lycs /\ last_lyc = lyc /\ last_ly = Rows
  /\ last_stat_irq = FALSE /\ pending_stat_irq = FALSE
  /\ raised = {} /\ since_lcdc = WriteDistance /\ frame = NoFrame
-----------------------------------------------------------------------------
(* The functions a dot may call: the PPU after it, one for every outcome.  *)
Go(p, selector, dots) == [p EXCEPT !.selector = selector, !.dots = dots]
GoNext(p, selector) == Go(p, selector, p.dots + 1)
Until(p, dot, selector) == IF p.dots + 1 = dot THEN GoNext(p, selector) ELSE GoNext(p, p.selector)

(* LY takes some other value for the dot in which it is increased. *)
Garbled(p, selector) == {[GoNext(p, selector) EXCEPT !.ly = g] : g \in 0 .. Lines - 1}

Increased(p, selector) ==
  [GoNext(p, selector) EXCEPT !.ly = p.line + 1, !.line = p.line + 1, !.lyc_irq = FALSE]

EnterHBlank(p) ==
  IF p.first THEN [GoNext(p, "first_hblank") EXCEPT !.delay = 0]
  ELSE [GoNext(p, IF p.line = Rows - 1 THEN "last_hblank" ELSE "hblank") EXCEPT
          !.mode = "HBLANK", !.oam = FALSE, !.vram = FALSE]

PixelTransfer(p) ==
  (IF p.dots + 1 >= Short THEN {EnterHBlank(p)} ELSE {})
  \cup (IF p.dots + 1 < Long THEN {GoNext(p, "pixel_transfer")} ELSE {})

(* In the line after the PPU is turned on everything comes later. *)
FirstHBlank(p) ==
  LET q == [p EXCEPT !.dots = @ + 1, !.delay = @ + 1] IN
  IF q.delay = 1 THEN [q EXCEPT !.oam = FALSE, !.vram = FALSE]
  ELSE [q EXCEPT !.mode = "HBLANK", !.selector = "hblank", !.first = FALSE]

EnterPixelTransfer(p) == [Go(p, "pixel_transfer", Scan + 4) EXCEPT !.oam = TRUE, !.vram = TRUE]

ScanDot(p) ==
  CASE p.selector = "oam_scan" -> {Until(p, Scan + 1, "oam_scan_77")}
    [] p.selector = "oam_scan_77" -> {[GoNext(p, "oam_scan_done") EXCEPT !.vram = TRUE]}
    [] p.selector = "oam_scan_done" ->
         IF p.dots + 1 = Scan + 3 THEN {[GoNext(p, "oam_scan_done") EXCEPT !.mode = "PIXEL_TRANSFER"]}
         ELSE {EnterPixelTransfer(p)}
    [] p.selector = "after_turn_on" ->
         IF p.dots + 1 = Scan + 2 THEN {[GoNext(p, "after_turn_on_78") EXCEPT !.oam = TRUE]}
         ELSE {GoNext(p, "after_turn_on")}
    [] p.selector = "after_turn_on_78" -> {[GoNext(p, "after_turn_on_79") EXCEPT !.mode = "PIXEL_TRANSFER"]}
    [] OTHER -> {EnterPixelTransfer(p)}

HBlankDot(p) ==
  CASE p.selector = "first_hblank" -> {FirstHBlank(p)}
    [] p.selector = "hblank" ->
         {[Until(p, Sync, "hblank_452") EXCEPT !.oam = @ \/ p.dots + 1 = Sync]}
    [] p.selector = "hblank_452" -> Garbled(p, "hblank_453")
    [] p.selector = "hblank_453" -> {Increased(p, "hblank_454")}
    [] p.selector = "hblank_454" -> {[GoNext(p, "hblank_455") EXCEPT !.lyc_irq = TRUE, !.mode = "OAM_SCAN"]}
    [] p.selector = "hblank_455" -> {Go(p, "oam_scan", 0)}
    [] p.selector = "last_hblank" -> IF p.dots + 1 = Sync + 1 THEN Garbled(p, "last_hblank_453") ELSE {GoNext(p, "last_hblank")}
    [] p.selector = "last_hblank_453" -> {Increased(p, "last_hblank_454")}
    [] p.selector = "last_hblank_454" -> {[GoNext(p, "last_hblank_455") EXCEPT !.lyc_irq = TRUE]}
    [] OTHER -> {[Go(p, "vblank", 0) EXCEPT !.mode = "VBLANK"]}

VBlankDot(p) ==
  CASE p.selector = "vblank" -> IF p.dots + 1 = Sync + 1 THEN Garbled(p, "vblank_453") ELSE {GoNext(p, "vblank")}
    [] p.selector = "vblank_453" -> {Increased(p, "vblank_454")}
    [] p.selector = "vblank_454" -> {[GoNext(p, "vblank_455") EXCEPT !.lyc_irq = TRUE]}
    [] p.selector = "vblank_455" -> {Go(p, IF p.ly = Lines - 1 THEN "last_line" ELSE "vblank", 0)}
    [] p.selector = "last_line" -> {Until(p, 2, "last_line_2")}
    [] p.selector = "last_line_2" -> {[GoNext(p, "last_line_3") EXCEPT !.lyc_irq = FALSE]}
    [] p.selector = "last_line_3" -> {[GoNext(p, "last_line_4") EXCEPT !.ly = 0, !.line = 0]}
    [] p.selector = "last_line_4" ->
         {[Until(p, 7, "last_line_7") EXCEPT !.lyc_irq = @ \/ p.dots + 1 = 7]}
    [] p.selector = "last_line_7" -> {Until(p, Sync + 1, "last_line_453")}
    [] p.selector = "last_line_453" -> {[GoNext(p, "last_line_454") EXCEPT !.oam = TRUE]}
    [] p.selector = "last_line_454" -> {GoNext(p, "last_line_455")}
    [] OTHER -> {[Go(p, "oam_scan", 0) EXCEPT !.mode = "OAM_SCAN"]}

HBlankSelectors ==
  {"first_hblank", "hblank", "hblank_452", "hblank_453", "hblank_454", "hblank_455",
   "last_hblank", "last_hblank_453", "last_hblank_454", "last_hblank_455"}

VBlankSelectors ==
  {"vblank", "vblank_453", "vblank_454", "vblank_455", "last_line", "last_line_2", "last_line_3",
   "last_line_4", "last_line_7", "last_line_453", "last_line_454", "last_line_455"}

DotOf(p) ==
  CASE p.selector = "pixel_transfer" -> PixelTransfer(p)
    [] p.selector \in HBlankSelectors -> HBlankDot(p)
    [] p.selector \in VBlankSelectors -> VBlankDot(p)
    [] OTHER -> ScanDot(p)

EntersVBlank == ppu.selector = "last_hblank_455"
EntersFrame == ppu.selector = "last_line_455"

(* The three dots that try the OAM interrupt by themselves. *)
TriesOamIrq == \/ ppu.selector = "hblank_452"
               \/ ppu.selector = "last_hblank" /\ ppu.dots = Sync
               \/ EntersFrame
-----------------------------------------------------------------------------
(* is_lyc_eq_ly: kept while LY changes, and around the end of the frame. *)
IsLycEqLyAlways(p) == last_lyc = last_ly

IsLycEqLy(p) == IF p.lyc_irq THEN last_lyc = last_ly ELSE stat.lyc_eq_ly

(* update_stat_irq_for_oam_mode, and the variant of the last line *)
OamIrq == "oam" \in stat.enabled \/ ("lyc_eq_ly" \in stat.enabled /\ last_lyc = last_ly)

LastAfterOam ==
  IF TriesOamIrq /\ ppu.selector # "last_hblank" /\ "lyc_eq_ly" \in stat.enabled /\ last_lyc = last_ly + 1
  THEN OamIrq ELSE last_stat_irq

PendingAfterOam == IF TriesOamIrq THEN ~last_stat_irq /\ OamIrq ELSE pending_stat_irq

(* raise_stat_irq, after the dot p: the request noted a dot before, or the *)
(* line as it is now. *)
StatLine(p) ==
  \/ "lyc_eq_ly" \in stat.enabled /\ IsLycEqLy(p)
  \/ "hblank" \in stat.enabled /\ p.mode = "HBLANK"
  \/ "vblank" \in stat.enabled /\ p.mode = "VBLANK"

RaiseStatIrq(p) ==
  /\ IF PendingAfterOam
     THEN pending_stat_irq' = FALSE /\ last_stat_irq' = LastAfterOam
     ELSE pending_stat_irq' = (~LastAfterOam /\ StatLine(p)) /\ last_stat_irq' = StatLine(p)
  /\ stat' = [stat EXCEPT !.lyc_eq_ly = IsLycEqLy(p)]

(* tick_pending_write *)
TickPendingWriteBelow ==
  /\ pending_lcdc' = [pending_lcdc EXCEPT !.countdown = @ - 1]
  /\ lcdc' = IF pending_lcdc.countdown = 1 THEN [lcdc EXCEPT !.bits = pending_lcdc.bits] ELSE lcdc

TickPendingWrite ==
  /\ pending_lcdc' = [pending_lcdc EXCEPT !.countdown = IF @ > 0 THEN @ - 1 ELSE 0]
  /\ lcdc' = IF pending_lcdc.countdown = 1 THEN [lcdc EXCEPT !.bits = pending_lcdc.bits] ELSE lcdc

(* tick_stat: a scan may be shown as HBlank (dma: the OAM DMA is active),  *)
(* and at double speed HBlank is shown a dot late. *)
Shown(p, dma) == IF p.mode = "OAM_SCAN" /\ (p.first \/ dma) THEN "HBLANK" ELSE p.mode

TickStat(p, dma) ==
  stat_mode' = IF double_speed /\ ppu.mode # "HBLANK" /\ p.mode = "HBLANK" /\ ~ppu.first
               THEN stat_mode ELSE Shown(p, dma)

(* The history of a frame nobody disturbs, from the VBlank before it on. *)
Counted(requests, f) ==
  [f EXCEPT !.stat = IF "stat" \in requests THEN @ + 1 ELSE @,
            !.vblank = IF "vblank" \in requests THEN @ + 1 ELSE @]

CountFrame(requests) ==
  frame' = CASE EntersFrame /\ frame.quiet # "no" -> Counted(requests, [quiet |-> "yes", stat |-> 0, vblank |-> 0])
             [] ~EntersFrame /\ frame.quiet = "yes" -> Counted(requests, frame)
             [] frame.quiet = "no" /\ EntersVBlank -> [frame EXCEPT !.quiet = "settling"]
             [] OTHER -> frame

Patience == since_lcdc' = IF since_lcdc < WriteDistance THEN since_lcdc + 1 ELSE since_lcdc

(* Ppu::tick while the PPU is on, off. *)
Dot(p, dma) ==
  /\ lcdc.enable
  /\ ppu' = p
  /\ RaiseStatIrq(p)
  /\ raised' = (IF EntersVBlank THEN {"vblank"} ELSE {}) \cup (IF PendingAfterOam THEN {"stat"} ELSE {})
                 \cup (IF EntersFrame THEN {"new_frame"} ELSE {})
  /\ last_ly' = p.ly /\ last_lyc' = lyc
  /\ TickPendingWrite
  /\ TickStat(p, dma)
  /\ CountFrame(raised')
  /\ Patience
  /\ UNCHANGED <<double_speed, lyc>>

TickOffHoldingWrites ==
  /\ ~lcdc.enable
  /\ TickStat(ppu, FALSE)
  /\ raised' = {}
  /\ Patience
  /\ UNCHANGED <<lcdc, pending_lcdc, double_speed, ppu, irqVars, frame>>

TickOff ==
  /\ ~lcdc.enable
  /\ TickPendingWrite
  /\ TickStat(ppu, FALSE)
  /\ raised' = {}
  /\ Patience
  /\ UNCHANGED <<double_speed, ppu, irqVars, frame>>

PpuTick == (\E p \in DotOf(ppu), dma \in BOOLEAN : Dot(p, dma)) \/ TickOff

(* write_lcdc: turning the PPU on and off is immediate, the rest waits. *)
TurnOn ==
  /\ last_lyc' = lyc
  /\ stat' = [stat EXCEPT !.lyc_eq_ly = IF ppu.lyc_irq THEN lyc = last_ly ELSE @]
  /\ ppu' = IF double_speed THEN [ppu EXCEPT !.dots = 1] ELSE ppu
  /\ UNCHANGED last_ly

TurnedOffBlind(p) ==
  [p EXCEPT !.selector = "after_turn_on", !.dots = 0, !.mode = "OAM_SCAN", !.ly = 0, !.line = 0,
            !.first = TRUE, !.delay = 0, !.oam = FALSE, !.vram = FALSE]

TurnedOffInLine(p) ==
  [p EXCEPT !.selector = "after_turn_on", !.dots = 0, !.mode = "OAM_SCAN", !.ly = 0,
            !.lyc_irq = TRUE, !.first = TRUE, !.delay = 0, !.oam = FALSE, !.vram = FALSE]

TurnedOff(p) ==
  [p EXCEPT !.selector = "after_turn_on", !.dots = 0, !.mode = "OAM_SCAN", !.ly = 0, !.line = 0,
            !.lyc_irq = TRUE, !.first = TRUE, !.delay = 0, !.oam = FALSE, !.vram = FALSE]

TurnOff ==
  /\ ppu' = TurnedOff(ppu)
  /\ last_ly' = 0
  /\ UNCHANGED <<stat, last_lyc>>

Disturbed == frame' = NoFrame

WriteLcdc(enable, bits) ==
  /\ since_lcdc >= WriteDistance
  /\ IF enable = lcdc.enable THEN UNCHANGED <<ppu, stat, last_lyc, last_ly>>
     ELSE IF enable THEN TurnOn ELSE TurnOff
  /\ lcdc' = [lcdc EXCEPT !.enable = enable]
  /\ pending_lcdc' = [countdown |-> 2, bits |-> bits]
  /\ since_lcdc' = 0
  /\ Disturbed
  /\ UNCHANGED <<double_speed, stat_mode, lyc, last_stat_irq, pending_stat_irq, raised>>

WriteStat(enabled) ==
  /\ stat' = [stat EXCEPT !.enabled = enabled]
  /\ Disturbed
  /\ UNCHANGED <<lcdc, pending_lcdc, double_speed, ppu, stat_mode, lyc, last_lyc, last_ly,
                 last_stat_irq, pending_stat_irq, raised, since_lcdc>>

WriteLyc(v) ==
  /\ lyc' = v
  /\ Disturbed
  /\ UNCHANGED <<lcdc, pending_lcdc, double_speed, ppu, stat_mode, stat, last_lyc, last_ly,
                 last_stat_irq, pending_stat_irq, raised, since_lcdc>>

ChangeSpeed ==
  /\ double_speed' = ~double_speed
  /\ UNCHANGED <<lcdc, pending_lcdc, ppu, stat_mode, irqVars, raised, since_lcdc, frame>>

PpuWrite ==
  \/ \E enable \in BOOLEAN, bits \in Settings : WriteLcdc(enable, bits)
  \/ \E enabled \in Enables : WriteStat(enabled)
  \/ \E v \in Lycs : WriteLyc(v)

PpuNext == PpuTick \/ PpuWrite \/ ChangeSpeed

PpuSpec == PpuInit /\ [][PpuNext]_ppuVars
-----------------------------------------------------------------------------
(* The assertions of the functions a dot may call, those of                *)
(* update_stat_irq_for_oam_mode and of tick: whenever the PPU is turned    *)
(* off and on, the next dot finds its line, buses and LYC comparison as    *)
(* it expects them.                                                        *)
DotAssertions ==
  LET p == ppu
      in(selectors) == p.selector \in selectors
      lyc_irq_off == {"hblank_454", "last_hblank_454", "vblank_454", "last_line_3", "last_line_4"}
  IN /\ in({"oam_scan"}) => p.dots <= Scan /\ p.oam /\ ~p.vram /\ p.mode = "OAM_SCAN"
     /\ in({"after_turn_on"}) => p.dots < Scan + 2 /\ ~p.oam
     /\ in({"after_turn_on_78"}) => p.mode = "OAM_SCAN"
     /\ in({"pixel_transfer"}) => p.oam /\ p.vram /\ p.mode = "PIXEL_TRANSFER" /\ p.line < Rows
     /\ in({"first_hblank"}) => p.first /\ p.mode = "PIXEL_TRANSFER" /\ p.line = 0
     /\ in({"hblank", "hblank_452"}) => p.line < Rows - 1
     /\ in({"last_hblank"}) => p.line = Rows - 1
     /\ in({"vblank", "vblank_453"}) => p.line \in Rows .. Lines - 2
     /\ in({"last_line"}) => p.line = Lines - 1
     /\ in({"last_hblank_455", "vblank"}) => ~p.vram /\ ~p.oam
     /\ (p.selector \in lyc_irq_off) = ~p.lyc_irq
     /\ lcdc.enable /\ TriesOamIrq => p.lyc_irq /\ last_ly = p.ly

(* Whatever STAT shows is safe to act upon: in HBlank and VBlank a program *)
(* reaches the video memory, and OAM until the end of the line is near; a  *)
(* PPU that is off holds nothing.  (A scan shown as HBlank is not meant.)  *)
BusesAsStatShows ==
  /\ stat_mode \in {"HBLANK", "VBLANK"} /\ ppu.mode # "OAM_SCAN" => ~ppu.vram /\ (ppu.oam => ppu.dots >= Sync)
  /\ ~lcdc.enable => ~ppu.vram /\ ~ppu.oam

(* The next dot finds everything as it expects, and so does the program.   *)
DotsAndBusesAgree == DotAssertions /\ BusesAsStatShows

(* A frame that no write disturbs requests VBlank once, and STAT as often  *)
(* as its enabled sources say: once for LYC (line 0 and the last line      *)
(* included, both of which LY shows for less or more than a line), once    *)
(* per row for HBlank, once per row and once more for the scans, whatever  *)
(* value LY takes for a dot while it is increased.  Sources that hold the  *)
(* line one after the other block each other: no scan after HBlank, no     *)
(* VBlank after HBlank, no first scan after VBlank.  LYC among others adds *)
(* one request at most, though it takes others from them.                  *)
Expected(enabled) ==
  CASE enabled = {} -> {0}
    [] enabled = {"lyc_eq_ly"} -> {IF lyc < Lines THEN 1 ELSE 0}
    [] enabled = {"vblank"} -> {1}
    [] enabled \in {{"hblank"}, {"hblank", "vblank"}, {"hblank", "vblank", "oam"}} -> {Rows}
    [] enabled \in {{"oam"}, {"hblank", "oam"}, {"vblank", "oam"}} -> {Rows + 1}
    [] OTHER -> 0 .. Rows + 2

FrameInterrupts ==
  [][frame.quiet = "yes" /\ "new_frame" \in raised' /\ EntersFrame =>
       frame.vblank = 1 /\ frame.stat \in Expected(stat.enabled)]_ppuVars

(* The rows drawn so far, as mode and line tell: the line of a row is left *)
(* behind while its blank still lasts. *)
Drawn ==
  CASE ppu.mode = "VBLANK" -> Rows
    [] ppu.mode = "HBLANK" -> IF ppu.dots > Sync + 1 THEN ppu.line ELSE ppu.line + 1
    [] OTHER -> ppu.line

(* Dots implement the frame a program sees: no row is skipped, drawn twice *)
(* or drawn on another line, whenever the PPU is turned off and on.        *)
Frame == INSTANCE FrameModes WITH
  on <- lcdc.enable,
  mode <- IF ppu.mode = "OAM_SCAN" /\ ppu.first THEN "HBLANK" ELSE ppu.mode,
  line <- ppu.line, drawn <- Drawn
ImplementsFrameModes == Frame!Spec

(* The PPU sees every write of LCDC, and sees it before an instruction can *)
(* write the next: none is overwritten while it is pending, none waits     *)
(* for the PPU to be turned on (tick_pending_write runs with it off, too). *)
EveryWriteSeen ==
  since_lcdc >= WriteDistance => pending_lcdc.countdown = 0 /\ lcdc.bits = pending_lcdc.bits

=============================================================================
