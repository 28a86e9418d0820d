---------------------------- MODULE PixelTransfer ---------------------------
(***************************************************************************)
(* The pixel transfer of one row after another (docboy/ppu, CGB): the      *)
(* pixels leave the background queue one per dot while a fetcher fetches   *)
(* the next tile, unless a window or an object of this column makes them   *)
(* wait - and a program enables and disables window and objects and moves  *)
(* the window in any dot.  Pixels are counted, not coloured.               *)
(***************************************************************************)
EXTENDS Integers, FiniteSets

CONSTANTS
  Tile,      \* pixels of a tile, and of both queues: TILE_WIDTH = 8
  LastLx,    \* the column in which a row is over: 168
  Scrolls,   \* values of SCX % 8
  Wxs,       \* values written to WX
  Layouts    \* objects of a row, by their column and their number in OAM

(* A tile lasts at least the six dots in which the next one is fetched. *)
ASSUME TransferAssumption ==
  /\ Tile \in Nat /\ Tile >= 6 /\ LastLx \in Nat /\ LastLx > Tile
  /\ Scrolls \subseteq 0 .. Tile - 1 /\ Wxs \subseteq Nat
  /\ \A layout \in Layouts :
       IsFiniteSet(layout) /\ layout \subseteq [x : 0 .. LastLx - 1, number : Nat]

VARIABLES
  row_lcdc,     \* the two bits the fetchers look at, as the PPU sees them
  wx,
  pending,      \* pending_write.lcdc or .wx: countdown and what it writes
  since_write,  \* dots since the CPU wrote one of the two
  window_seen,  \* w.active_for_frame
  row           \* the row under way: queues, fetcher, window, and its history

rowVars == <<row_lcdc, wx, pending, since_write, window_seen, row>>

(* The states of the fetcher, in the order it goes through them: of a tile *)
(* of background or window, of an object.                                  *)
NextPhase == [
  tile_0 |-> "tile_1", tile_1 |-> "low_0", low_0 |-> "low_1", low_1 |-> "high_0", high_0 |-> "high_1",
  obj_tile_0 |-> "obj_tile_1", obj_tile_1 |-> "obj_low_0", obj_low_0 |-> "obj_low_1",
  obj_low_1 |-> "obj_high_0", obj_high_0 |-> "obj_high_1"]
ObjPhases == {"obj_tile_0", "obj_tile_1", "obj_low_0", "obj_low_1", "obj_high_0", "obj_high_1"}
Phases == DOMAIN NextPhase \cup ObjPhases \cup {"high_1", "idle"}

(* LCDC and WX are written by different instructions, at least two machine *)
(* cycles of double speed apart. *)
RowWriteDistance == 4

EmptyRow == [
  selector |-> "hblank", dots |-> 0, lx |-> 0, discard |-> 0,
  bg |-> 0, obj |-> 0, fill |-> FALSE, partial |-> 0,
  fetch |-> "tile_0", push |-> FALSE, sprite |-> FALSE, cached |-> FALSE,
  activating |-> FALSE, active |-> FALSE, just_activated |-> FALSE,
  objs |-> {},
  \* histories: what the bounds of enter_hblank count
  scroll |-> 0, total |-> 0, served |-> 0, triggers |-> 0, wx0 |-> FALSE, cancelled |-> FALSE]

(* bg and obj are the sizes of the queues, partial the size of a pending   *)
(* partial fill (0: none), discard the pixels of SCX % 8 still to discard. *)
RowTypeOK ==
  /\ row_lcdc \in [win : BOOLEAN, obj : BOOLEAN]
  /\ wx \in Wxs
  /\ pending.countdown \in 0 .. 2
  /\ since_write \in 0 .. RowWriteDistance
  /\ window_seen \in BOOLEAN
  /\ row.selector \in {"dummy", "discard_wx0", "discard", "draw", "hblank"}
  /\ row.lx \in 0 .. LastLx /\ row.discard \in 0 .. Tile - 1
  /\ {row.bg, row.obj, row.partial} \subseteq 0 .. Tile
  /\ row.fetch \in Phases
  /\ row.dots \in Nat

NoWrite == [countdown |-> 0, reg |-> "wx", value |-> 0]

RowInit ==
  /\ row_lcdc \in [win : BOOLEAN, obj : BOOLEAN]
  /\ wx \in Wxs
  /\ pending = NoWrite /\ since_write = RowWriteDistance
  /\ window_seen = FALSE
  /\ row = EmptyRow
-----------------------------------------------------------------------------
(* What a dot does, one function of the code after the other. *)
ObjsHere(r) == {o \in r.objs : o.x = r.lx}
ObjReady(r) == ObjsHere(r) # {} /\ row_lcdc.obj
BgReady(r) == r.bg > 0 /\ ~r.sprite /\ ~ObjReady(r)

(* LCDC is about to be seen without its window bit. *)
Disabling == pending.countdown = 1 /\ pending.reg = "lcdc" /\ ~pending.value.win

CheckWindow(r) ==
  IF window_seen /\ ~r.active /\ row_lcdc.win /\ r.lx = wx
    THEN [r EXCEPT !.activating = TRUE, !.push = FALSE, !.fetch = IF Disabling THEN @ ELSE "idle"]
    ELSE r

(* The window was triggered in the dot before, in the column before. *)
TriggerColumn(r) == IF r.selector = "discard_wx0" THEN 0 ELSE r.lx - 1

ActivateWindow(r) ==
  [r EXCEPT !.bg = 0, !.active = TRUE, !.just_activated = TRUE,
            !.triggers = @ + 1, !.wx0 = @ \/ TriggerColumn(r) = 0]

HandleWindowIdle(r) ==
  IF ~r.activating THEN r
  ELSE [(IF row_lcdc.win THEN ActivateWindow(r)
         ELSE [r EXCEPT !.partial = IF r.bg = 0 THEN Tile ELSE r.bg, !.fetch = "tile_0"])
        EXCEPT !.activating = FALSE]

HandleWindow(r) ==
  IF ~r.activating THEN r
  ELSE [(IF row_lcdc.win THEN ActivateWindow(r)
         ELSE [r EXCEPT !.partial = IF r.bg = 0 THEN Tile ELSE r.bg,
                        !.cancelled = @ \/ r.selector = "discard_wx0"])
        EXCEPT !.activating = FALSE, !.fetch = "tile_0"]

HandleFill(r) ==
  IF r.fill THEN [r EXCEPT !.fill = FALSE, !.bg = Tile]
  ELSE IF r.partial > 0 THEN [r EXCEPT !.bg = r.partial, !.partial = 0]
  ELSE r

(* Which object of the column it is makes no difference here. *)
PullObj(r, phase) ==
  [r EXCEPT !.sprite = TRUE, !.objs = @ \ {CHOOSE o \in ObjsHere(r) : TRUE},
            !.served = @ + 1, !.fetch = phase]

(* The obj pixels are merged into the queue, which is full after it. *)
MergeObj(r) ==
  LET s == [r EXCEPT !.obj = Tile]
  IN IF ObjReady(s) THEN PullObj(s, "obj_tile_0")
     ELSE [s EXCEPT !.sprite = FALSE, !.cached = FALSE, !.fetch = "idle"]

TickFetcher(r) ==
  CASE r.fetch = "idle" -> r
    [] r.fetch = "tile_0" -> [r EXCEPT !.fetch = "tile_1", !.active = @ /\ row_lcdc.win]
    [] r.fetch = "high_1" -> [r EXCEPT !.fetch = "idle", !.push = TRUE]
    [] r.fetch = "obj_high_1" -> MergeObj(r)
    [] OTHER -> [r EXCEPT !.fetch = NextPhase[@]]

(* A window disabled while its first tile is fetched lets the fetcher push *)
(* what it has. *)
WindowGlitch(r) ==
  IF (r.activating \/ r.just_activated) /\ Disabling THEN [r EXCEPT !.push = TRUE] ELSE r

PushTile(r) ==
  [r EXCEPT !.fill = TRUE, !.push = FALSE, !.fetch = "tile_0", !.just_activated = FALSE]

(* The first dot of the object's fetch is this one. *)
StartObj(r, cached) == [PullObj(r, "obj_tile_1") EXCEPT !.cached = cached]

HandlePush(r) ==
  IF ~r.push \/ r.sprite THEN r
  ELSE IF r.bg > 0 THEN IF ObjReady(r) THEN StartObj(r, TRUE) ELSE r
  ELSE IF window_seen /\ r.lx = wx /\ ~r.just_activated /\ r.active THEN [r EXCEPT !.bg = 1]
  ELSE IF r.just_activated \/ ~ObjReady(r) THEN PushTile(r)
  ELSE StartObj(PushTile(r), FALSE)

IncreaseLxKeeping(r) == [r EXCEPT !.lx = @ + 1]

IncreaseLx(r) == [r EXCEPT !.objs = @ \ ObjsHere(r), !.lx = @ + 1]

DotCounted(r) == [r EXCEPT !.dots = @ + 1]

Dummy(r) ==
  IF r.dots + 1 < 3 THEN {r}
  ELSE {LET s == [r EXCEPT !.bg = Tile, !.discard = scroll, !.scroll = scroll]
            t == CheckWindow(s)
        IN IF scroll = 0 THEN [s EXCEPT !.selector = "draw"]
           ELSE [t EXCEPT !.selector = IF t.activating THEN "discard_wx0" ELSE "discard"]
        : scroll \in Scrolls}

DiscardWx0(r) == [HandleWindow(r) EXCEPT !.selector = "discard"]

Discard(r) ==
  LET s == HandleFill(r)
      t == IF ~BgReady(s) THEN s
           ELSE [s EXCEPT !.bg = @ - 1, !.discard = @ - 1,
                          !.selector = IF s.discard = 1 THEN "draw" ELSE @]
  IN HandlePush(TickFetcher(t))

(* pixel_transfer_lx0 and _lx8: the first tile's pixels are not shown. *)
Draw(r) ==
  LET s == HandleFill(HandleWindow(r))
      popped == [s EXCEPT !.bg = @ - 1, !.obj = IF @ > 0 THEN @ - 1 ELSE 0]
      Fetched(t) == HandlePush(WindowGlitch(TickFetcher(t)))
  IN IF ~BgReady(s) THEN Fetched(s)
     ELSE IF s.lx + 1 = LastLx THEN [IncreaseLx(popped) EXCEPT !.selector = "hblank"]
     ELSE IncreaseLx(Fetched(CheckWindow(popped)))

RowDot(r) ==
  CASE r.selector = "dummy" -> Dummy(r)
    [] r.selector = "discard_wx0" -> {DiscardWx0(r)}
    [] r.selector = "discard" -> {Discard(r)}
    [] OTHER -> {Draw(r)}
-----------------------------------------------------------------------------
(* tick_pending_write, and with it the time the CPU needs. *)
TickPending ==
  /\ since_write' = IF since_write < RowWriteDistance THEN since_write + 1 ELSE since_write
  /\ IF pending.countdown = 1
       THEN /\ pending' = NoWrite
            /\ row_lcdc' = IF pending.reg = "lcdc" THEN pending.value ELSE row_lcdc
            /\ wx' = IF pending.reg = "wx" THEN pending.value ELSE wx
       ELSE /\ pending' = IF pending.countdown = 0 THEN pending ELSE [pending EXCEPT !.countdown = @ - 1]
            /\ UNCHANGED <<row_lcdc, wx>>

(* tick_window: WY, which a program may write, was LY. *)
TickWindow == window_seen' \in IF row_lcdc.win THEN {window_seen, TRUE} ELSE {window_seen}

RowTick ==
  /\ row.selector # "hblank"
  /\ \E r \in RowDot(row) : row' = DotCounted(r)
  /\ TickWindow
  /\ TickPending

(* The next row, of this frame or of another. *)
EnterRow ==
  /\ row.selector = "hblank" /\ pending.countdown = 0
  /\ \E layout \in Layouts :
       row' = [EmptyRow EXCEPT !.selector = "dummy", !.objs = layout, !.total = Cardinality(layout)]
  /\ window_seen' \in BOOLEAN
  /\ since_write' = RowWriteDistance
  /\ UNCHANGED <<row_lcdc, wx, pending>>

RowOverDot ==
  /\ row.selector = "hblank" /\ pending.countdown > 0
  /\ TickPending
  /\ UNCHANGED <<window_seen, row>>

(* An instruction writes LCDC or WX.  With LCDC.7 cleared the row is over. *)
WriteReg(reg, value) ==
  /\ row.selector # "hblank" /\ since_write = RowWriteDistance
  /\ pending' = [countdown |-> 2, reg |-> reg, value |-> value]
  /\ since_write' = 0
  /\ UNCHANGED <<row_lcdc, wx, window_seen>>

WriteRowLcdc(bits, enable) ==
  /\ WriteReg("lcdc", bits)
  /\ row' = IF enable THEN row ELSE EmptyRow

WriteWx(v) ==
  /\ WriteReg("wx", v)
  /\ UNCHANGED row

RowNext ==
  \/ RowTick \/ EnterRow \/ RowOverDot
  \/ \E bits \in [win : BOOLEAN, obj : BOOLEAN], enable \in BOOLEAN : WriteRowLcdc(bits, enable)
  \/ \E v \in Wxs : WriteWx(v)

RowSpec == RowInit /\ [][RowNext]_rowVars
-----------------------------------------------------------------------------
(* The assertions of the fetcher's functions and of the queues: whatever   *)
(* LCDC and WX do, an object is fetched only in front of a tile that waits *)
(* in the queue, with at most one fetched tile put aside for it; a tile is *)
(* filled in only when the queue is empty; a window never begins while one *)
(* is shown or an object is fetched; no object is left for the next row.   *)
FetcherAssertions ==
  /\ RowTypeOK
  /\ row.sprite <=> row.fetch \in ObjPhases
  /\ row.sprite => row.bg > 0 \/ row.fill
  /\ row.cached => row.sprite
  /\ row.fill => row.bg = 0
  /\ row.activating => ~row.sprite /\ ~row.active /\ row.selector \in {"draw", "discard_wx0"}
  /\ row.selector = "hblank" => row.objs = {}

(* A row takes the dots that enter_hblank accounts for: every dot in which *)
(* no pixel leaves is one of a window's first fetch or of an object's, so  *)
(* that it can neither get stuck nor end early, however often LCDC and WX  *)
(* change.  One dot more than the code allows for is lost to a window that *)
(* is disabled just as it begins at WX 0 with SCX % 8 > 0.                 *)
Low(r) == 3 + LastLx + r.scroll + (IF r.wx0 /\ r.scroll > 0 THEN 1 ELSE 0) + 6 * r.served
High(r) == Low(r) + 5 * r.total + 6 * r.triggers + (IF r.cancelled THEN 1 ELSE 0)

RowInBounds ==
  /\ row.dots <= High(row)
  /\ row.selector = "hblank" /\ row.lx = LastLx => row.dots >= Low(row)

=============================================================================
