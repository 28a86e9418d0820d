-------------------------------- MODULE Video -------------------------------
(***************************************************************************)
(* The LCD (docboy/lcd) next to the PPU: two counters of the same clock.   *)
(* The LCD shows a row every 456 ticks whatever the PPU does; it is in     *)
(* step with the PPU from a new frame it has waited for, until the PPU is  *)
(* turned off - and each switch back from double speed makes the PPU, not  *)
(* the LCD, miss a tick.                                                   *)
(***************************************************************************)
EXTENDS Ppu

CONSTANTS
  RowHalf,  \* ticks after which a row counts: 256
  SyncRows, \* rows from one synchronization to the next: 148
  MaxLost   \* bound: ticks the PPU misses in a frame

(* A switch of speed and back takes longer than a frame, so few ticks are  *)
(* missed: fewer than from the last pixel of a row to the tick it is shown.*)
ASSUME VideoAssumption ==
  /\ RowHalf \in 1 .. Sync - 1
  /\ SyncRows \in Rows .. Lines - 1
  /\ MaxLost \in 0 .. Sync - 1 - Long

VARIABLES
  lcd,   \* the LCD, and the row of pixels the PPU pushes to it
  lost,  \* history: ticks the PPU has missed since it began a frame
  shown  \* history: the row shown by this tick, and all those of the frame

videoVars == <<ppuVars, lcd, lost, shown>>

(* row_cursor: the pixels in row_pixels, none, some or all of a line; line *)
(* is a history of which line they belong to.                              *)
SyncTicks == SyncRows * LineEnd
NoLine == -1

(* frame_ticks only counts: the model stops past the tick it waits for.    *)
LcdTypeOK ==
  /\ lcd \in [row : 0 .. Rows, row_ticks : 0 .. LineEnd - 1, frame_ticks : 0 .. SyncTicks + 1,
              ppu_on : BOOLEAN, rendering_enabled : BOOLEAN, row_increment_enabled : BOOLEAN,
              wait_new_frame : BOOLEAN, row_cursor : {"none", "some", "all"}, line : NoLine .. Rows - 1]
  /\ lcd.ppu_on = lcdc.enable
  /\ lost \in 0 .. MaxLost

NothingShown == [row |-> NoLine, line |-> NoLine, whole |-> FALSE, rows |-> 0]

LcdReset ==
  [row |-> 0, row_ticks |-> 0, frame_ticks |-> SyncTicks, ppu_on |-> TRUE, rendering_enabled |-> TRUE,
   row_increment_enabled |-> FALSE, wait_new_frame |-> TRUE, row_cursor |-> "none", line |-> NoLine]

VideoInit ==
  /\ PpuInit
  /\ lcd = LcdReset
  /\ lost = 0
  /\ shown = NothingShown

(* What the dot from p to q does to the LCD: reset_row_cursor, push_pixel, *)
(* new_frame.                                                              *)
Pushed(l, p, q) ==
  CASE q.selector = "pixel_transfer" /\ p.selector # "pixel_transfer" -> [l EXCEPT !.row_cursor = "none"]
    [] p.selector = "pixel_transfer" /\ q.selector # "pixel_transfer" -> [l EXCEPT !.row_cursor = "all", !.line = p.line]
    [] p.selector = "pixel_transfer" /\ q.selector = "pixel_transfer" -> [l EXCEPT !.row_cursor = "some"]
    [] OTHER -> l

NewFrame(l) ==
  IF l.wait_new_frame
  THEN [l EXCEPT !.rendering_enabled = TRUE, !.wait_new_frame = FALSE, !.frame_ticks = 0]
  ELSE l

(* Lcd::tick, in its two halves: the row, the frame.  A shown or cleared   *)
(* row leaves the buffer without pixels of any line.                       *)
RowTicked(l) ==
  LET t == l.row_ticks + 1 IN
  CASE l.row = Rows -> l
    [] l.row < Rows /\ t = RowHalf -> [l EXCEPT !.row_ticks = t, !.row_increment_enabled = TRUE]
    [] l.row < Rows /\ t = Sync -> [l EXCEPT !.row_ticks = t, !.line = NoLine]
    [] l.row < Rows /\ t = LineEnd -> [l EXCEPT !.row_ticks = 0, !.row = l.row + 1]
    [] OTHER -> [l EXCEPT !.row_ticks = t]

FrameTicked(l) ==
  LET t == l.frame_ticks + 1 IN
  IF t = SyncTicks THEN [l EXCEPT !.frame_ticks = t, !.wait_new_frame = l.ppu_on, !.row = 0]
  ELSE [l EXCEPT !.frame_ticks = IF t > SyncTicks THEN SyncTicks + 1 ELSE t]

LcdTicked(l) == IF l.wait_new_frame THEN l ELSE FrameTicked(RowTicked(l))

Renders(l) == ~l.wait_new_frame /\ l.rendering_enabled /\ l.row < Rows /\ l.row_ticks + 1 = Sync

(* One T-cycle: the PPU unless it is blocked, then the LCD. *)
LcdAfter(l, synced) ==
  /\ lcd' = LcdTicked(l)
  /\ shown' = IF Renders(l)
              THEN [row |-> l.row, line |-> l.line, whole |-> l.row_cursor = "all", rows |-> shown.rows + 1]
              ELSE [NothingShown EXCEPT !.rows = IF synced THEN 0 ELSE shown.rows]

Tick ==
  /\ PpuTick
  /\ LET pushed == IF lcdc.enable THEN Pushed(lcd, ppu, ppu') ELSE lcd
         synced == "new_frame" \in raised'
     IN /\ LcdAfter(IF synced THEN NewFrame(pushed) ELSE pushed, synced)
        /\ lost' = IF synced THEN 0 ELSE lost

BlockedTick ==
  /\ lost < MaxLost
  /\ lost' = lost + 1
  /\ LcdAfter(lcd, FALSE)
  /\ UNCHANGED ppuVars

(* write_lcdc with Lcd::turn_on_ppu and turn_off_ppu *)
LcdOnCountsOn == [lcd EXCEPT !.ppu_on = TRUE]

LcdOn == [lcd EXCEPT !.ppu_on = TRUE, !.frame_ticks = 0]

LcdOffRendering == [lcd EXCEPT !.ppu_on = FALSE, !.wait_new_frame = FALSE, !.row_ticks = 0]

LcdOff ==
  [lcd EXCEPT !.row = IF @ < Rows /\ lcd.row_increment_enabled THEN @ + 1 ELSE @,
              !.line = IF lcd.row < Rows THEN NoLine ELSE @,
              !.ppu_on = FALSE, !.rendering_enabled = FALSE, !.row_increment_enabled = FALSE,
              !.wait_new_frame = FALSE, !.row_ticks = 0]

Write(enable, bits) ==
  /\ WriteLcdc(enable, bits)
  /\ lcd' = IF enable = lcdc.enable THEN lcd ELSE IF enable THEN LcdOn ELSE LcdOff
  /\ shown' = [NothingShown EXCEPT !.rows = IF enable = lcdc.enable THEN shown.rows ELSE 0]
  /\ UNCHANGED lost

Speed == ChangeSpeed /\ UNCHANGED <<lcd, lost, shown>>

VideoNext ==
  \/ Tick
  \/ BlockedTick
  \/ \E enable \in BOOLEAN, bits \in Settings : Write(enable, bits)
  \/ Speed

(* The core ticks the LCD in every T-cycle, and the PPU in all but a few.  *)
VideoSpec == VideoInit /\ [][VideoNext]_videoVars /\ WF_videoVars(Tick)
-----------------------------------------------------------------------------
(* Lcd::tick's assertion, and more: a row that is shown is whole, and is   *)
(* the line the PPU has drawn for that row.                                *)
RowsInStep == shown.row # NoLine => shown.whole /\ shown.line = shown.row

(* Lcd::new_frame's assertion, and more: when the PPU begins a frame the   *)
(* LCD already waits for it, at the first tick of its first row; and one   *)
(* that was in step since the frame before has shown every row once.       *)
FramesInStep ==
  [][Tick /\ "new_frame" \in raised' =>
       /\ lcd.wait_new_frame /\ lcd.row = 0 /\ lcd.row_ticks = 0
       /\ lcd.rendering_enabled /\ shown.rows > 0 => shown.rows = Rows]_videoVars

(* The picture is in step: row by row, no row past the last, and frame by  *)
(* frame.                                                                  *)
PictureInStep == [](LcdTypeOK /\ RowsInStep) /\ FramesInStep

(* A PPU that stays on is shown again: however it was turned off and on    *)
(* before, the LCD ends up waiting for its frames.                         *)
LcdComesBack == <>[]lcdc.enable => <>[]lcd.rendering_enabled
=============================================================================
