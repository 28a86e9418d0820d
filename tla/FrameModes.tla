----------------------------- MODULE FrameModes -----------------------------
(***************************************************************************)
(* What the PPU promises a program that reads STAT and LY: every row is    *)
(* scanned, drawn and left behind, in order, then come the rows of the     *)
(* vertical blank, and the next frame begins; the PPU may be turned off    *)
(* at any time and begins a frame without a first scan when turned on.     *)
(***************************************************************************)
EXTENDS Naturals

CONSTANTS Rows, Lines  \* lines drawn, lines of a frame

VARIABLES
  on,
  mode,   \* of the frame
  line,   \* LY
  drawn   \* rows drawn in this frame

frameVars == <<on, mode, line, drawn>>

Init ==
  /\ on = TRUE
  /\ mode = "VBLANK"
  /\ line \in Rows .. Lines - 1
  /\ drawn = Rows

Draw ==
  /\ mode = "OAM_SCAN" \/ (mode = "HBLANK" /\ line = 0 /\ drawn = 0)
  /\ mode' = "PIXEL_TRANSFER"
  /\ UNCHANGED <<line, drawn>>

LeaveRow ==
  /\ mode = "PIXEL_TRANSFER"
  /\ mode' = "HBLANK"
  /\ drawn' = drawn + 1
  /\ UNCHANGED line

(* LY is ahead of the mode: it changes before the next scan or blank. *)
NextLine ==
  /\ mode = "VBLANK" \/ (mode = "HBLANK" /\ drawn = line + 1)
  /\ line' = (line + 1) % Lines
  /\ UNCHANGED <<mode, drawn>>

ScanRow ==
  /\ mode = "HBLANK" /\ drawn = line /\ drawn \in 1 .. Rows - 1
  /\ mode' = "OAM_SCAN"
  /\ UNCHANGED <<line, drawn>>

Blank ==
  /\ mode = "HBLANK" /\ drawn = line /\ drawn = Rows
  /\ mode' = "VBLANK"
  /\ UNCHANGED <<line, drawn>>

NewFrame ==
  /\ mode = "VBLANK" /\ line = 0
  /\ mode' = "OAM_SCAN"
  /\ drawn' = 0
  /\ UNCHANGED line

Advance == on /\ (Draw \/ LeaveRow \/ NextLine \/ ScanRow \/ Blank \/ NewFrame) /\ UNCHANGED on

TurnOff ==
  /\ on
  /\ on' = FALSE /\ mode' = "HBLANK" /\ line' = 0 /\ drawn' = 0

TurnOn == ~on /\ on' = TRUE /\ UNCHANGED <<mode, line, drawn>>

Next == Advance \/ TurnOff \/ TurnOn

Spec == Init /\ [][Next]_frameVars
=============================================================================
