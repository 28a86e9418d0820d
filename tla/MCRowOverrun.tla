----------------------------- MODULE MCRowOverrun ---------------------------
(***************************************************************************)
(* A row of the real size, and a program at double speed that restarts the *)
(* window in every tile: LD (HL),D and LD (HL),E clear and set its bit in  *)
(* LCDC, then ADD A,B and LD (C),A move WX a tile on, again and again.     *)
(***************************************************************************)
EXTENDS PixelTransfer

VARIABLES
  program,  \* the instruction that writes next
  due,      \* dots until it does
  column    \* register A

loopVars == <<rowVars, program, due, column>>

MCWxs == 0 .. 2 * LastLx

(* Ten objects, all of which are on the row. *)
MCLayouts == {{[x |-> IF n = 0 THEN 161 ELSE 0, number |-> n] : n \in 0 .. 9}}

LoopInit ==
  /\ RowInit /\ row_lcdc = [win |-> TRUE, obj |-> TRUE] /\ wx = LastLx
  /\ program = "clear" /\ due = 0 /\ column = 0

LoopEnters ==
  /\ EnterRow /\ row_lcdc.win /\ window_seen'
  /\ program' = "clear" /\ due' \in 0 .. 60 /\ column' \in 0 .. Tile

LoopDot ==
  /\ due > 0 /\ RowTick
  /\ due' = due - 1
  /\ UNCHANGED <<program, column>>

LoopWrites ==
  /\ due = 0
  /\ \/ /\ program = "clear" /\ WriteRowLcdc([win |-> FALSE, obj |-> TRUE], TRUE)
        /\ program' = "set" /\ due' = 4 /\ UNCHANGED column
     \/ /\ program = "set" /\ WriteRowLcdc([win |-> TRUE, obj |-> TRUE], TRUE)
        /\ program' = "move" /\ due' = 6 /\ UNCHANGED column
     \/ /\ program = "move" /\ WriteWx(column)
        /\ program' = "clear" /\ due' = 4 /\ column' = column + Tile

LoopBlank ==
  /\ row.selector = "hblank"
  /\ \/ RowOverDot
     \/ pending.countdown = 0 /\ UNCHANGED rowVars
  /\ UNCHANGED <<program, due, column>>

LoopSpec == LoopInit /\ [][LoopEnters \/ LoopDot \/ LoopWrites \/ LoopBlank]_loopVars

(* hblank waits for dot 452: a row must be over before it, or dots goes on *)
(* past 456, against the assertion at the end of Ppu::tick, and LY stays.  *)
RowFitsItsLine == row.selector = "hblank" => 80 + row.dots < 452
=============================================================================
