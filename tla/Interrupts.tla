----------------------------- MODULE Interrupts -----------------------------
(***************************************************************************)
(* The interrupt flags of the console (docboy/interrupts/interrupts.h).    *)
(* A register is the set of its bits that are 1; the registers IF and IE   *)
(* are called iflag and ienable because IF is a TLA+ keyword.              *)
(***************************************************************************)
EXTENDS Naturals

VARIABLES
  iflag,            \* bits set in the request register FF0F
  ienable,          \* bits set in the enable register FFFF
  block_interrupts  \* TRUE from a write of FF0F to the end of the cycle

VBlank == 0
Stat   == 1
Timer  == 2
Serial == 3
Joypad == 4

InterruptType == {VBlank, Stat, Timer, Serial, Joypad}

(* The bits of IF that have no source: every write forces them to 1. *)
UnusedIF == {5, 6, 7}

InterruptsTypeOK ==
  /\ iflag \in SUBSET (0 .. 7)
  /\ ienable \in SUBSET (0 .. 7)
  /\ block_interrupts \in BOOLEAN

ResetInterrupts ==
  /\ iflag = UnusedIF \cup {VBlank}
  /\ ienable = {}
  /\ block_interrupts = FALSE

(* CPU write of FF0F: the sources are ignored for the rest of the cycle. *)
WriteIF(bits) ==
  /\ iflag' = UnusedIF \cup bits
  /\ block_interrupts' = TRUE
  /\ UNCHANGED ienable

(* The request register once the given sources have been raised. *)
Raised(types) == IF block_interrupts THEN iflag ELSE iflag \cup types

=============================================================================
