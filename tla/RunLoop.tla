------------------------------- MODULE RunLoop -------------------------------
(***************************************************************************)
(* Core::frame and Core::run_for_cycles: how many machine cycles a call    *)
(* runs before it gives the screen and the keys back to the frontend.  A   *)
(* frame ends at VBlank; with the LCD off or the console stopped, VBlank   *)
(* may never come, and the loops count cycles instead.  Two consoles run   *)
(* in bursts: a call may be cut short and the next one takes the frame up. *)
(***************************************************************************)
EXTENDS Naturals

CONSTANTS
  Artificial,   \* ARTIFICIAL_VBLANK_CYCLES
  VisibleDots,  \* dots of a frame before VBlank
  FrameDots,    \* dots of a frame
  EnableDots,   \* dots the PPU may have counted in the cycle that turns it on
  MaxHeld,      \* bound: dots of a frame in which the PPU does not move on
  Modes,        \* what the frontend may call: run_for_cycles (TRUE), frame (FALSE)
  Burst,        \* CYCLES_PER_BURST
  CountMod      \* values of cycle_count

ASSUME RunLoopAssumption ==
  /\ Artificial \in Nat \ {0}
  /\ VisibleDots \in Nat /\ FrameDots \in Nat
  /\ 4 <= VisibleDots /\ VisibleDots + 4 <= FrameDots
  /\ EnableDots \subseteq 0 .. VisibleDots
  /\ MaxHeld \in Nat
  /\ Modes \subseteq BOOLEAN
  /\ Burst \in Nat \ {0} /\ CountMod \in Nat /\ Burst + 1 < CountMod

Loops == {"stopped", "off", "vblank", "visible"}

VARIABLES
  bursting,                     \* two_players_mode: the frontend runs two consoles
  stopped, lcd, dot,            \* STOP mode; LCDC.7; dots since the frame's first line
  cycles_of_artificial_vblank,  \* left by the burst before
  loop, c, cycle_count,         \* the loop of the call, its index; cycles of the burst
  returned,                     \* the last call has ended a frame
  frame_cycles, burst_cycles,   \* history: cycles of this frame, of this call
  held                          \* history: dots the PPU was held in this frame

machine == <<stopped, lcd, dot>>
vars == <<bursting, machine, cycles_of_artificial_vblank, loop, c, cycle_count, returned,
          frame_cycles, burst_cycles, held>>

VBlank == lcd /\ dot >= VisibleDots

(* The longest frame: the counting loop, then a whole frame of the PPU,    *)
(* longer by the dots it is held.                                          *)
FrameBound(dots) == Artificial + (FrameDots + dots + 3) \div 4

(* The histories stop counting past it. *)
LongestFrame == FrameBound(MaxHeld)

Counted(cycles) == IF cycles > LongestFrame THEN cycles ELSE cycles + 1

TypeOK ==
  /\ bursting \in Modes
  /\ stopped \in BOOLEAN /\ lcd \in BOOLEAN
  /\ dot \in 0 .. FrameDots - 1
  /\ cycles_of_artificial_vblank \in 0 .. Artificial - 1
  /\ loop \in Loops \cup {"none"}
  /\ c \in 0 .. Artificial
  /\ cycle_count \in 0 .. CountMod - 1
  /\ returned \in BOOLEAN
  /\ frame_cycles \in 0 .. LongestFrame + 1
  /\ burst_cycles \in 0 .. LongestFrame + 1
  /\ held \in 0 .. MaxHeld

(* Core::reset: the game begins in the VBlank the boot ROM ends in. *)
ResetMachine ==
  /\ stopped' = FALSE
  /\ lcd' = TRUE
  /\ dot' \in VisibleDots .. FrameDots - 1

Init ==
  /\ bursting \in Modes
  /\ stopped = FALSE
  /\ lcd = TRUE
  /\ dot \in VisibleDots .. FrameDots - 1
  /\ cycles_of_artificial_vblank = 0
  /\ loop = "none"
  /\ c = 0
  /\ cycle_count = 0
  /\ returned = TRUE
  /\ frame_cycles = 0
  /\ burst_cycles = 0
  /\ held = 0

(***************************************************************************)
(* One machine cycle, by what these loops see of it.                       *)
(***************************************************************************)
NextDot(dots) == IF dot + dots < FrameDots THEN dot + dots ELSE dot + dots - FrameDots

(* The dots of a cycle in which the PPU does not move on: one that a       *)
(* switch back from double speed blocks; up to all of them in a row that   *)
(* has overrun its line, while Ppu::dots wraps around (MCRowOverrun).      *)
HeldDots == 0 .. IF ~VBlank THEN 4 ELSE IF stopped THEN 0 ELSE 1

RunPpu ==
  \/ /\ lcd /\ lcd'
     /\ \E dots \in HeldDots : /\ held + dots <= MaxHeld
                              /\ held' = held + dots
                              /\ dot' = NextDot(4 - dots)
  \/ /\ ~lcd /\ lcd'
     /\ dot' \in EnableDots
     /\ UNCHANGED held
  \/ /\ ~lcd'
     /\ dot' = 0
     /\ UNCHANGED held

(* The PPU goes on while stopped, but nothing writes LCDC. *)
CoreCycle ==
  /\ stopped' \in BOOLEAN
  /\ lcd' \in IF stopped THEN {lcd} ELSE BOOLEAN
  /\ RunPpu
  /\ frame_cycles' = Counted(frame_cycles)
  /\ burst_cycles' = Counted(burst_cycles)
  /\ UNCHANGED bursting

(***************************************************************************)
(* A call: its loops, one after the other.                                 *)
(***************************************************************************)
RenderLoop == IF VBlank THEN "vblank" ELSE "visible"

FirstLoop ==
  IF stopped THEN "stopped" ELSE IF ~lcd THEN "off" ELSE RenderLoop

(* The loops that count cycles, for VBlank may never come. *)
Uncertain == {"stopped", "off"}
Counting == loop \in Uncertain

StartIndexOfBurst == cycles_of_artificial_vblank

StartIndex == IF bursting THEN cycles_of_artificial_vblank ELSE 0

Call ==
  /\ loop = "none"
  /\ loop' = FirstLoop
  /\ c' = IF FirstLoop \in Uncertain THEN StartIndex ELSE 0
  /\ cycle_count' = 0
  /\ returned' = FALSE
  /\ IF returned \/ ~bursting THEN frame_cycles' = 0 /\ held' = 0
                             ELSE UNCHANGED <<frame_cycles, held>>
  /\ burst_cycles' = 0
  /\ UNCHANGED <<bursting, machine, cycles_of_artificial_vblank>>

(* The condition of the loop the call is in. *)
Stays ==
  \/ Counting /\ c < Artificial
  \/ loop = "vblank" /\ VBlank
  \/ loop = "visible" /\ ~VBlank

NextCount == (cycle_count + 1) % CountMod

Spent == bursting /\ NextCount > Burst

Return(done) ==
  /\ loop' = "none"
  /\ c' = 0
  /\ cycle_count' = 0
  /\ returned' = done

(* The burst has no cycles left. *)
Pause ==
  /\ Stays /\ Spent
  /\ cycles_of_artificial_vblank' = IF Counting THEN c ELSE cycles_of_artificial_vblank
  /\ Return(FALSE)
  /\ UNCHANGED <<bursting, machine, frame_cycles, burst_cycles, held>>

(* What ends the frame right after a cycle. *)
LeavesBlindToLcd == stopped' # (loop = "stopped")
LeavesBlindToStop == loop \in {"vblank", "visible"} /\ ~lcd'

Leaves ==
  \/ stopped' # (loop = "stopped")
  \/ loop \in {"vblank", "visible"} /\ ~lcd'

Cycle ==
  /\ Stays /\ ~Spent
  /\ CoreCycle
  /\ IF Leaves
       THEN /\ Return(TRUE)
            /\ cycles_of_artificial_vblank' = IF Counting /\ bursting THEN 0
                                              ELSE cycles_of_artificial_vblank
       ELSE /\ c' = IF Counting THEN c + 1 ELSE c
            /\ cycle_count' = IF bursting THEN NextCount ELSE cycle_count
            /\ UNCHANGED <<loop, returned, cycles_of_artificial_vblank>>

(* The loop is over: the frame too, unless the LCD is on. *)
Finish ==
  /\ loop # "none" /\ ~Stays
  /\ \/ loop = "stopped"
     \/ loop = "off" /\ ~lcd
     \/ loop = "visible"
  /\ Return(TRUE)
  /\ cycles_of_artificial_vblank' = IF Counting /\ bursting THEN 0 ELSE cycles_of_artificial_vblank
  /\ UNCHANGED <<bursting, machine, frame_cycles, burst_cycles, held>>

GoOn ==
  /\ loop # "none" /\ ~Stays
  /\ \/ loop = "off" /\ lcd
     \/ loop = "vblank"
  /\ loop' = RenderLoop
  /\ c' = 0
  /\ UNCHANGED <<bursting, machine, cycles_of_artificial_vblank, cycle_count,
                 returned, frame_cycles, burst_cycles, held>>

(* Between two calls the frontend may reset the core, which keeps the      *)
(* index of the burst before.                                              *)
Reset ==
  /\ loop = "none"
  /\ ResetMachine
  /\ returned' = TRUE
  /\ frame_cycles' = 0
  /\ held' = 0
  /\ UNCHANGED <<bursting, cycles_of_artificial_vblank, loop, c, cycle_count,
                 burst_cycles>>

(* It may also load the state of another frame, with the index saved in it. *)
LoadState ==
  /\ loop = "none"
  /\ stopped' \in BOOLEAN
  /\ lcd' \in BOOLEAN
  /\ dot' \in IF lcd' THEN 0 .. FrameDots - 1 ELSE {0}
  /\ cycles_of_artificial_vblank' \in 0 .. Artificial - 1
  /\ returned' = FALSE
  /\ frame_cycles' = cycles_of_artificial_vblank'
  /\ held' = 0
  /\ UNCHANGED <<bursting, loop, c, cycle_count, burst_cycles>>

Step == Call \/ Pause \/ Cycle \/ Finish \/ GoOn

Next == Step \/ Reset \/ LoadState

Spec == Init /\ [][Next]_vars

(* A game that nobody resets or loads. *)
GameSpec == Init /\ [][Step]_vars

(* The frontend calls again and again, and a call always goes on. *)
FairSpec == Spec /\ WF_vars(Step)

(***************************************************************************)
(* Properties.                                                             *)
(***************************************************************************)

(* A call never stalls the frontend: however the program turns the LCD on  *)
(* and off or stops, and however the bursts cut it, a frame is over within *)
(* the artificial cycles and one frame of the PPU, and takes longer only   *)
(* by the dots in which the PPU did not move on.                           *)
FrameBounded == frame_cycles <= FrameBound(held)

(* run_for_cycles runs no more cycles than it was asked for, so that the   *)
(* two consoles stay close: cycle_count must not wrap before it is spent.  *)
BurstBounded == bursting => burst_cycles <= Burst

(* No burst is overrun, and a frame only by the dots the PPU was held.     *)
RunsBounded == FrameBounded /\ BurstBounded

(* The assertions of the two functions: the loops that wait for VBlank run *)
(* with the LCD on, and nothing but the first loop runs while stopped.     *)
LoopsMatchMachine ==
  /\ loop \in {"vblank", "visible"} => lcd
  /\ loop # "none" => (stopped <=> loop = "stopped")

(* A frame that the counting loop of frame() ends was run for as many      *)
(* cycles as an entire frame takes to render ("quit if the LCD is still    *)
(* disabled even after an entire frame"); it has no index to remember.     *)
WholeWithoutBursts ==
  [][~bursting /\ Counting /\ ~Stays /\ returned' => frame_cycles >= Artificial]_vars

(* The frontend gets its frames, unless it loads states for ever. *)
FrameReturns == []<>returned \/ []<><<LoadState>>_vars

=============================================================================
