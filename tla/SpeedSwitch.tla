----------------------------- MODULE SpeedSwitch ----------------------------
(***************************************************************************)
(* KEY1 and the controller of the CGB speed switch                         *)
(* (docboy/speedswitch).  The controller ticks at t1 and t3 of every cycle *)
(* of the core, at both speeds.                                            *)
(***************************************************************************)
EXTENDS Interrupts

CONSTANTS
  ExitDouble,  \* controller ticks the CPU stays halted entering double speed
  ExitSingle   \* the same, returning to single speed

(* 16386 * 2 and 16384 * 4 + 2 in the code: both even, and longer than     *)
(* every block the switch imposes.                                         *)
ASSUME SpeedSwitchAssumption ==
  /\ ExitDouble \in Nat /\ ExitDouble > 4 /\ ExitDouble % 2 = 0
  /\ ExitSingle \in Nat /\ ExitSingle > 4 /\ ExitSingle % 2 = 0

VARIABLES
  halted,           \* the CPU's flag, which the controller holds by reference
  switch_speed,     \* KEY1 bit 0: armed
  current_speed,    \* KEY1 bit 7: TRUE in double speed
  enter_countdown,  \* ticks until current_speed flips
  exit_countdown,   \* ticks until the CPU is unhalted
  timers_block, interrupts_block, dma_block,  \* [blocked, countdown]
  ppu_block,                                  \* the PPU loses one dot
  interrupts_double_speed                     \* which timing table applies

blocks == <<timers_block, interrupts_block, dma_block, ppu_block, interrupts_double_speed>>
speedVars == <<switch_speed, current_speed, enter_countdown, exit_countdown, blocks>>

Block == [blocked : BOOLEAN, countdown : 0 .. 4]
Unblocked == [blocked |-> FALSE, countdown |-> 0]

switching_speed == exit_countdown > 0

(* IE & IF & 0x1F *)
PendingInterrupts == ienable \cap iflag \cap InterruptType

SpeedTypeOK ==
  /\ halted \in BOOLEAN
  /\ switch_speed \in BOOLEAN
  /\ current_speed \in BOOLEAN
  /\ enter_countdown \in 0 .. 2
  /\ exit_countdown \in Nat
  /\ timers_block \in Block
  /\ interrupts_block \in Block
  /\ dma_block \in Block
  /\ ppu_block \in BOOLEAN
  /\ interrupts_double_speed \in BOOLEAN

ResetSpeed ==
  /\ halted = FALSE
  /\ switch_speed = FALSE
  /\ current_speed = FALSE
  /\ enter_countdown = 0
  /\ exit_countdown = 0
  /\ timers_block = Unblocked
  /\ interrupts_block = Unblocked
  /\ dma_block = Unblocked
  /\ ppu_block = FALSE
  /\ interrupts_double_speed = FALSE

(* Ticks from the execution of STOP to the change of speed. *)
EnterTicksOffByOne == 3

EnterTicks == 2

(* SpeedSwitchController::switch_speed, called by STOP. *)
SwitchSpeed ==
  /\ halted' = TRUE
  /\ switch_speed' = FALSE
  /\ enter_countdown' = EnterTicks
  /\ interrupts_double_speed' = ~current_speed
  /\ UNCHANGED current_speed
  /\ \/ /\ ~current_speed
        /\ exit_countdown' = ExitDouble
        /\ interrupts_block' = [blocked |-> TRUE, countdown |-> 3]
        /\ timers_block' = [blocked |-> TRUE, countdown |-> 4]
        /\ dma_block' = [dma_block EXCEPT !.countdown = 3]
        /\ UNCHANGED ppu_block
     \/ /\ current_speed
        /\ exit_countdown' = ExitSingle
        /\ timers_block' = [blocked |-> TRUE, countdown |-> 2]
        /\ dma_block' = [dma_block EXCEPT !.countdown = 1]
        /\ ppu_block' = TRUE
        /\ UNCHANGED interrupts_block

(* One step of a countdown that toggles the block when it ends. *)
CountDown(block) ==
  IF block.countdown = 0 THEN block
  ELSE IF block.countdown = 1 THEN [blocked |-> ~block.blocked, countdown |-> 0]
  ELSE [block EXCEPT !.countdown = @ - 1]

(* The block of interrupts ends one tick early if one is already pending. *)
CountDownInterrupts(block) ==
  IF block.countdown = 0 THEN block
  ELSE IF block.countdown = 1 \/ (block.countdown = 2 /\ PendingInterrupts # {})
    THEN Unblocked
    ELSE [block EXCEPT !.countdown = @ - 1]

(* The exit countdown of a running CPU, woken by an interrupt, is dropped. *)
ExitOnlyBeforeChange == IF enter_countdown > 0 THEN exit_countdown - 1 ELSE exit_countdown

ExitAfterTick == IF switching_speed /\ halted THEN exit_countdown - 1 ELSE 0

(* The DMA block once the exit of the switch has been looked at: extended  *)
(* by a machine cycle at the natural exit, lifted at once by a premature   *)
(* one.                                                                    *)
DmaBlockKeptOnWake ==
  IF exit_countdown = 1 /\ halted THEN [dma_block EXCEPT !.countdown = 2] ELSE dma_block

DmaBlockAfterExit ==
  IF ~switching_speed THEN dma_block
  ELSE IF ~halted THEN Unblocked
  ELSE IF exit_countdown = 1 THEN [dma_block EXCEPT !.countdown = 2]
  ELSE dma_block

(***************************************************************************)
(* SpeedSwitchController::tick.  When the timers' block ends the controller *)
(* ticks and resets the divider itself: types is what that raised.         *)
(***************************************************************************)
TicksTimers == timers_block.countdown = 1

SpeedTick(types) ==
  /\ enter_countdown' = IF enter_countdown = 0 THEN 0 ELSE enter_countdown - 1
  /\ current_speed' = (current_speed # (enter_countdown = 1))
  /\ exit_countdown' = ExitAfterTick
  /\ halted' = (halted /\ exit_countdown # 1)
  /\ dma_block' = CountDown(DmaBlockAfterExit)
  /\ interrupts_block' = CountDownInterrupts(interrupts_block)
  /\ timers_block' = CountDown(timers_block)
  /\ ppu_block' = FALSE
  /\ iflag' = Raised(types)
  /\ UNCHANGED <<switch_speed, interrupts_double_speed, ienable, block_interrupts>>

=============================================================================
