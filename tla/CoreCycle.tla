----------------------------- MODULE CoreCycle -----------------------------
(***************************************************************************)
(* The order in which Core::tick_t0 to tick_t3 (docboy/core/core.cpp) tick *)
(* the CPU, the speed switch, the devices that interrupt and STOP, with    *)
(* the player's keys handled between two cycles.  What raises an interrupt *)
(* inside the PPU, the timers and the serial port is left open; no HDMA    *)
(* transfer holds the CPU.                                                 *)
(***************************************************************************)
EXTENDS Cpu

VARIABLES
  t,     \* the T-cycle of the core, 0 .. 3
  stage  \* the call of that T-cycle that comes next

scheduleVars == <<t, stage>>
interruptVars == <<iflag, ienable, block_interrupts>>
vars == <<scheduleVars, interruptVars, halted, speedVars, joypadVars, stopVars, cpuVars>>

Stages == {"input", "check", "service", "execute", "flush", "switch", "devices"}

TypeOK ==
  /\ t \in 0 .. 3
  /\ stage \in Stages
  /\ InterruptsTypeOK
  /\ SpeedTypeOK
  /\ JoypadTypeOK
  /\ StopTypeOK
  /\ CpuTypeOK

Init ==
  /\ t = 0
  /\ stage = "input"
  /\ ResetInterrupts
  /\ ResetSpeed
  /\ ResetJoypad
  /\ ResetStop
  /\ ResetCpu

(* The calls of the T-cycle that follow those of the CPU. *)
Odd == t \in {1, 3}
AfterCpu == IF Odd THEN "switch" ELSE "devices"
AfterMicroop == IF current_speed THEN "flush" ELSE AfterCpu

GoTo(next) == stage' = next /\ UNCHANGED t

EndTick ==
  /\ t' = (t + 1) % 4
  /\ stage' = IF t = 3 THEN "input" ELSE "check"

(* The frontend sets keys before a cycle starts, as often as it likes. *)
PressOrRelease ==
  /\ stage = "input"
  /\ \E g \in Groups : SetKeyState(g)
  /\ UNCHANGED <<scheduleVars, halted, speedVars, stopVars, cpuVars>>

StartCycle ==
  /\ stage = "input"
  /\ GoTo("check")
  /\ UNCHANGED <<interruptVars, halted, speedVars, joypadVars, stopVars, cpuVars>>

(* While stopped, the stop controller is all that ticks. *)
Stopped ==
  /\ stage = "check" /\ stopped
  /\ \E types \in SUBSET (Sources \cap ({VBlank, Stat} \cup
                            IF t = 3 /\ AnyKeyRead THEN {Timer} ELSE {})) :
       StoppedTick(t, types)
  /\ EndTick
  /\ UNCHANGED <<halted, speedVars, joypadVars, cpuVars>>

CpuCheck ==
  /\ stage = "check" /\ ~stopped
  /\ UNCHANGED <<interruptVars, halted, speedVars, joypadVars, stopVars>>
  /\ CheckInterrupt
  /\ GoTo(IF MicroopDue' THEN "service" ELSE IF FlushDue' THEN "flush" ELSE AfterCpu)

CpuService ==
  /\ stage = "service"
  /\ Service
  /\ GoTo(IF halted' THEN AfterMicroop ELSE "execute")
  /\ UNCHANGED <<interruptVars, speedVars, joypadVars, stopVars>>

CpuExecute ==
  /\ stage = "execute"
  /\ Execute
  /\ GoTo(AfterMicroop)

CpuFlush ==
  /\ stage = "flush"
  /\ FlushWrite
  /\ GoTo(AfterCpu)
  /\ UNCHANGED <<halted, current_speed, enter_countdown, exit_countdown, blocks,
                 pressed, stopVars, phase, ime, istate, remaining, fetching, op,
                 counter, pushed, shadow>>

TickSpeedSwitch ==
  /\ stage = "switch"
  /\ \E types \in SUBSET (Sources \cap IF TicksTimers THEN {Timer} ELSE {}) :
       SpeedTick(types)
  /\ GoTo("devices")
  /\ UNCHANGED <<joypadVars, stopVars, cpuVars>>

(* The devices raise interrupts, then FF0F is released and STOP entered.   *)
(* Timers and serial port tick with the CPU clock, the PPU at every T.     *)
ClockTick == t = 3 \/ (t = 1 /\ current_speed)

Raising ==
  Sources \cap
    ((IF ppu_block THEN {} ELSE {VBlank, Stat}) \cup
     (IF ClockTick /\ ~timers_block.blocked THEN {Timer} ELSE {}) \cup
     (IF ClockTick THEN {Serial} ELSE {}))

TickDevices ==
  /\ stage = "devices"
  /\ \E types \in SUBSET Raising : iflag' = Raised(types)
  /\ block_interrupts' = (block_interrupts /\ t # 3)
  /\ IF ClockTick THEN StopTick ELSE UNCHANGED stopVars
  /\ EndTick
  /\ UNCHANGED <<ienable, halted, speedVars, joypadVars, cpuVars>>

Tick ==
  \/ StartCycle
  \/ Stopped
  \/ CpuCheck
  \/ CpuService
  \/ CpuExecute
  \/ CpuFlush
  \/ TickSpeedSwitch
  \/ TickDevices

Next == Tick \/ PressOrRelease

Spec == Init /\ [][Next]_vars

(* The loops of frame() and run_for_cycles() wait for nothing. *)
FairSpec == Spec /\ WF_vars(Tick)

(***************************************************************************)
(* Safety.                                                                 *)
(***************************************************************************)

(* The position of the CPU in its machine cycle fits the T-cycle and the   *)
(* speed at every tick, across speed switches and STOP: the assertions on  *)
(* phase in tick_single_speed_0 to _3 and tick_double_speed_0 and _1.      *)
PhaseMatchesTick ==
  stage = "check" /\ ~stopped =>
    IF current_speed THEN phase = t % 2 ELSE phase % 2 = t % 2

(* check_interrupt never meets a CPU that runs while its speed switch has  *)
(* not been found over, which would select the wrong timing table.         *)
SwitchingWhileHalted ==
  stage = "check" /\ ~stopped /\ SeesInterrupt /\ switching_speed => halted

(* No interrupt is seen in a situation whose timing the tables declare     *)
(* impossible: "this should be fixed by the developer".                    *)
TimingKnown ==
  stage = "check" /\ ~stopped /\ SeesInterrupt => RemainingTicks(CheckPosition) \in 1 .. 3

(* A halted CPU about to wake still has the interrupt that wakes it.       *)
NoSpuriousWake == halted /\ istate = "Pending" => PendingInterrupts # {}

(* A service jumps to 0000 only if pushing the high byte of PC overwrote   *)
(* IE or IF: nothing else can take the interrupt back once it is served.   *)
CancelledOnlyByPush ==
  istate = "Serving" /\ counter <= 3 /\ PendingInterrupts = {} => pushed \in {"IE", "IF"}

(* The instruction after an EI runs to its end before any service.         *)
EiDelay == istate = "Serving" => ~shadow

(* The interrupts are blocked only while a switch holds the CPU halted.    *)
InterruptsBlockedOnlyInSwitch == interrupts_block.blocked => halted /\ switching_speed

(* At any tick of a halt or of a switch an interrupt is met at a point the *)
(* tables know, wakes the CPU for good and is taken back by a push only.   *)
InterruptsInOrder ==
  /\ SwitchingWhileHalted
  /\ TimingKnown
  /\ NoSpuriousWake
  /\ CancelledOnlyByPush
  /\ InterruptsBlockedOnlyInSwitch

(* A speed switch starts only when nothing of the previous one is left.    *)
NoOverlappingSwitch ==
  [][enter_countdown' > enter_countdown =>
       enter_countdown = 0 /\ ~switching_speed /\ dma_block = Unblocked]_vars

(* What one switch leaves, an interrupt that cuts it short included, is    *)
(* over before the next one starts: the DMA is blocked only while a switch *)
(* lasts or for the countdown after it, and the natural end of a switch    *)
(* finds it blocked.                                                       *)
SwitchesKeptApart ==
  /\ [](/\ dma_block.blocked => switching_speed \/ dma_block.countdown > 0
        /\ stage = "switch" /\ exit_countdown = 1 /\ halted => dma_block.blocked)
  /\ NoOverlappingSwitch

(* STOP mode does not outlive a cycle in which a selected key is down.     *)
StopSeesEveryPress ==
  [][stage # "input" /\ stage' = "input" /\ stopped' => pressed' \cap selected' = {}]_vars

(***************************************************************************)
(* Liveness.                                                               *)
(***************************************************************************)

(* A halted CPU with an interrupt pending wakes, whatever its IME.         *)
HaltWakes == halted /\ PendingInterrupts # {} ~> ~halted

(* A speed switch always ends.                                             *)
SwitchEnds == switching_speed ~> ~switching_speed

(* Neither a halt nor a switch holds the CPU for ever.                     *)
NothingHoldsCpu == HaltWakes /\ SwitchEnds

=============================================================================
