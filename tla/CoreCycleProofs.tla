-------------------------- MODULE CoreCycleProofs --------------------------
(***************************************************************************)
(* Proofs about the schedule of the core, for every length of the speed    *)
(* switch, every set of opcodes, targets and interrupt sources.            *)
(***************************************************************************)
EXTENDS CoreCycle, TLAPS

(***************************************************************************)
(* The position of the CPU in its machine cycle.  It has the parity of the *)
(* T-cycle; what makes a change of speed safe is that a switch to double   *)
(* speed is found, by the tick that completes it, at position 0.           *)
(***************************************************************************)
BetweenTicks == stage \in {"input", "check"}

PhaseTypeOK ==
  /\ t \in 0 .. 3
  /\ stage \in Stages
  /\ phase \in 0 .. 3
  /\ enter_countdown \in 0 .. 2
  /\ current_speed \in BOOLEAN
  /\ stopped \in BOOLEAN
  /\ current_speed => phase \in {0, 1}

StageFitsPhase ==
  /\ stage = "input" => t = 0
  /\ stage \in {"service", "execute"} => phase = 1
  /\ stage = "flush" => phase \in {1, 2}
  /\ stage = "switch" => t \in {1, 3}
  /\ stopped => BetweenTicks

Parity ==
  /\ BetweenTicks /\ ~stopped => (phase \in {0, 2} <=> t \in {0, 2})
  /\ ~BetweenTicks => (phase \in {0, 2} <=> t \in {1, 3})
  /\ stopped => phase \in {0, 2}

EnterAligned ==
  ~current_speed =>
    /\ enter_countdown = 2 =>
         phase = 1 \/ (phase = 2 /\ stage \in {"flush", "switch"})
    /\ enter_countdown = 1 =>
         \/ phase = 2 /\ stage \notin {"flush", "switch"}
         \/ phase = 3
         \/ phase = 0 /\ stage = "switch"

PhaseInv == PhaseTypeOK /\ StageFitsPhase /\ Parity /\ EnterAligned

LEMMA PhaseInit == Init => PhaseInv
<1> SUFFICES ASSUME Init PROVE PhaseInv
  OBVIOUS
<1>1. /\ t = 0 /\ stage = "input" /\ phase = 0 /\ enter_countdown = 0
      /\ current_speed = FALSE /\ stopped = FALSE
  BY DEF Init, ResetCpu, ResetSpeed, ResetStop
<1>2. PhaseTypeOK
  <2>1. current_speed \in BOOLEAN /\ stopped \in BOOLEAN /\ ~current_speed
    BY <1>1, Zenon
  <2>2. t \in 0 .. 3 /\ phase \in 0 .. 3 /\ enter_countdown \in 0 .. 2 /\ stage \in Stages
    BY <1>1 DEF Stages
  <2> QED BY <2>1, <2>2 DEF PhaseTypeOK
<1>3. StageFitsPhase /\ Parity /\ EnterAligned
  BY <1>1 DEF StageFitsPhase, Parity, EnterAligned, BetweenTicks
<1> QED BY <1>2, <1>3 DEF PhaseInv

(* A micro-operation leaves the position alone and may start a switch. *)
LEMMA MicroopPhase ==
  ASSUME NEW o, NEW c, Microop(o, c)
  PROVE  /\ UNCHANGED <<current_speed, stopped>>
         /\ enter_countdown' \in {enter_countdown, 2}
<1>1. CASE StopM0
  BY <1>1 DEF StopM0, SwitchSpeed, EnterTicks, RequestStop, speedVars, blocks, stopVars
<1>2. CASE UNCHANGED <<speedVars, stopVars>>
  BY <1>2 DEF speedVars, stopVars
<1> QED
  BY <1>1, <1>2 DEF Microop, NopM0, CbM0, DiM0, EiM0, HaltM0, LdhMicroop, RetiMicroop

LEMMA PhaseCheck ==
  ASSUME PhaseInv, CpuCheck
  PROVE  PhaseInv'
<1> USE DEF PhaseInv, PhaseTypeOK, StageFitsPhase, Parity, EnterAligned, BetweenTicks, Stages
<1>1. /\ UNCHANGED <<t, enter_countdown, current_speed, stopped>>
      /\ stage = "check" /\ ~stopped
  BY DEF CpuCheck, GoTo, speedVars, stopVars
<1>2. phase' = IF current_speed THEN 1 - phase ELSE IF phase = 3 THEN 0 ELSE phase + 1
  <2>1. phase' = (phase + 1) % (IF current_speed THEN 2 ELSE 4)
    BY DEF CpuCheck, CheckInterrupt
  <2>2. CASE current_speed
    BY <2>1, <2>2
  <2>3. CASE ~current_speed
    BY <2>1, <2>3
  <2> QED BY <2>2, <2>3
<1>3. stage' = IF phase' = 1 THEN "service"
               ELSE IF ~current_speed /\ phase' = 2 THEN "flush"
               ELSE IF t \in {1, 3} THEN "switch" ELSE "devices"
  BY <1>1, <1>2 DEF CpuCheck, GoTo, MicroopDue, FlushDue, AfterCpu, Odd
<1> QED BY <1>1, <1>2, <1>3

LEMMA PhaseSwitch ==
  ASSUME PhaseInv, TickSpeedSwitch
  PROVE  PhaseInv'
<1> USE DEF PhaseInv, PhaseTypeOK, StageFitsPhase, Parity, EnterAligned, BetweenTicks, Stages
<1>1. /\ UNCHANGED <<t, phase, stopped>>
      /\ stage = "switch" /\ stage' = "devices"
      /\ enter_countdown' = IF enter_countdown = 0 THEN 0 ELSE enter_countdown - 1
      /\ current_speed' = (current_speed # (enter_countdown = 1))
  BY DEF TickSpeedSwitch, SpeedTick, GoTo, stopVars, cpuVars
<1>2. phase \in {0, 2}
  BY <1>1
<1>3. CASE enter_countdown = 1
  <2>1. current_speed' = ~current_speed /\ enter_countdown' = 0
    BY <1>1, <1>3
  <2>2. phase = 0
    BY <1>1, <1>2, <1>3
  <2> QED BY <1>1, <2>1, <2>2
<1>4. CASE enter_countdown # 1
  <2>1. current_speed' = current_speed
    BY <1>1, <1>4
  <2> QED BY <1>1, <1>2, <1>4, <2>1
<1> QED BY <1>3, <1>4

LEMMA PhaseStep == PhaseInv /\ [Next]_vars => PhaseInv'
<1> SUFFICES ASSUME PhaseInv, [Next]_vars PROVE PhaseInv'
  OBVIOUS
<1> USE DEF PhaseInv, PhaseTypeOK, StageFitsPhase, Parity, EnterAligned, BetweenTicks, Stages
<1>1. CASE PressOrRelease \/ UNCHANGED vars
  BY <1>1 DEF PressOrRelease, vars, scheduleVars, speedVars, stopVars, cpuVars
<1>2. CASE StartCycle
  BY <1>2 DEF StartCycle, GoTo, speedVars, stopVars, cpuVars
<1>3. CASE Stopped
  <2>1. UNCHANGED <<phase, enter_countdown, current_speed>> /\ stage = "check" /\ stopped
    BY <1>3 DEF Stopped, speedVars, cpuVars
  <2>2. /\ stopped' = (t = 3 => ~AnyKeyRead)
        /\ t' = (t + 1) % 4
        /\ stage' = IF t = 3 THEN "input" ELSE "check"
    BY <1>3 DEF Stopped, StoppedTick, EndTick
  <2>3. t' = IF t = 3 THEN 0 ELSE t + 1
    BY <2>2
  <2>4. stopped' \in BOOLEAN /\ (t # 3 => stopped')
    BY <2>2
  <2>5. stage' = IF t = 3 THEN "input" ELSE "check"
    BY <2>2
  <2> QED BY <2>1, <2>3, <2>4, <2>5
<1>4. CASE CpuCheck
  BY <1>4, PhaseCheck
<1>5. CASE CpuService
  <2>1. /\ UNCHANGED <<t, phase, enter_countdown, current_speed, stopped>>
        /\ stage = "service"
        /\ stage' \in {"execute", "flush", "devices"}
    BY <1>5 DEF CpuService, Service, GoTo, speedVars, stopVars, AfterMicroop, AfterCpu, Odd
  <2> QED BY <2>1
<1>6. CASE CpuExecute
  <2>1. /\ UNCHANGED <<t, phase>>
        /\ stage = "execute"
        /\ stage' \in {"flush", "devices"}
    BY <1>6 DEF CpuExecute, Execute, GoTo, AfterMicroop, AfterCpu, Odd
  <2>2. /\ UNCHANGED <<current_speed, stopped>>
        /\ enter_countdown' \in {enter_countdown, 2}
    BY <1>6, MicroopPhase DEF CpuExecute, Execute
  <2> QED BY <2>1, <2>2
<1>7. CASE CpuFlush
  <2>1. /\ UNCHANGED <<t, phase, enter_countdown, current_speed, stopped>>
        /\ stage = "flush"
        /\ stage' = IF t \in {1, 3} THEN "switch" ELSE "devices"
    BY <1>7 DEF CpuFlush, GoTo, stopVars, AfterCpu, Odd
  <2> QED BY <2>1
<1>8. CASE TickSpeedSwitch
  BY <1>8, PhaseSwitch
<1>9. CASE TickDevices
  <2>1. UNCHANGED <<phase, enter_countdown, current_speed>> /\ stage = "devices" /\ ~stopped
    BY <1>9 DEF TickDevices, speedVars, cpuVars
  <2>2. /\ stopped' = (t \in {1, 3} /\ stopped') /\ stopped' \in BOOLEAN
        /\ t' = (t + 1) % 4
        /\ stage' = IF t = 3 THEN "input" ELSE "check"
    BY <1>9, <2>1 DEF TickDevices, StopTick, ClockTick, EndTick, stopVars
  <2>3. t' = IF t = 3 THEN 0 ELSE t + 1
    BY <2>2
  <2> QED BY <2>1, <2>2, <2>3
<1> QED
  BY <1>1, <1>2, <1>3, <1>4, <1>5, <1>6, <1>7, <1>8, <1>9 DEF Next, Tick

(* The CPU is always where its T-cycle and speed expect it.                *)
THEOREM PhaseAlwaysMatches == Spec => []PhaseMatchesTick
<1>1. PhaseInv => PhaseMatchesTick
  BY DEF PhaseInv, PhaseTypeOK, Parity, BetweenTicks, PhaseMatchesTick
<1> QED BY <1>1, PhaseInit, PhaseStep, PTL DEF Spec

(***************************************************************************)
(* The block of the DMA.  A switch cannot start while another one, or the  *)
(* block it left, lasts: KEY1 is disarmed by the first, and to arm it      *)
(* again takes more micro-operations than run before the block ends.       *)
(***************************************************************************)

(* Between the micro-operation of a machine cycle and the tick of the      *)
(* controller that follows it.                                             *)
AfterMicroOperation ==
  \/ phase = 1 /\ stage \in {"devices", "check"}
  \/ stage \in {"flush", "switch"}

Busy == switching_speed \/ dma_block # Unblocked

DmaTypeOK ==
  /\ dma_block \in [blocked : BOOLEAN, countdown : Nat]
  /\ exit_countdown \in Nat
  /\ switch_speed \in BOOLEAN

(* A write is flushed before the controller's tick. *)
WriteFlushed ==
  io # Idle =>
    \/ stage = "flush"
    \/ ~current_speed /\ phase = 1 /\ stage \in {"devices", "check"}

BusyIsQuiet ==
  Busy =>
    /\ ~switch_speed
    /\ io = Idle
    /\ ~AfterMicroOperation => counter = 0

SwitchHoldsCpu ==
  /\ stage = "execute" => ~halted
  /\ switching_speed =>
       /\ halted \/ AfterMicroOperation \/ stage = "execute"
       /\ halted => counter = 0

BlockFitsExit ==
  /\ ~switching_speed /\ dma_block # Unblocked =>
       dma_block.blocked /\ dma_block.countdown = 1
  /\ switching_speed =>
       \/ dma_block.blocked /\ dma_block.countdown = 0
       \/ /\ ~dma_block.blocked
          /\ dma_block.countdown > 0 /\ dma_block.countdown < exit_countdown

EnterWithinSwitch ==
  /\ enter_countdown = 2 => halted /\ exit_countdown > 1 /\ AfterMicroOperation
  /\ enter_countdown = 1 => switching_speed

DmaInv ==
  /\ PhaseInv
  /\ DmaTypeOK
  /\ WriteFlushed
  /\ BusyIsQuiet
  /\ SwitchHoldsCpu
  /\ BlockFitsExit
  /\ EnterWithinSwitch

LEMMA DmaInit == Init => DmaInv
<1> SUFFICES ASSUME Init PROVE DmaInv
  OBVIOUS
<1>1. /\ exit_countdown = 0 /\ enter_countdown = 0 /\ dma_block = Unblocked
      /\ io = Idle /\ stage = "input"
  BY DEF Init, ResetCpu, ResetSpeed
<1>2. ~switching_speed /\ ~Busy
  BY <1>1 DEF switching_speed, Busy
<1>3. switch_speed \in BOOLEAN
  BY Zenon DEF Init, ResetSpeed
<1>4. DmaTypeOK
  BY <1>1, <1>3 DEF DmaTypeOK, Unblocked
<1> QED
  BY <1>1, <1>2, <1>4, PhaseInit
     DEF DmaInv, WriteFlushed, BusyIsQuiet, SwitchHoldsCpu, BlockFitsExit, EnterWithinSwitch

(* What a micro-operation does to the state of the invariant. *)
MicroopKeeps ==
  /\ UNCHANGED <<dma_block, exit_countdown, switch_speed, enter_countdown>>
  /\ halted' # halted => counter' = 0

LEMMA MicroopSwitch ==
  ASSUME NEW o, NEW c, Microop(o, c)
  PROVE  \/ MicroopKeeps
         \/ switch_speed /\ SwitchSpeed /\ counter' = 0 /\ io' = io
<1>1. CASE StopM0
  BY <1>1 DEF StopM0, MicroopKeeps, speedVars, blocks
<1>2. CASE HaltM0
  BY <1>2 DEF HaltM0, EndInstruction, FetchAfter, MicroopKeeps, speedVars, blocks
<1>3. CASE UNCHANGED halted /\ UNCHANGED speedVars
  BY <1>3 DEF MicroopKeeps, speedVars, blocks
<1> QED
  BY <1>1, <1>2, <1>3 DEF Microop, NopM0, CbM0, DiM0, EiM0, LdhMicroop, RetiMicroop

(* The first micro-operation of an instruction writes nothing. *)
LEMMA FirstMicroopWritesNothing ==
  ASSUME NEW o, Microop(o, 0)
  PROVE  io' = io
BY DEF Microop, NopM0, EndInstruction, CbM0, DiM0, EiM0, HaltM0, StopM0, LdhMicroop,
       RetiMicroop, IsrMicroop

LEMMA DmaExecute ==
  ASSUME DmaInv, CpuExecute, PhaseInv'
  PROVE  DmaInv'
<1> USE DEF DmaInv
<1>1. /\ stage = "execute" /\ phase = 1 /\ phase' = phase
      /\ stage' = IF current_speed THEN "flush" ELSE AfterCpu
      /\ ~AfterMicroOperation
      /\ current_speed' = current_speed
  <2>1. stage = "execute" /\ phase = 1 /\ stage' = AfterMicroop /\ phase' = phase
    BY DEF CpuExecute, Execute, GoTo, PhaseInv, StageFitsPhase
  <2>2. current_speed' = current_speed
    BY MicroopPhase DEF CpuExecute, Execute
  <2> QED BY <2>1, <2>2 DEF AfterMicroop, AfterMicroOperation
<1>2. AfterCpu = "devices"
  BY <1>1 DEF AfterCpu, Odd, PhaseInv, Parity, PhaseTypeOK, BetweenTicks
<1>3. AfterMicroOperation' /\ stage' # "execute"
  BY <1>1, <1>2 DEF AfterMicroOperation
<1>4. io = Idle /\ ~halted
  BY <1>1 DEF WriteFlushed, SwitchHoldsCpu
<1>5. WriteFlushed'
  BY <1>1, <1>2 DEF WriteFlushed, PhaseInv, PhaseTypeOK
<1>6. \/ MicroopKeeps
      \/ switch_speed /\ SwitchSpeed /\ counter' = 0 /\ io' = io
  BY MicroopSwitch DEF CpuExecute, Execute
<1>7. CASE MicroopKeeps
  <2>1. /\ UNCHANGED <<dma_block, exit_countdown, switch_speed, enter_countdown>>
        /\ halted' => counter' = 0
    BY <1>4, <1>7 DEF MicroopKeeps
  <2>2. Busy' = Busy /\ switching_speed' = switching_speed
    BY <2>1 DEF Busy, switching_speed
  <2>3. DmaTypeOK' /\ BlockFitsExit'
    BY <2>1, <2>2 DEF DmaTypeOK, BlockFitsExit
  <2>4. ASSUME Busy PROVE io' = Idle
    <3>1. counter = 0
      BY <2>4, <1>1 DEF BusyIsQuiet
    <3>2. io' = io
      BY <3>1, FirstMicroopWritesNothing DEF CpuExecute, Execute
    <3> QED BY <1>4, <3>2
  <2>5. BusyIsQuiet'
    BY <2>1, <2>2, <2>4, <1>3 DEF BusyIsQuiet
  <2>6. SwitchHoldsCpu'
    BY <2>1, <1>3 DEF SwitchHoldsCpu
  <2>7. EnterWithinSwitch'
    BY <2>1, <2>2, <1>1, <1>3 DEF EnterWithinSwitch
  <2> QED BY <2>3, <2>5, <2>6, <2>7, <1>5
<1>8. CASE switch_speed /\ SwitchSpeed /\ counter' = 0 /\ io' = io
  <2>1. ~switching_speed /\ dma_block = Unblocked
    BY <1>8 DEF BusyIsQuiet, Busy
  <2>2. /\ halted' /\ ~switch_speed' /\ switch_speed' \in BOOLEAN
        /\ enter_countdown' = 2
        /\ \/ exit_countdown' = ExitDouble /\ dma_block' = [dma_block EXCEPT !.countdown = 3]
           \/ exit_countdown' = ExitSingle /\ dma_block' = [dma_block EXCEPT !.countdown = 1]
    BY <1>8 DEF SwitchSpeed, EnterTicks
  <2>3. /\ exit_countdown' \in Nat /\ exit_countdown' > 4
        /\ dma_block' \in [blocked : BOOLEAN, countdown : {1, 3}]
        /\ ~dma_block'.blocked
    BY <2>1, <2>2, SpeedSwitchAssumption DEF Unblocked
  <2>4. DmaTypeOK' /\ BlockFitsExit'
    BY <2>2, <2>3 DEF DmaTypeOK, BlockFitsExit, switching_speed
  <2>5. BusyIsQuiet'
    BY <2>2, <1>3, <1>4, <1>8 DEF BusyIsQuiet
  <2>6. SwitchHoldsCpu' /\ EnterWithinSwitch'
    BY <2>2, <2>3, <1>3, <1>8 DEF SwitchHoldsCpu, EnterWithinSwitch
  <2> QED BY <2>4, <2>5, <2>6, <1>5
<1> QED BY <1>6, <1>7, <1>8

(* The last step of a countdown toggles the block. *)
LEMMA CountDownLast ==
  ASSUME NEW block \in [blocked : BOOLEAN, countdown : Nat], block.countdown = 1
  PROVE  /\ CountDown(block) \in [blocked : BOOLEAN, countdown : Nat]
         /\ CountDown(block).countdown = 0
         /\ CountDown(block).blocked <=> ~block.blocked
<1> DEFINE toggled == ~block.blocked
<1>1. CountDown(block) = [blocked |-> toggled, countdown |-> 0]
  BY DEF CountDown
<1>2. toggled \in BOOLEAN /\ (toggled <=> ~block.blocked)
  BY Zenon
<1> HIDE DEF toggled
<1>3. /\ CountDown(block).blocked = toggled /\ CountDown(block).countdown = 0
      /\ CountDown(block) \in [blocked : BOOLEAN, countdown : Nat]
  BY <1>1, <1>2
<1> QED BY <1>2, <1>3

LEMMA DmaTick ==
  ASSUME DmaInv, TickSpeedSwitch, PhaseInv'
  PROVE  DmaInv'
<1> USE DEF DmaInv
<1>1. /\ stage = "switch" /\ stage' = "devices" /\ UNCHANGED <<phase, switch_speed, io, counter>>
      /\ enter_countdown' = IF enter_countdown = 0 THEN 0 ELSE enter_countdown - 1
      /\ exit_countdown' = ExitAfterTick
      /\ halted' = (halted /\ exit_countdown # 1)
      /\ dma_block' = CountDown(DmaBlockAfterExit)
  BY DEF TickSpeedSwitch, SpeedTick, GoTo, cpuVars
<1>2. ~AfterMicroOperation' /\ AfterMicroOperation /\ phase \in {0, 2}
  BY <1>1 DEF AfterMicroOperation, PhaseInv, Parity, PhaseTypeOK, StageFitsPhase, BetweenTicks
<1>3. io = Idle /\ WriteFlushed'
  BY <1>1, <1>2 DEF WriteFlushed
<1>4. CASE ~switching_speed
  <2>1. exit_countdown' = 0 /\ dma_block' = CountDown(dma_block) /\ enter_countdown = 0
    BY <1>1, <1>4 DEF ExitAfterTick, DmaBlockAfterExit, EnterWithinSwitch, PhaseInv,
       PhaseTypeOK, DmaTypeOK, switching_speed
  <2>2. dma_block' = Unblocked
    <3>1. CASE dma_block = Unblocked
      BY <2>1, <3>1 DEF CountDown, Unblocked
    <3>2. CASE dma_block.blocked /\ dma_block.countdown = 1
      <4>1. /\ dma_block' \in [blocked : BOOLEAN, countdown : Nat]
            /\ dma_block'.countdown = 0 /\ ~dma_block'.blocked
        BY <2>1, <3>2, CountDownLast DEF DmaTypeOK
      <4> QED BY <4>1 DEF Unblocked
    <3> QED BY <1>4, <3>1, <3>2 DEF BlockFitsExit
  <2>3. ~Busy' /\ ~switching_speed' /\ enter_countdown' = 0
    BY <1>1, <2>1, <2>2 DEF Busy, switching_speed
  <2>4. DmaTypeOK'
    BY <1>1, <2>1, <2>2 DEF DmaTypeOK, Unblocked
  <2> QED
    BY <1>1, <1>3, <2>2, <2>3, <2>4
       DEF BusyIsQuiet, SwitchHoldsCpu, BlockFitsExit, EnterWithinSwitch
<1>5. CASE switching_speed /\ ~halted
  <2>1. exit_countdown' = 0 /\ dma_block' = Unblocked /\ enter_countdown' = 0
    <3>1. enter_countdown # 2
      BY <1>5 DEF EnterWithinSwitch
    <3> QED
      BY <1>1, <1>5, <3>1 DEF ExitAfterTick, DmaBlockAfterExit, CountDown, Unblocked,
         PhaseInv, PhaseTypeOK
  <2>2. ~Busy' /\ ~switching_speed'
    BY <2>1 DEF Busy, switching_speed
  <2>3. DmaTypeOK'
    BY <1>1, <2>1 DEF DmaTypeOK, Unblocked
  <2> QED
    BY <1>1, <1>3, <2>1, <2>2, <2>3
       DEF BusyIsQuiet, SwitchHoldsCpu, BlockFitsExit, EnterWithinSwitch
<1>6. CASE switching_speed /\ halted /\ exit_countdown = 1
  <2>1. dma_block.blocked /\ dma_block.countdown = 0
    BY <1>6 DEF BlockFitsExit, DmaTypeOK
  <2>2. DmaBlockAfterExit = [dma_block EXCEPT !.countdown = 2]
    BY <1>6 DEF DmaBlockAfterExit
  <2>3. dma_block'.blocked /\ dma_block'.countdown = 1
        /\ dma_block' \in [blocked : BOOLEAN, countdown : Nat]
    <3> DEFINE held == [dma_block EXCEPT !.countdown = 2]
    <3>1. /\ held \in [blocked : BOOLEAN, countdown : Nat]
          /\ held.countdown = 2 /\ held.blocked = dma_block.blocked
      BY DEF DmaTypeOK
    <3>2. dma_block' = CountDown(held)
      BY <1>1, <2>2
    <3> HIDE DEF held
    <3>3. dma_block' = [held EXCEPT !.countdown = 1]
      BY <3>1, <3>2 DEF CountDown
    <3> QED BY <2>1, <3>1, <3>3
  <2>4. exit_countdown' = 0 /\ ~switching_speed'
    BY <1>1, <1>6 DEF ExitAfterTick, switching_speed
  <2>5. enter_countdown' # 2 /\ enter_countdown' # 1
    BY <1>1, <1>6 DEF EnterWithinSwitch, PhaseInv, PhaseTypeOK
  <2>6. ~switch_speed /\ counter = 0
    BY <1>6 DEF BusyIsQuiet, SwitchHoldsCpu, Busy
  <2>7. DmaTypeOK'
    BY <1>1, <2>3, <2>4 DEF DmaTypeOK
  <2> QED
    BY <1>1, <1>3, <2>3, <2>4, <2>5, <2>6, <2>7
       DEF BusyIsQuiet, SwitchHoldsCpu, BlockFitsExit, EnterWithinSwitch
<1>7. CASE switching_speed /\ halted /\ exit_countdown # 1
  <2>1. /\ exit_countdown' = exit_countdown - 1 /\ exit_countdown' > 0
        /\ exit_countdown' \in Nat
        /\ dma_block' = CountDown(dma_block)
    BY <1>1, <1>7 DEF ExitAfterTick, DmaBlockAfterExit, switching_speed, DmaTypeOK
  <2>2. /\ dma_block' \in [blocked : BOOLEAN, countdown : Nat]
        /\ BlockFitsExit'
    <3>1. CASE dma_block.blocked /\ dma_block.countdown = 0
      BY <2>1, <3>1 DEF CountDown, BlockFitsExit, DmaTypeOK, switching_speed
    <3>2. CASE ~dma_block.blocked /\ dma_block.countdown = 1
      BY <2>1, <3>2, CountDownLast DEF BlockFitsExit, DmaTypeOK, switching_speed
    <3>3. CASE /\ ~dma_block.blocked /\ dma_block.countdown > 1
               /\ dma_block.countdown < exit_countdown
      <4>1. /\ dma_block'.countdown = dma_block.countdown - 1
            /\ dma_block'.blocked = dma_block.blocked
            /\ dma_block' \in [blocked : BOOLEAN, countdown : Nat]
        BY <2>1, <3>3 DEF CountDown, DmaTypeOK
      <4>2. ~dma_block'.blocked
        BY <3>3, <4>1 DEF DmaTypeOK
      <4> QED BY <2>1, <3>3, <4>1, <4>2 DEF BlockFitsExit, DmaTypeOK, switching_speed
    <3> QED BY <1>7, <3>1, <3>2, <3>3 DEF BlockFitsExit, DmaTypeOK
  <2>3. switching_speed' /\ halted'
    BY <1>1, <1>7, <2>1 DEF switching_speed
  <2>4. ~switch_speed /\ counter = 0
    BY <1>7 DEF BusyIsQuiet, SwitchHoldsCpu, Busy
  <2>5. enter_countdown' # 2
    BY <1>1 DEF PhaseInv, PhaseTypeOK
  <2>6. DmaTypeOK'
    BY <1>1, <2>1, <2>2 DEF DmaTypeOK
  <2> QED
    BY <1>1, <1>3, <2>2, <2>3, <2>4, <2>5, <2>6
       DEF BusyIsQuiet, SwitchHoldsCpu, EnterWithinSwitch
<1> QED BY <1>4, <1>5, <1>6, <1>7

(* A step that leaves the switch and the block alone, and does not leave   *)
(* the time between a micro-operation and the controller's tick.           *)
LEMMA DmaQuiet ==
  ASSUME DmaInv, PhaseInv',
         UNCHANGED <<dma_block, exit_countdown, enter_countdown, switch_speed, halted, counter,
                     io>>,
         stage # "execute", stage' # "execute",
         AfterMicroOperation' <=> AfterMicroOperation,
         WriteFlushed'
  PROVE  DmaInv'
<1>1. Busy' = Busy /\ switching_speed' = switching_speed
  BY DEF Busy, switching_speed
<1> QED
  BY <1>1 DEF DmaInv, DmaTypeOK, BusyIsQuiet, SwitchHoldsCpu, BlockFitsExit, EnterWithinSwitch

LEMMA DmaCheck ==
  ASSUME DmaInv, CpuCheck, PhaseInv'
  PROVE  DmaInv'
<1> USE DEF DmaInv, PhaseInv, PhaseTypeOK
<1>1. /\ UNCHANGED <<dma_block, exit_countdown, enter_countdown, switch_speed, halted, counter, io,
                    current_speed, t>>
      /\ stage = "check" /\ ~stopped
  BY DEF CpuCheck, CheckInterrupt, GoTo, speedVars, blocks
<1>2. phase' = IF current_speed THEN 1 - phase ELSE IF phase = 3 THEN 0 ELSE phase + 1
  <2>1. phase' = (phase + 1) % (IF current_speed THEN 2 ELSE 4)
    BY DEF CpuCheck, CheckInterrupt
  <2>2. CASE current_speed
    BY <2>1, <2>2
  <2>3. CASE ~current_speed
    BY <2>1, <2>3
  <2> QED BY <2>2, <2>3
<1>3. stage' = IF phase' = 1 THEN "service"
               ELSE IF ~current_speed /\ phase' = 2 THEN "flush"
               ELSE IF t \in {1, 3} THEN "switch" ELSE "devices"
  BY <1>1, <1>2 DEF CpuCheck, GoTo, MicroopDue, FlushDue, AfterCpu, Odd
<1>4. AfterMicroOperation => AfterMicroOperation'
  BY <1>1, <1>2, <1>3 DEF AfterMicroOperation, Parity, BetweenTicks
<1>5. WriteFlushed'
  BY <1>1, <1>2, <1>3 DEF WriteFlushed
<1>6. Busy' = Busy /\ switching_speed' = switching_speed
  BY <1>1 DEF Busy, switching_speed
<1>7. BusyIsQuiet' /\ DmaTypeOK' /\ BlockFitsExit'
  BY <1>1, <1>4, <1>6 DEF BusyIsQuiet, DmaTypeOK, BlockFitsExit
<1>8. SwitchHoldsCpu' /\ EnterWithinSwitch'
  BY <1>1, <1>3, <1>4, <1>6 DEF SwitchHoldsCpu, EnterWithinSwitch
<1> QED BY <1>5, <1>7, <1>8

LEMMA DmaService ==
  ASSUME DmaInv, CpuService, PhaseInv'
  PROVE  DmaInv'
<1> USE DEF DmaInv
<1>1. /\ UNCHANGED <<dma_block, exit_countdown, enter_countdown, switch_speed, io, phase, t,
                    current_speed>>
      /\ stage = "service" /\ phase = 1 /\ ~AfterMicroOperation
      /\ stage' = IF halted' THEN AfterMicroop ELSE "execute"
      /\ AfterMicroop \in {"flush", "switch", "devices"}
      /\ halted' => halted /\ counter' = counter
      /\ counter = 0 => counter' = 0
  BY DEF CpuService, Service, GoTo, speedVars, blocks, PhaseInv, StageFitsPhase,
     AfterMicroOperation, AfterMicroop, AfterCpu
<1>2. io = Idle
  BY <1>1 DEF WriteFlushed
<1>3. Busy' = Busy /\ switching_speed' = switching_speed
  BY <1>1 DEF Busy, switching_speed
<1>4. enter_countdown # 2
  BY <1>1 DEF EnterWithinSwitch
<1>5. BusyIsQuiet' /\ DmaTypeOK' /\ BlockFitsExit' /\ WriteFlushed'
  BY <1>1, <1>2, <1>3 DEF BusyIsQuiet, DmaTypeOK, BlockFitsExit, WriteFlushed
<1>6. stage' = "execute" => ~halted'
  BY <1>1
<1>7. switching_speed => halted' \/ stage' = "execute"
  BY <1>1
<1>8. SwitchHoldsCpu' /\ EnterWithinSwitch'
  BY <1>1, <1>3, <1>4, <1>6, <1>7 DEF SwitchHoldsCpu, EnterWithinSwitch
<1> QED BY <1>5, <1>8

LEMMA DmaFlush ==
  ASSUME DmaInv, CpuFlush, PhaseInv'
  PROVE  DmaInv'
<1> USE DEF DmaInv, PhaseInv, PhaseTypeOK
<1>1. /\ UNCHANGED <<dma_block, exit_countdown, enter_countdown, halted, counter, phase, t>>
      /\ stage = "flush" /\ io' = Idle
      /\ stage' = IF t \in {1, 3} THEN "switch" ELSE "devices"
      /\ switch_speed' \in BOOLEAN
      /\ io = Idle => switch_speed' = switch_speed
  BY DEF CpuFlush, FlushWrite, GoTo, blocks, AfterCpu, Odd, DmaTypeOK, Idle
<1>2. AfterMicroOperation /\ stage' # "execute"
  BY <1>1 DEF AfterMicroOperation
<1>3. Busy' = Busy /\ switching_speed' = switching_speed
  BY <1>1 DEF Busy, switching_speed
<1>4. Busy => ~switch_speed'
  BY <1>1 DEF BusyIsQuiet
<1>5. AfterMicroOperation'
  BY <1>1 DEF AfterMicroOperation, Parity, BetweenTicks, StageFitsPhase
<1>6. BusyIsQuiet' /\ DmaTypeOK' /\ BlockFitsExit' /\ WriteFlushed'
  BY <1>1, <1>3, <1>4, <1>5 DEF BusyIsQuiet, DmaTypeOK, BlockFitsExit, WriteFlushed
<1>7. SwitchHoldsCpu' /\ EnterWithinSwitch'
  BY <1>1, <1>2, <1>3, <1>5 DEF SwitchHoldsCpu, EnterWithinSwitch
<1> QED BY <1>6, <1>7

LEMMA DmaStep == DmaInv /\ [Next]_vars => DmaInv'
<1> SUFFICES ASSUME DmaInv, [Next]_vars PROVE DmaInv'
  OBVIOUS
<1> DEFINE Quiet == UNCHANGED <<dma_block, exit_countdown, enter_countdown, switch_speed,
                               halted, counter, io, phase, current_speed>>
<1>1. PhaseInv'
  BY PhaseStep DEF DmaInv
<1>2. CASE CpuCheck
  BY <1>1, <1>2, DmaCheck
<1>3. CASE CpuService
  BY <1>1, <1>3, DmaService
<1>4. CASE CpuExecute
  BY <1>1, <1>4, DmaExecute
<1>5. CASE CpuFlush
  BY <1>1, <1>5, DmaFlush
<1>6. CASE TickSpeedSwitch
  BY <1>1, <1>6, DmaTick
<1>7. CASE PressOrRelease \/ UNCHANGED vars
  <2>1. Quiet /\ stage' = stage
    BY <1>7 DEF PressOrRelease, vars, scheduleVars, speedVars, blocks, cpuVars
  <2>2. (AfterMicroOperation' <=> AfterMicroOperation) /\ WriteFlushed'
    BY <2>1 DEF AfterMicroOperation, WriteFlushed, DmaInv
  <2>3. Busy' = Busy /\ switching_speed' = switching_speed
    BY <2>1 DEF Busy, switching_speed
  <2> QED
    BY <1>1, <2>1, <2>2, <2>3 DEF DmaInv, DmaTypeOK, BusyIsQuiet, SwitchHoldsCpu,
       BlockFitsExit, EnterWithinSwitch
<1>8. CASE StartCycle \/ Stopped \/ TickDevices
  <2>1. /\ Quiet
        /\ stage \in {"input", "check", "devices"} /\ stage' \in {"input", "check"}
        /\ stage = "check" => stopped
        /\ stage = "devices" /\ phase = 1 => stage' = "check"
    <3>1. CASE StartCycle
      BY <3>1 DEF StartCycle, GoTo, speedVars, blocks, cpuVars
    <3>2. CASE Stopped
      BY <3>2 DEF Stopped, EndTick, speedVars, blocks, cpuVars
    <3>3. CASE TickDevices
      BY <3>3 DEF TickDevices, EndTick, speedVars, blocks, cpuVars, DmaInv, PhaseInv,
         PhaseTypeOK, Parity, BetweenTicks
    <3> QED BY <1>8, <3>1, <3>2, <3>3
  <2>2. stage \in {"input", "check"} => phase # 1
    BY <2>1 DEF DmaInv, PhaseInv, PhaseTypeOK, Parity, StageFitsPhase, BetweenTicks
  <2>3. AfterMicroOperation' <=> AfterMicroOperation
    BY <2>1, <2>2 DEF AfterMicroOperation
  <2>4. WriteFlushed'
    BY <2>1, <2>2 DEF WriteFlushed, DmaInv
  <2> QED BY <1>1, <2>1, <2>3, <2>4, DmaQuiet
<1> QED
  BY <1>2, <1>3, <1>4, <1>5, <1>6, <1>7, <1>8 DEF Next, Tick

(* The DMA is blocked only while a switch or the countdown after it lasts, *)
(* and the natural end of a switch finds it blocked.                       *)
THEOREM DmaBlockAlwaysEnds ==
  Spec => [](/\ dma_block.blocked => switching_speed \/ dma_block.countdown > 0
             /\ stage = "switch" /\ exit_countdown = 1 /\ halted => dma_block.blocked)
<1>1. DmaInv =>
        /\ dma_block.blocked => switching_speed \/ dma_block.countdown > 0
        /\ stage = "switch" /\ exit_countdown = 1 /\ halted => dma_block.blocked
  BY DEF DmaInv, DmaTypeOK, BlockFitsExit, switching_speed, Unblocked
<1> QED BY <1>1, DmaInit, DmaStep, PTL DEF Spec

(* A switch never starts before the previous one is over.                  *)
THEOREM SwitchesNeverOverlap == Spec => NoOverlappingSwitch
<1>1. DmaInv /\ [Next]_vars =>
        (enter_countdown' > enter_countdown =>
           enter_countdown = 0 /\ ~switching_speed /\ dma_block = Unblocked)
  <2> SUFFICES ASSUME DmaInv, [Next]_vars, enter_countdown' > enter_countdown
               PROVE  enter_countdown = 0 /\ ~switching_speed /\ dma_block = Unblocked
    OBVIOUS
  <2>1. enter_countdown \in 0 .. 2
    BY DEF DmaInv, PhaseInv, PhaseTypeOK
  <2>2. CASE UNCHANGED enter_countdown
    BY <2>1, <2>2
  <2>3. CASE TickSpeedSwitch
    BY <2>1, <2>3 DEF TickSpeedSwitch, SpeedTick
  <2>4. CASE CpuExecute
    <3>1. MicroopKeeps \/ switch_speed
      BY <2>4, MicroopSwitch DEF CpuExecute, Execute
    <3>2. ~MicroopKeeps
      BY <2>1 DEF MicroopKeeps
    <3>3. ~Busy
      BY <3>1, <3>2 DEF DmaInv, BusyIsQuiet
    <3>4. stage = "execute" /\ phase = 1
      BY <2>4 DEF CpuExecute, DmaInv, PhaseInv, StageFitsPhase
    <3> QED
      BY <2>1, <3>3, <3>4 DEF Busy, DmaInv, EnterWithinSwitch, AfterMicroOperation
  <2> QED
    BY <2>2, <2>3, <2>4 DEF Next, Tick, PressOrRelease, StartCycle, Stopped, CpuCheck,
       CpuService, CpuFlush, TickDevices, vars, speedVars
<1> QED BY <1>1, DmaInit, DmaStep, PTL DEF Spec, NoOverlappingSwitch

(***************************************************************************)
(* The delay of EI.  While the shadow lasts, IME is still one instruction  *)
(* away from Enabled at every point where a service may begin.             *)
(***************************************************************************)
EiInv ==
  /\ istate = "Serving" => op = Isr /\ ~fetching /\ ~shadow
  /\ shadow /\ counter = 0 => ime = "Pending"

LEMMA EiInit == Init => EiInv
  BY DEF Init, ResetCpu, EiInv

LEMMA EiMicroop ==
  ASSUME NEW o, NEW c, EiInv, Microop(o, c),
         istate = "Serving" => o = Isr
  PROVE  EiInv'
<1> USE DEF EiInv
<1>1. CASE o \in {Nop, Cb} /\ NopM0
  BY <1>1 DEF NopM0, EndInstruction, FetchAfter, Nop, Cb, Isr
<1>2. CASE o = Cb /\ CbM0
  BY <1>2 DEF CbM0, Continue, Cb, Isr
<1>3. CASE o = Di /\ DiM0
  BY <1>3 DEF DiM0, FetchAfter, Di, Isr
<1>4. CASE o = Ei /\ EiM0
  <2>1. istate' # "Serving"
    BY <1>4 DEF EiM0, Ei, Isr
  <2>2. shadow' => ime' = "Pending"
    BY <1>4 DEF EiM0, Advance
  <2> QED BY <2>1, <2>2
<1>5. CASE o = Halt /\ HaltM0
  BY <1>5 DEF HaltM0, EndInstruction, FetchAfter, Halt, Isr
<1>6. CASE o = Stop /\ StopM0
  BY <1>6 DEF StopM0, Stop, Isr
<1>7. CASE o = Ldh /\ LdhMicroop(c)
  BY <1>7 DEF LdhMicroop, Continue, FetchAfter, Ldh, Isr
<1>8. CASE o = Reti /\ RetiMicroop(c)
  BY <1>8 DEF RetiMicroop, Continue, FetchAfter, Reti, Isr
<1>9. CASE o = Isr /\ IsrMicroop(c)
  BY <1>9 DEF IsrMicroop, Continue, FetchAfter
<1> HIDE DEF EiInv
<1> QED
  BY <1>1, <1>2, <1>3, <1>4, <1>5, <1>6, <1>7, <1>8, <1>9 DEF Microop

LEMMA EiStep == EiInv /\ [Next]_vars => EiInv'
<1> SUFFICES ASSUME EiInv, [Next]_vars PROVE EiInv'
  OBVIOUS
<1>1. CASE CpuExecute
  <2>1. CASE fetching
    <3>1. istate # "Serving"
      BY <2>1 DEF EiInv
    <3>2. PICK o \in Ops : Microop(o, 0)
      BY <1>1, <2>1 DEF CpuExecute, Execute
    <3> QED BY <3>1, <3>2, EiMicroop
  <2>2. CASE ~fetching
    <3>1. Microop(op, counter)
      BY <1>1, <2>2 DEF CpuExecute, Execute
    <3> QED BY <3>1, EiMicroop DEF EiInv
  <2> QED BY <2>1, <2>2
<1>2. CASE CpuService
  <2> USE <1>2 DEF EiInv, CpuService, Service
  <2>1. CASE ~InterruptDue
    BY <2>1
  <2>2. CASE InterruptDue /\ ServesInterrupt
    <3>1. ~shadow
      BY <2>2 DEF InterruptDue, ServesInterrupt
    <3> QED BY <2>2, <3>1
  <2>3. CASE InterruptDue /\ ~ServesInterrupt
    BY <2>3 DEF InterruptDue
  <2> QED BY <2>1, <2>2, <2>3
<1>3. CASE CpuCheck
  BY <1>3 DEF CpuCheck, CheckInterrupt, EiInv
<1>4. CASE UNCHANGED <<istate, op, fetching, shadow, counter, ime>>
  BY <1>4 DEF EiInv
<1> QED
  BY <1>1, <1>2, <1>3, <1>4 DEF Next, Tick, PressOrRelease, StartCycle, Stopped, CpuFlush,
     TickSpeedSwitch, TickDevices, vars, cpuVars

(* No interrupt is served before the instruction after an EI has ended.    *)
THEOREM EiDelayed == Spec => []EiDelay
<1>1. EiInv => EiDelay
  BY DEF EiInv, EiDelay
<1> QED BY <1>1, EiInit, EiStep, PTL DEF Spec

(* A speed switch finds nothing left of the one before, even if an         *)
(* interrupt cut that one short.                                           *)
THEOREM SwitchesAlwaysApart == Spec => SwitchesKeptApart
<1> QED BY DmaBlockAlwaysEnds, SwitchesNeverOverlap DEF SwitchesKeptApart

(***************************************************************************)
(* STOP.  A request is made with no selected key down, and lasts at most   *)
(* to the end of its cycle: until then no key is handled, and the one      *)
(* micro-operation that may still run is the first of an instruction,      *)
(* which writes nothing, so P1 keeps its selection.                        *)
(***************************************************************************)
BeforeMicroop == stage \in {"check", "service", "execute"}

RequestIsFresh ==
  requested =>
    /\ ~AnyKeyRead /\ io = Idle
    /\ ~stopped /\ stage # "input"
    /\ ~(t = 0 /\ BeforeMicroop)
    /\ t \in {0, 1} \/ (t = 2 /\ BeforeMicroop) => counter = 0

StopInv == DmaInv /\ RequestIsFresh

LEMMA StopInit == Init => StopInv
<1>1. Init => RequestIsFresh
  BY DEF Init, ResetStop, RequestIsFresh
<1> QED BY <1>1, DmaInit DEF StopInv

(* What a micro-operation does to the request. *)
LEMMA MicroopStop ==
  ASSUME NEW o, NEW c, Microop(o, c)
  PROVE  \/ UNCHANGED stopVars
         \/ ~AnyKeyRead /\ RequestStop /\ counter' = 0 /\ io' = io
<1>1. CASE StopM0
  BY <1>1 DEF StopM0
<1>2. CASE UNCHANGED stopVars
  BY <1>2
<1> QED
  BY <1>1, <1>2 DEF Microop, NopM0, CbM0, DiM0, EiM0, HaltM0, LdhMicroop, RetiMicroop

LEMMA StopExecute ==
  ASSUME StopInv, CpuExecute
  PROVE  RequestIsFresh'
<1> USE DEF StopInv
<1>1. /\ stage = "execute" /\ stage' \notin {"input", "check", "service", "execute"}
      /\ UNCHANGED <<t, pressed, selected>>
  BY DEF CpuExecute, Execute, GoTo, AfterMicroop, AfterCpu, joypadVars
<1>2. io = Idle /\ ~stopped
  BY <1>1 DEF DmaInv, WriteFlushed, PhaseInv, StageFitsPhase, BetweenTicks
<1>3. \/ UNCHANGED stopVars
      \/ ~AnyKeyRead /\ RequestStop /\ counter' = 0 /\ io' = io
  BY MicroopStop DEF CpuExecute, Execute
<1>4. CASE UNCHANGED stopVars /\ requested
  <2>1. counter = 0 /\ t \notin {0, 1}
    <3>1. t \in {0, 2}
      BY <1>1 DEF DmaInv, PhaseInv, PhaseTypeOK, StageFitsPhase, Parity, BetweenTicks
    <3> QED BY <1>1, <1>4, <3>1 DEF RequestIsFresh, BeforeMicroop
  <2>2. io' = io
    BY <2>1, FirstMicroopWritesNothing DEF CpuExecute, Execute
  <2> QED
    BY <1>1, <1>2, <1>4, <2>1, <2>2 DEF RequestIsFresh, BeforeMicroop, AnyKeyRead, stopVars
<1>5. CASE UNCHANGED stopVars /\ ~requested
  BY <1>5 DEF RequestIsFresh, stopVars
<1>6. CASE ~AnyKeyRead /\ RequestStop /\ counter' = 0 /\ io' = io
  BY <1>1, <1>2, <1>6 DEF RequestIsFresh, BeforeMicroop, AnyKeyRead, RequestStop
<1> QED BY <1>3, <1>4, <1>5, <1>6

LEMMA StopDevices ==
  ASSUME StopInv, TickDevices
  PROVE  RequestIsFresh'
<1>1. /\ UNCHANGED <<pressed, selected, io, counter>>
      /\ t' = (t + 1) % 4 /\ stage' = IF t = 3 THEN "input" ELSE "check"
      /\ \/ StopTick
         \/ t # 3 /\ UNCHANGED stopVars
  BY DEF TickDevices, EndTick, ClockTick, joypadVars, cpuVars
<1>2. CASE StopTick
  BY <1>2 DEF StopTick, RequestIsFresh
<1>3. CASE t # 3 /\ UNCHANGED stopVars
  <2>1. t \in 0 .. 2 /\ t' = t + 1 /\ stage' = "check"
    BY <1>1, <1>3 DEF StopInv, DmaInv, PhaseInv, PhaseTypeOK
  <2> QED
    BY <1>1, <1>3, <2>1 DEF StopInv, RequestIsFresh, BeforeMicroop, AnyKeyRead, stopVars
<1> QED BY <1>1, <1>2, <1>3

LEMMA StopStep == StopInv /\ [Next]_vars => StopInv'
<1> SUFFICES ASSUME StopInv, [Next]_vars PROVE RequestIsFresh'
  BY DmaStep DEF StopInv
<1> USE DEF StopInv, RequestIsFresh, BeforeMicroop, AnyKeyRead
<1>1. CASE PressOrRelease \/ StartCycle
  BY <1>1 DEF PressOrRelease, StartCycle, stopVars
<1>2. CASE Stopped
  BY <1>2 DEF Stopped, StoppedTick
<1>3. CASE CpuCheck
  <2>1. /\ UNCHANGED <<t, pressed, selected, requested, stopped, io, counter>>
        /\ stage = "check" /\ stage' # "input"
    BY <1>3 DEF CpuCheck, CheckInterrupt, GoTo, AfterCpu, joypadVars, stopVars
  <2> QED BY <2>1
<1>4. CASE CpuService
  <2>1. /\ UNCHANGED <<t, pressed, selected, requested, stopped, io>>
        /\ stage = "service" /\ stage' # "input"
        /\ counter = 0 => counter' = 0
    BY <1>4 DEF CpuService, Service, GoTo, AfterMicroop, AfterCpu, joypadVars, stopVars
  <2> QED BY <2>1
<1>5. CASE CpuExecute
  BY <1>5, StopExecute
<1>6. CASE CpuFlush
  <2>1. /\ UNCHANGED <<t, pressed, requested, stopped, counter>>
        /\ stage = "flush" /\ stage' \in {"switch", "devices"} /\ io' = Idle
        /\ io = Idle => selected' = selected
    BY <1>6 DEF CpuFlush, FlushWrite, GoTo, AfterCpu, stopVars, Idle
  <2> QED BY <2>1
<1>7. CASE TickSpeedSwitch
  <2>1. /\ UNCHANGED <<t, pressed, selected, requested, stopped, io, counter>>
        /\ stage = "switch" /\ stage' = "devices"
    BY <1>7 DEF TickSpeedSwitch, GoTo, joypadVars, stopVars, cpuVars
  <2> QED BY <2>1
<1>8. CASE TickDevices
  BY <1>8, StopDevices
<1>9. CASE UNCHANGED vars
  BY <1>9 DEF vars, scheduleVars, joypadVars, stopVars, cpuVars
<1> QED
  BY <1>1, <1>2, <1>3, <1>4, <1>5, <1>6, <1>7, <1>8, <1>9 DEF Next, Tick

(* A cycle that ends in STOP mode, be it the one that enters it, ends with *)
(* no selected key down.                                                   *)
THEOREM StopAlwaysSeesPress == Spec => StopSeesEveryPress
<1>1. StopInv /\ [Next]_vars =>
        (stage # "input" /\ stage' = "input" /\ stopped' => pressed' \cap selected' = {})
  <2> SUFFICES ASSUME StopInv, [Next]_vars, stage # "input", stage' = "input", stopped'
               PROVE  pressed' \cap selected' = {}
    OBVIOUS
  <2>1. CASE Stopped
    BY <2>1 DEF Stopped, StoppedTick, EndTick, AnyKeyRead, joypadVars
  <2>2. CASE TickDevices
    <3>1. ~stopped
      BY <2>2 DEF TickDevices, StopInv, DmaInv, PhaseInv, StageFitsPhase, BetweenTicks
    <3>2. requested /\ UNCHANGED <<pressed, selected>>
      BY <2>2, <3>1 DEF TickDevices, StopTick, stopVars, joypadVars
    <3> QED BY <3>2 DEF StopInv, RequestIsFresh, AnyKeyRead
  <2> QED
    BY <2>1, <2>2 DEF Next, Tick, PressOrRelease, StartCycle, CpuCheck, CpuService,
       CpuExecute, CpuFlush, TickSpeedSwitch, GoTo, AfterMicroop, AfterCpu, vars, scheduleVars
<1> QED BY <1>1, StopInit, StopStep, PTL DEF Spec, StopSeesEveryPress

(***************************************************************************)
(* The interrupts.  An interrupt that was seen stays pending until the CPU *)
(* may answer it; a write that takes it back meanwhile is one of the       *)
(* instruction under way, after which the CPU is neither halted nor can it *)
(* halt before the answer.                                                 *)
(***************************************************************************)
Decoding ==
  /\ ime \in {"Disabled", "Pending", "Enabled"}
  /\ istate \in {"None", "Pending", "Serving"}
  /\ counter \in Nat
  /\ fetching => counter = 0 /\ istate # "Serving"
  /\ op \in {Nop, Cb, Ldh, Reti, Isr}
  /\ op = Nop => counter = 0
  /\ op = Isr <=> istate = "Serving"

HaltedAtRest ==
  halted => counter = 0 /\ io = Idle /\ ime \in {"Disabled", "Enabled"}

(* The answer is two micro-operations away at most, from a halt three.     *)
AnswerNear ==
  /\ remaining \in 0 .. 3
  /\ istate # "Pending" => remaining = 0
  /\ remaining >= 2 => PendingInterrupts # {} /\ io = Idle /\ stage # "execute"
  /\ remaining = 3 => halted /\ ~switching_speed

TakenBackRunning ==
  istate = "Pending" /\ PendingInterrupts = {} =>
    ~halted /\ (stage = "execute" => counter # 0)

ServedStaysPending ==
  istate = "Serving" =>
    /\ counter <= 2 => io = Idle /\ PendingInterrupts # {}
    /\ counter = 3 =>
         /\ io \in {Idle, pushed}
         /\ PendingInterrupts = {} => pushed \in {"IE", "IF"}

(***************************************************************************)
(* A switch into double speed blocks the interrupts until the speed has    *)
(* changed, or two T-cycles more.  The block may end early: nothing that   *)
(* was pending before wakes the CPU under it.                              *)
(***************************************************************************)
BlockedInSwitch ==
  /\ interrupts_block \in [blocked : BOOLEAN, countdown : 0 .. 3]
  /\ ~interrupts_block.blocked => interrupts_block.countdown = 0
  /\ interrupts_block.blocked =>
       /\ halted
       /\ exit_countdown > interrupts_block.countdown
       /\ interrupts_block.countdown = enter_countdown + 1
       /\ enter_countdown > 0 => ~current_speed
       /\ interrupts_block.countdown = 1 => istate # "Pending"

(* The table of timings is that of the speed, or of the one to come. *)
TableOfSpeed ==
  /\ interrupts_double_speed \in BOOLEAN
  /\ enter_countdown > 0 <=> (interrupts_double_speed <=> ~current_speed)
  /\ enter_countdown > 0 /\ ~current_speed => halted

(* A CPU woken out of a switch does not see another interrupt before the   *)
(* switch is found over.                                                   *)
WokenFromSwitch ==
  switching_speed /\ ~halted =>
    \/ istate = "Serving"
    \/ /\ istate = "None" /\ ime # "Enabled"
       /\ stage = "execute" => ime = "Disabled" /\ counter = 0

(* Where the tables have no timing for the timer's interrupt, it has not   *)
(* just been raised: what has are the PPU's, which tick in each T-cycle.   *)
NotForTimer ==
  phase = 3 \/ (phase = 1 /\ halted /\ (switching_speed => interrupts_double_speed))

BeforeOddCheck ==
  IF t \in {1, 3} THEN stage = "check" ELSE stage \notin {"input", "check"}

TimerSeenBefore ==
  BeforeOddCheck /\ ~stopped /\ SeesInterrupt /\ NotForTimer =>
    PendingInterrupts \cap {VBlank, Stat} # {}

IntParts ==
  /\ Decoding /\ HaltedAtRest
  /\ AnswerNear /\ TakenBackRunning /\ ServedStaysPending
  /\ BlockedInSwitch /\ TableOfSpeed /\ WokenFromSwitch /\ TimerSeenBefore

(* The invariant: that of the DMA's schedule, and the interrupts'. *)
IntInv == DmaInv /\ IntParts

(* The core starts with no interrupt seen. *)
LEMMA IntInit == Init => IntInv
<1> SUFFICES ASSUME Init PROVE IntParts
  BY DmaInit DEF IntInv
<1>1. /\ ime = "Disabled" /\ istate = "None" /\ remaining = 0 /\ counter = 0 /\ op = Nop
      /\ ~fetching /\ ~halted
  BY DEF Init, ResetCpu, ResetSpeed
<1>2. /\ interrupts_block = Unblocked /\ enter_countdown = 0 /\ exit_countdown = 0
      /\ ~interrupts_double_speed /\ ~current_speed /\ stage = "input" /\ t = 0
  BY DEF Init, ResetSpeed
<1>3. interrupts_double_speed \in BOOLEAN
  BY Zenon DEF Init, ResetSpeed
<1>4. BlockedInSwitch
  BY <1>2 DEF BlockedInSwitch, Unblocked
<1> QED
  BY <1>1, <1>2, <1>3, <1>4
     DEF IntParts, Decoding, HaltedAtRest, AnswerNear, TakenBackRunning, ServedStaysPending,
         TableOfSpeed, WokenFromSwitch, switching_speed, TimerSeenBefore, BeforeOddCheck,
         Nop, Isr

(* A request raised takes no other back. *)
LEMMA RaisedKeeps ==
  ASSUME NEW types
  PROVE  iflag \subseteq Raised(types)
BY DEF Raised

(* A raised request makes interrupts pending and takes none back. *)
LEMMA PendingGrows ==
  ASSUME iflag \subseteq iflag', UNCHANGED ienable
  PROVE  PendingInterrupts \subseteq PendingInterrupts'
BY DEF PendingInterrupts

(* What the devices raise in an even T-cycle is the PPU's. *)
LEMMA IntDevices ==
  ASSUME IntInv, TickDevices
  PROVE  TimerSeenBefore'
<1>1. /\ UNCHANGED <<ienable, halted, phase, ime, istate, exit_countdown, interrupts_block,
                     interrupts_double_speed>>
      /\ t' = (t + 1) % 4 /\ stage' = IF t = 3 THEN "input" ELSE "check"
      /\ stage = "devices"
  BY DEF TickDevices, EndTick, speedVars, blocks, cpuVars
<1>2. t \in 0 .. 3 /\ ~stopped
  BY <1>1 DEF IntInv, DmaInv, PhaseInv, PhaseTypeOK, StageFitsPhase, BetweenTicks
<1>3. CASE t \in {1, 3}
  <2>1. t' \in {0, 2} /\ stage' \in {"input", "check"}
    BY <1>1, <1>3
  <2> QED BY <2>1 DEF TimerSeenBefore, BeforeOddCheck
<1>4. CASE t \in {0, 2}
  <2>1. Raising \subseteq {VBlank, Stat}
    BY <1>4 DEF Raising, ClockTick
  <2>2. PICK types \in SUBSET Raising : iflag' = Raised(types)
    BY DEF TickDevices
  <2>3. PendingInterrupts \subseteq PendingInterrupts'
        /\ PendingInterrupts' \subseteq PendingInterrupts \cup {VBlank, Stat}
    BY <1>1, <2>1, <2>2 DEF PendingInterrupts, Raised
  <2>4. BeforeOddCheck /\ (NotForTimer' <=> NotForTimer)
    BY <1>1, <1>4 DEF BeforeOddCheck, NotForTimer, switching_speed
  <2>5. CASE SeesInterrupt
    BY <1>2, <2>3, <2>4, <2>5 DEF IntInv, IntParts, TimerSeenBefore
  <2>6. CASE ~SeesInterrupt
    <3>1. SeesInterrupt' => PendingInterrupts = {} /\ PendingInterrupts' # {}
      BY <1>1, <2>6 DEF SeesInterrupt
    <3> QED BY <2>3, <3>1 DEF TimerSeenBefore
  <2> QED BY <2>5, <2>6
<1> QED BY <1>2, <1>3, <1>4

(* The steps outside the CPU: keys, devices, a stopped core. *)
LEMMA IntQuiet ==
  ASSUME IntInv, PressOrRelease \/ StartCycle \/ Stopped \/ TickDevices \/ UNCHANGED vars
  PROVE  IntParts'
<1> USE DEF IntInv, IntParts
<1>1. /\ UNCHANGED <<halted, current_speed, enter_countdown, exit_countdown, interrupts_block,
                     interrupts_double_speed, phase, ime, istate, remaining, fetching, op,
                     counter, io, pushed>>
      /\ PendingInterrupts \subseteq PendingInterrupts'
      /\ stage' = "execute" => UNCHANGED vars
  <2>1. CASE PressOrRelease
    BY <2>1, RaisedKeeps, PendingGrows
    DEF PressOrRelease, SetKeyState, scheduleVars, speedVars, blocks, cpuVars
  <2>2. CASE StartCycle
    BY <2>2, PendingGrows DEF StartCycle, GoTo, interruptVars, speedVars, blocks, cpuVars
  <2>3. CASE Stopped
    BY <2>3, RaisedKeeps, PendingGrows
    DEF Stopped, StoppedTick, EndTick, speedVars, blocks, cpuVars
  <2>4. CASE TickDevices
    BY <2>4, RaisedKeeps, PendingGrows DEF TickDevices, EndTick, speedVars, blocks, cpuVars
  <2>5. CASE UNCHANGED vars
    BY <2>5, PendingGrows DEF vars, interruptVars, speedVars, blocks, cpuVars
  <2> QED BY <2>1, <2>2, <2>3, <2>4, <2>5
<1>2. switching_speed' = switching_speed
  BY <1>1 DEF switching_speed
<1>3. Decoding' /\ HaltedAtRest'
  BY <1>1 DEF Decoding, HaltedAtRest
<1>4. CASE UNCHANGED vars
  <2>1. UNCHANGED <<stage, t, stopped>> /\ PendingInterrupts' = PendingInterrupts
    BY <1>4 DEF vars, scheduleVars, stopVars, interruptVars, PendingInterrupts
  <2> QED
    BY <1>1, <1>2, <1>3, <2>1 DEF AnswerNear, TakenBackRunning, ServedStaysPending,
       BlockedInSwitch, TableOfSpeed, WokenFromSwitch, TimerSeenBefore, BeforeOddCheck,
       SeesInterrupt, NotForTimer
<1>5. CASE stage' # "execute"
  <2>1. AnswerNear' /\ TakenBackRunning' /\ ServedStaysPending'
    BY <1>1, <1>2, <1>5 DEF AnswerNear, TakenBackRunning, ServedStaysPending
  <2>2. BlockedInSwitch' /\ TableOfSpeed' /\ WokenFromSwitch'
    BY <1>1, <1>2, <1>5 DEF BlockedInSwitch, TableOfSpeed, WokenFromSwitch
  <2>3. ASSUME ~(UNCHANGED vars) PROVE TimerSeenBefore'
    <3>1. CASE PressOrRelease \/ StartCycle
      <4>1. stage = "input" /\ t' = t /\ stage' \in {"input", "check"}
        BY <3>1 DEF PressOrRelease, StartCycle, GoTo, scheduleVars
      <4>2. t' = 0
        BY <4>1 DEF DmaInv, PhaseInv, StageFitsPhase
      <4> QED BY <4>1, <4>2 DEF TimerSeenBefore, BeforeOddCheck
    <3>2. CASE Stopped
      <4>1. t = 3 \/ stopped'
        BY <3>2 DEF Stopped, StoppedTick
      <4>2. t = 3 => t' = 0 /\ stage' = "input"
        BY <3>2 DEF Stopped, EndTick
      <4> QED BY <4>1, <4>2 DEF TimerSeenBefore, BeforeOddCheck
    <3>3. CASE TickDevices
      BY <3>3, IntDevices
    <3> QED BY <2>3, <3>1, <3>2, <3>3
  <2> QED BY <1>3, <1>4, <2>1, <2>2, <2>3
<1> QED BY <1>1, <1>4, <1>5

(* flush_write: it alone, with the push of a service, takes an interrupt back. *)
LEMMA IntFlush ==
  ASSUME IntInv, CpuFlush
  PROVE  IntParts'
<1> USE DEF IntInv, IntParts
<1>1. /\ UNCHANGED <<t, halted, current_speed, enter_countdown, exit_countdown, interrupts_block,
                     interrupts_double_speed, phase, ime, istate, remaining, fetching, op,
                     counter, pushed>>
      /\ stage = "flush" /\ stage' \in {"switch", "devices"} /\ io' = Idle
      /\ t \in {1, 3} => stage' = "switch"
  BY DEF CpuFlush, FlushWrite, GoTo, blocks, AfterCpu, Odd
<1>2. switching_speed' = switching_speed
  BY <1>1 DEF switching_speed
<1>3. io \notin {"IF", "IE"} => PendingInterrupts' = PendingInterrupts
  BY DEF CpuFlush, FlushWrite, PendingInterrupts, Idle
<1>4. Idle \notin {"IF", "IE"}
  BY DEF Idle
<1>5. Decoding' /\ HaltedAtRest'
  BY <1>1 DEF Decoding, HaltedAtRest
<1>6. AnswerNear' /\ TakenBackRunning'
  BY <1>1, <1>2, <1>3, <1>4 DEF AnswerNear, TakenBackRunning, HaltedAtRest
<1>7. ServedStaysPending'
  BY <1>1, <1>3, <1>4 DEF ServedStaysPending
<1>8. BlockedInSwitch' /\ TableOfSpeed' /\ WokenFromSwitch'
  BY <1>1, <1>2 DEF BlockedInSwitch, TableOfSpeed, WokenFromSwitch
<1>9. TimerSeenBefore'
  <2>1. phase # 3 /\ stopped' = stopped
    BY <1>1 DEF DmaInv, PhaseInv, StageFitsPhase, CpuFlush, stopVars
  <2>2. CASE halted
    <3>1. PendingInterrupts' = PendingInterrupts
      BY <1>3, <1>4, <2>2 DEF HaltedAtRest
    <3>2. BeforeOddCheck' => BeforeOddCheck
      BY <1>1 DEF BeforeOddCheck
    <3> QED BY <1>1, <1>2, <2>1, <3>1, <3>2 DEF TimerSeenBefore, SeesInterrupt, NotForTimer
  <2>3. CASE ~halted
    BY <1>1, <2>1, <2>3 DEF TimerSeenBefore, NotForTimer
  <2> QED BY <2>2, <2>3
<1> QED BY <1>5, <1>6, <1>7, <1>8, <1>9

(* The start of tick_microop: a pending interrupt comes nearer, or is due. *)
LEMMA IntService ==
  ASSUME IntInv, CpuService
  PROVE  IntParts'
<1> USE DEF IntInv, IntParts
<1>1. /\ UNCHANGED <<t, current_speed, enter_countdown, exit_countdown, interrupts_block,
                     interrupts_double_speed, phase, ime, io, pushed, stopped>>
      /\ PendingInterrupts' = PendingInterrupts
      /\ stage = "service" /\ stage' \in {"execute", "flush", "switch", "devices"}
      /\ stage' = "execute" => ~halted'
      /\ remaining' = TicksLeft /\ halted' = (halted /\ ~InterruptDue)
  BY DEF CpuService, Service, GoTo, AfterMicroop, AfterCpu, Odd, interruptVars, speedVars,
     blocks, stopVars, PendingInterrupts
<1>2. \/ ~InterruptDue /\ UNCHANGED <<istate, fetching, op, counter>>
      \/ /\ InterruptDue /\ ServesInterrupt
         /\ istate' = "Serving" /\ fetching' = FALSE /\ op' = Isr /\ counter' = 0
      \/ /\ InterruptDue /\ ~ServesInterrupt
         /\ istate' = "None" /\ UNCHANGED <<fetching, op, counter>>
  BY DEF CpuService, Service
<1>3. /\ switching_speed' = switching_speed
      /\ phase = 1 /\ t \in {0, 2} /\ io = Idle
      /\ ~(enter_countdown > 0 /\ ~current_speed)
      /\ switching_speed => halted
  <2>1. phase = 1
    BY <1>1 DEF DmaInv, PhaseInv, StageFitsPhase
  <2>2. t \in {0, 2}
    BY <1>1, <2>1 DEF DmaInv, PhaseInv, PhaseTypeOK, Parity, BetweenTicks
  <2>3. io = Idle /\ ~AfterMicroOperation
    BY <1>1 DEF DmaInv, WriteFlushed, AfterMicroOperation
  <2>4. ~(enter_countdown > 0 /\ ~current_speed)
    BY <1>1, <2>1, <2>3 DEF DmaInv, EnterWithinSwitch, PhaseInv, PhaseTypeOK, EnterAligned
  <2>5. switching_speed => halted
    BY <1>1, <2>3 DEF DmaInv, SwitchHoldsCpu
  <2> QED BY <1>1, <2>1, <2>2, <2>3, <2>4, <2>5 DEF switching_speed
<1>4. /\ TicksLeft = IF remaining = 0 THEN 0 ELSE remaining - 1
      /\ remaining \in 0 .. 3
      /\ InterruptDue <=> istate = "Pending" /\ TicksLeft = 0 /\ counter = 0
      /\ ServesInterrupt <=> ime = "Enabled" /\ PendingInterrupts # {}
  BY DEF TicksLeft, AnswerNear, InterruptDue, ServesInterrupt
<1>5. Decoding'
  BY <1>1, <1>2, <1>4 DEF Decoding, Isr, Nop
<1>6. HaltedAtRest'
  BY <1>1, <1>2 DEF HaltedAtRest
<1>7. AnswerNear'
  <2>1. remaining' \in 0 .. 3 /\ (remaining' >= 2 => remaining = 3 /\ remaining' = 2)
    BY <1>1, <1>4
  <2>2. istate' # "Pending" => remaining' = 0
    BY <1>1, <1>2, <1>4 DEF AnswerNear
  <2>3. ASSUME remaining = 3 PROVE stage' # "execute" /\ PendingInterrupts # {}
    <3>1. halted /\ PendingInterrupts # {} /\ ~InterruptDue
      BY <1>4, <2>3 DEF AnswerNear
    <3>2. halted'
      BY <1>1, <3>1
    <3> QED BY <1>1, <3>1, <3>2
  <2> QED BY <1>1, <1>3, <2>1, <2>2, <2>3 DEF AnswerNear
<1>8. TakenBackRunning'
  <2> SUFFICES ASSUME istate' = "Pending", PendingInterrupts = {}
               PROVE  ~halted' /\ (stage' = "execute" => counter' # 0)
    BY <1>1 DEF TakenBackRunning
  <2>1. ~InterruptDue /\ istate = "Pending" /\ counter' = counter
    BY <1>2
  <2>2. ~halted
    BY <2>1 DEF TakenBackRunning
  <2>3. TicksLeft = 0
    BY <1>4 DEF AnswerNear
  <2> QED BY <1>1, <1>4, <2>1, <2>2, <2>3
<1>9. ServedStaysPending'
  BY <1>1, <1>2, <1>3, <1>4 DEF ServedStaysPending
<1>10. BlockedInSwitch' /\ TableOfSpeed'
  <2>1. interrupts_block.blocked => ~InterruptDue
    <3>1. enter_countdown \in 0 .. 2
      BY DEF DmaInv, PhaseInv, PhaseTypeOK
    <3> QED BY <1>3, <1>4, <3>1 DEF BlockedInSwitch
  <2> QED BY <1>1, <1>2, <1>3, <2>1 DEF BlockedInSwitch, TableOfSpeed
<1>11. WokenFromSwitch'
  <2> SUFFICES ASSUME switching_speed, ~halted'
               PROVE  istate' = "Serving" \/ (istate' = "None" /\ ime = "Disabled" /\ counter' = 0)
    BY <1>1, <1>3 DEF WokenFromSwitch
  <2>1. halted /\ InterruptDue
    BY <1>1, <1>3
  <2>2. PendingInterrupts # {} /\ ime \in {"Disabled", "Enabled"} /\ counter = 0
    BY <1>4, <2>1 DEF TakenBackRunning, HaltedAtRest
  <2> QED BY <1>2, <1>4, <2>1, <2>2
<1>12. TimerSeenBefore'
  <2>1. CASE halted'
    <3>1. ~InterruptDue /\ halted /\ istate' = istate
      BY <1>1, <1>2, <2>1
    <3>2. BeforeOddCheck
      BY <1>1, <1>3 DEF BeforeOddCheck
    <3> QED BY <1>1, <1>3, <2>1, <3>1, <3>2 DEF TimerSeenBefore, SeesInterrupt, NotForTimer
  <2>2. CASE ~halted'
    BY <1>1, <1>3, <2>2 DEF TimerSeenBefore, NotForTimer
  <2> QED BY <2>1, <2>2
<1> QED BY <1>5, <1>6, <1>7, <1>8, <1>9, <1>10, <1>11, <1>12

(* The tick of the speed switch controller. *)
LEMMA IntSwitch ==
  ASSUME IntInv, TickSpeedSwitch
  PROVE  IntParts'
<1> USE DEF IntInv, IntParts
<1>1. /\ UNCHANGED <<t, interrupts_double_speed, phase, ime, istate, remaining, fetching, op,
                     counter, io, pushed>>
      /\ stage = "switch" /\ stage' = "devices"
      /\ enter_countdown' = IF enter_countdown = 0 THEN 0 ELSE enter_countdown - 1
      /\ current_speed' = (current_speed # (enter_countdown = 1))
      /\ exit_countdown' = ExitAfterTick
      /\ halted' <=> halted /\ exit_countdown # 1
      /\ interrupts_block' = CountDownInterrupts(interrupts_block)
  BY DEF TickSpeedSwitch, SpeedTick, GoTo, cpuVars
<1>2. PendingInterrupts \subseteq PendingInterrupts'
  BY RaisedKeeps, PendingGrows DEF TickSpeedSwitch, SpeedTick
<1>3. /\ t \in {1, 3} /\ enter_countdown \in 0 .. 2 /\ exit_countdown \in Nat
      /\ current_speed \in BOOLEAN
      /\ enter_countdown = 2 => exit_countdown > 1
      /\ enter_countdown = 1 => exit_countdown > 0
  BY <1>1 DEF DmaInv, PhaseInv, StageFitsPhase, PhaseTypeOK, DmaTypeOK, EnterWithinSwitch,
     switching_speed
<1>4. /\ switching_speed' => exit_countdown > 1 /\ halted /\ halted'
      /\ ~switching_speed => exit_countdown' = 0 /\ (halted' <=> halted)
      /\ exit_countdown > 1 /\ halted => exit_countdown' = exit_countdown - 1 /\ halted'
  <2>1. exit_countdown' = IF exit_countdown > 0 /\ halted THEN exit_countdown - 1 ELSE 0
    BY <1>1 DEF ExitAfterTick, switching_speed
  <2> QED BY <1>1, <1>3, <2>1 DEF switching_speed
<1>5. Decoding' /\ HaltedAtRest'
  BY <1>1 DEF Decoding, HaltedAtRest
<1>6. AnswerNear'
  <2>1. remaining = 3 => halted' /\ ~switching_speed'
    BY <1>4 DEF AnswerNear
  <2> QED BY <1>1, <1>2, <2>1 DEF AnswerNear
<1>7. TakenBackRunning' /\ ServedStaysPending'
  BY <1>1, <1>2 DEF TakenBackRunning, ServedStaysPending
<1>8. BlockedInSwitch'
  <2> DEFINE block == interrupts_block
  <2>1. CASE ~block.blocked
    <3>1. block.countdown = 0 /\ block' = block
      BY <1>1, <2>1 DEF BlockedInSwitch, CountDownInterrupts
    <3> QED BY <2>1, <3>1 DEF BlockedInSwitch
  <2>2. CASE block.blocked /\ block' = Unblocked
    BY <2>2 DEF BlockedInSwitch, Unblocked
  <2>3. CASE block.blocked /\ block' # Unblocked
    <3>1. block.countdown \in {2, 3} /\ block' = [block EXCEPT !.countdown = @ - 1]
          /\ (block.countdown = 2 => PendingInterrupts = {})
      BY <1>1, <1>3, <2>3 DEF BlockedInSwitch, CountDownInterrupts
    <3>2. /\ block'.blocked = block.blocked /\ block'.countdown = block.countdown - 1
          /\ block' \in [blocked : BOOLEAN, countdown : 0 .. 3]
      BY <3>1 DEF BlockedInSwitch
    <3>3. halted /\ enter_countdown = block.countdown - 1 /\ ~current_speed
          /\ exit_countdown > block.countdown
      BY <1>3, <2>3, <3>1 DEF BlockedInSwitch
    <3>4. halted' /\ exit_countdown' = exit_countdown - 1 /\ enter_countdown' = enter_countdown - 1
      BY <1>1, <1>3, <1>4, <3>1, <3>3
    <3>5. enter_countdown' > 0 => ~current_speed'
      BY <1>1, <1>3, <3>3, <3>4
    <3>6. block'.countdown = 1 => istate' # "Pending"
      BY <1>1, <3>1, <3>2, <3>3 DEF TakenBackRunning
    <3> QED BY <1>3, <2>3, <3>1, <3>2, <3>3, <3>4, <3>5, <3>6 DEF BlockedInSwitch
  <2> QED BY <2>1, <2>2, <2>3
<1>9. TableOfSpeed'
  <2>1. CASE enter_countdown = 1
    <3>1. enter_countdown' = 0 /\ current_speed' = ~current_speed
      BY <1>1, <1>3, <2>1
    <3> QED BY <1>1, <2>1, <3>1 DEF TableOfSpeed
  <2>2. CASE enter_countdown # 1
    <3>1. (current_speed' <=> current_speed) /\ (enter_countdown' > 0 <=> enter_countdown > 0)
      BY <1>1, <1>3, <2>2
    <3>2. enter_countdown > 0 /\ ~current_speed => halted'
      BY <1>3, <1>4, <2>2 DEF TableOfSpeed
    <3> QED BY <1>1, <3>1, <3>2 DEF TableOfSpeed
  <2> QED BY <2>1, <2>2
<1>10. WokenFromSwitch' /\ TimerSeenBefore'
  BY SMTT(30), <1>1, <1>3, <1>4 DEF WokenFromSwitch, TimerSeenBefore, BeforeOddCheck
<1> QED BY <1>5, <1>6, <1>7, <1>8, <1>9, <1>10

(* The tables, entry by entry: 3 is a halted CPU's, U only the timer's. *)
LEMMA Entries ==
  ASSUME NEW i \in InterruptType, NEW m \in 1 .. 3, NEW p \in 0 .. 3
  PROVE  /\ InterruptTimings[i + 1][m][p + 1] \in {1, 2, 3, U}
         /\ InterruptTimingsDoubleSpeed[i + 1][m][p + 1] \in {1, 2, 3, U}
         /\ m # 2 => /\ InterruptTimings[i + 1][m][p + 1] # 3
                     /\ InterruptTimingsDoubleSpeed[i + 1][m][p + 1] # 3
         /\ p \in {1, 3} \/ i # Timer =>
              /\ InterruptTimings[i + 1][m][p + 1] # U
              /\ InterruptTimingsDoubleSpeed[i + 1][m][p + 1] # U
         /\ p = 0 /\ m # 2 => InterruptTimings[i + 1][m][p + 1] # U
         /\ p = 0 /\ m = 1 => InterruptTimingsDoubleSpeed[i + 1][m][p + 1] # U
         /\ m = 1 /\ p # 3 => InterruptTimings[i + 1][m][p + 1] \in {1, U}
         /\ m = 1 /\ p = 0 => InterruptTimingsDoubleSpeed[i + 1][m][p + 1] = 1
<1>1. i \in {0, 1, 2, 3, 4}
  BY DEF InterruptType, VBlank, Stat, Timer, Serial, Joypad
<1>2. m \in {1, 2, 3} /\ p \in {0, 1, 2, 3}
  OBVIOUS
<1> USE DEF InterruptTimings, InterruptTimingsDoubleSpeed, U, Timer
<1>3. CASE i = 0
  BY <1>2, <1>3
<1>4. CASE i = 1
  BY <1>2, <1>4
<1>5. CASE i = 2
  BY <1>2, <1>5
<1>6. CASE i = 3
  BY <1>2, <1>6
<1>7. CASE i = 4
  BY <1>2, <1>7
<1> QED BY <1>1, <1>3, <1>4, <1>5, <1>6, <1>7

(* The least of some timings is one, and no more than any that is known. *)
LEMMA LowestTiming ==
  ASSUME NEW S, S \subseteq {1, 2, 3, U}, NEW e \in S, e # U
  PROVE  Min(S) \in S /\ Min(S) <= e
<1>1. \E x \in S : \A y \in S : x <= y
  <2>1. CASE 1 \in S
    BY <2>1 DEF U
  <2>2. CASE 1 \notin S /\ 2 \in S
    BY <2>2 DEF U
  <2>3. CASE 1 \notin S /\ 2 \notin S
    BY <2>3 DEF U
  <2> QED BY <2>1, <2>2, <2>3
<1> QED BY <1>1 DEF Min

(* What sees an interrupt within a switch is halted. *)
LEMMA CheckMode ==
  ASSUME IntInv, stage = "check", ~stopped, SeesInterrupt
  PROVE  switching_speed => halted
BY DEF IntInv, IntParts, WokenFromSwitch, SeesInterrupt, DmaInv, SwitchHoldsCpu

(* The timing of an interrupt that is seen, by mode and position. *)
LEMMA Timing ==
  ASSUME IntInv, stage = "check", ~stopped, SeesInterrupt
  PROVE  /\ RemainingTicks(CheckPosition) \in 1 .. 3
         /\ RemainingTicks(CheckPosition) = 3 => halted /\ ~switching_speed
         /\ RemainingTicks(CheckPosition) >= 2 => halted \/ phase = 0
<1> DEFINE p == CheckPosition
           m == Mode
           e(i) == (IF interrupts_double_speed THEN InterruptTimingsDoubleSpeed
                                               ELSE InterruptTimings)[i + 1][m][p + 1]
<1>1. /\ phase \in 0 .. 3 /\ t \in 0 .. 3 /\ (phase \in {0, 2} <=> t \in {0, 2})
      /\ current_speed => phase \in {0, 1}
  BY DEF IntInv, DmaInv, PhaseInv, PhaseTypeOK, Parity, BetweenTicks
<1>2. /\ p \in 0 .. 3 /\ p = (IF phase = 0 THEN 3 ELSE phase - 1)
      /\ m \in 1 .. 3
      /\ m = 1 <=> ~halted
      /\ m = 2 <=> halted /\ ~switching_speed
      /\ m = 3 <=> halted /\ switching_speed
  <2>1. p \in 0 .. 3 /\ p = (IF phase = 0 THEN 3 ELSE phase - 1)
    BY <1>1 DEF CheckPosition
  <2>2. switching_speed => halted
    BY CheckMode
  <2>3. CASE ~halted
    BY <2>1, <2>2, <2>3 DEF Mode
  <2>4. CASE halted /\ ~switching_speed
    BY <2>1, <2>4 DEF Mode
  <2>5. CASE halted /\ switching_speed
    BY <2>1, <2>5 DEF Mode
  <2> QED BY <2>1, <2>2, <2>3, <2>4, <2>5
<1>3. PendingInterrupts \subseteq InterruptType /\ PendingInterrupts # {}
  BY DEF PendingInterrupts, SeesInterrupt
<1>4. RemainingTicks(p) = Min({e(i) : i \in PendingInterrupts})
  BY DEF RemainingTicks, TicksOf
<1>5. ~halted /\ interrupts_double_speed => p \in {0, 3}
  BY <1>1, <1>2 DEF IntInv, IntParts, TableOfSpeed
<1> HIDE DEF p, m
<1>6. \A i \in InterruptType :
        /\ e(i) \in {1, 2, 3, U}
        /\ m # 2 => e(i) # 3
        /\ p \in {1, 3} \/ i # Timer => e(i) # U
        /\ p = 0 /\ (m = 1 \/ (m = 3 /\ ~interrupts_double_speed)) => e(i) # U
        /\ m = 1 /\ p # 3 => e(i) \in {1, U}
  <2> SUFFICES ASSUME NEW i \in InterruptType
               PROVE  /\ e(i) \in {1, 2, 3, U}
                      /\ m # 2 => e(i) # 3
                      /\ p \in {1, 3} \/ i # Timer => e(i) # U
                      /\ p = 0 /\ (m = 1 \/ (m = 3 /\ ~interrupts_double_speed)) => e(i) # U
                      /\ m = 1 /\ p # 3 => e(i) \in {1, U}
    OBVIOUS
  <2>1. CASE interrupts_double_speed
    <3>1. e(i) = InterruptTimingsDoubleSpeed[i + 1][m][p + 1]
      BY <2>1
    <3>2. m = 1 /\ p # 3 => p = 0
      BY <1>2, <1>5, <2>1
    <3> HIDE DEF e
    <3> QED BY <1>2, <2>1, <3>1, <3>2, Entries DEF U
  <2>2. CASE ~interrupts_double_speed
    <3>1. e(i) = InterruptTimings[i + 1][m][p + 1]
      BY <2>2
    <3> HIDE DEF e
    <3> QED BY <1>2, <2>2, <3>1, Entries DEF U
  <2> QED BY <2>1, <2>2
<1> HIDE DEF e
<1>7. PICK i \in PendingInterrupts : e(i) # U
  <2>1. CASE p \in {1, 3}
    BY <1>3, <1>6, <2>1
  <2>2. CASE p = 0 /\ (m = 1 \/ (m = 3 /\ ~interrupts_double_speed))
    BY <1>3, <1>6, <2>2
  <2>3. CASE p = 2 \/ (p = 0 /\ (m = 2 \/ (m = 3 /\ interrupts_double_speed)))
    <3>1. phase \in {1, 3} /\ t \in {1, 3}
      BY <1>1, <1>2, <2>3
    <3>a. NotForTimer
      <4>1. CASE p = 2
        BY <1>1, <1>2, <4>1 DEF NotForTimer
      <4>2. CASE p = 0 /\ m = 2
        BY <1>1, <1>2, <4>2 DEF NotForTimer
      <4>3. CASE p = 0 /\ m = 3 /\ interrupts_double_speed
        BY <1>1, <1>2, <4>3 DEF NotForTimer
      <4> QED BY <2>3, <4>1, <4>2, <4>3
    <3>2. PendingInterrupts \cap {VBlank, Stat} # {}
      BY <3>1, <3>a DEF IntInv, IntParts, TimerSeenBefore, BeforeOddCheck
    <3>3. Timer \notin {VBlank, Stat}
      BY DEF Timer, VBlank, Stat
    <3> QED BY <1>3, <1>6, <3>2, <3>3
  <2> QED BY <1>2, <2>1, <2>2, <2>3
<1> DEFINE S == {e(j) : j \in PendingInterrupts}
<1>8. S \subseteq {1, 2, 3, U} /\ e(i) \in S
  BY <1>3, <1>6
<1>9. e(i) \in {1, 2, 3} /\ (m # 2 => e(i) # 3) /\ (m = 1 /\ p # 3 => e(i) = 1)
  BY <1>3, <1>6, <1>7
<1>10. RemainingTicks(p) \in S /\ RemainingTicks(p) <= e(i)
  <2> HIDE DEF S
  <2>1. Min(S) \in S /\ Min(S) <= e(i)
    BY <1>7, <1>8, LowestTiming
  <2> QED BY <1>4, <2>1 DEF S
<1>11. /\ RemainingTicks(p) \in 1 .. 3
       /\ RemainingTicks(p) = 3 => m = 2
       /\ RemainingTicks(p) >= 2 => m # 1 \/ p = 3
  <2> DEFINE r == RemainingTicks(p)
             f == e(i)
  <2>1. r \in {1, 2, 3, U} /\ r <= f
    BY <1>8, <1>10
  <2>2. f \in {1, 2, 3} /\ (m # 2 => f # 3) /\ (m = 1 /\ p # 3 => f = 1)
    BY <1>9
  <2> HIDE DEF S, r, f
  <2>3. r \in 1 .. 3 /\ (r = 3 => m = 2) /\ (r >= 2 => m # 1 \/ p = 3)
    BY <2>1, <2>2 DEF U
  <2> QED BY <2>3 DEF r
<1>12. /\ m = 2 => halted /\ ~switching_speed
       /\ m # 1 \/ p = 3 => halted \/ phase = 0
  BY <1>1, <1>2
<1> QED BY <1>11, <1>12 DEF p

(* check_interrupt. *)
LEMMA IntCheck ==
  ASSUME IntInv, CpuCheck
  PROVE  IntParts'
<1> USE DEF IntInv, IntParts
<1>1. /\ UNCHANGED <<t, halted, current_speed, enter_countdown, exit_countdown,
                     interrupts_block, interrupts_double_speed, ime, fetching, op, counter, io,
                     pushed, stopped>>
      /\ PendingInterrupts' = PendingInterrupts
      /\ stage = "check" /\ ~stopped
      /\ stage' \in {"service", "flush", "switch", "devices"}
      /\ phase' = (phase + 1) % (IF current_speed THEN 2 ELSE 4)
      /\ phase' = 1 => stage' = "service"
  BY DEF CpuCheck, CheckInterrupt, GoTo, AfterCpu, Odd, MicroopDue, interruptVars, speedVars,
     blocks, stopVars, PendingInterrupts
<1>2. switching_speed' = switching_speed
  BY <1>1 DEF switching_speed
<1>3. CASE ~SeesInterrupt
  <2>1. UNCHANGED <<istate, remaining>>
    BY <1>3 DEF CpuCheck, CheckInterrupt
  <2>2. ~SeesInterrupt'
    BY <1>1, <1>3, <2>1 DEF SeesInterrupt
  <2>3. Decoding' /\ HaltedAtRest'
    BY <1>1, <2>1 DEF Decoding, HaltedAtRest
  <2>4. AnswerNear' /\ TakenBackRunning' /\ ServedStaysPending'
    BY <1>1, <1>2, <2>1 DEF AnswerNear, TakenBackRunning, ServedStaysPending
  <2>5. BlockedInSwitch' /\ TableOfSpeed' /\ WokenFromSwitch' /\ TimerSeenBefore'
    BY <1>1, <1>2, <2>1, <2>2 DEF BlockedInSwitch, TableOfSpeed, WokenFromSwitch, TimerSeenBefore
  <2> QED BY <2>3, <2>4, <2>5
<1>4. CASE SeesInterrupt
  <2>1. istate' = "Pending" /\ remaining' = RemainingTicks(CheckPosition)
    BY <1>4 DEF CpuCheck, CheckInterrupt
  <2>2. istate = "None" /\ ~interrupts_block.blocked /\ PendingInterrupts # {}
    BY <1>4 DEF SeesInterrupt
  <2>3. /\ remaining' \in 1 .. 3
        /\ remaining' = 3 => halted /\ ~switching_speed
        /\ remaining' >= 2 => halted \/ phase = 0
    BY <1>1, <1>4, <2>1, Timing
  <2>4. phase = 0 => io = Idle
    BY <1>1 DEF DmaInv, WriteFlushed
  <2>5. Decoding' /\ HaltedAtRest'
    BY <1>1, <2>1, <2>2 DEF Decoding, HaltedAtRest
  <2>6. AnswerNear' /\ TakenBackRunning' /\ ServedStaysPending'
    BY <1>1, <1>2, <2>1, <2>2, <2>3, <2>4
    DEF AnswerNear, TakenBackRunning, ServedStaysPending, HaltedAtRest
  <2>7. BlockedInSwitch' /\ TableOfSpeed'
    BY <1>1, <2>1, <2>2 DEF BlockedInSwitch, TableOfSpeed
  <2>8. WokenFromSwitch' /\ TimerSeenBefore'
    BY <1>1, <1>2, <1>4, <2>1, CheckMode DEF WokenFromSwitch, TimerSeenBefore, SeesInterrupt
  <2> QED BY <2>5, <2>6, <2>7, <2>8
<1> QED BY <1>3, <1>4

(* What an instruction does first, or next, while no switch begins. *)
LEMMA MicroopDecodes ==
  ASSUME NEW o, NEW c \in Nat, Microop(o, c), Decoding,
         o # Isr, o # Halt, o # Stop, istate # "Serving"
  PROVE  /\ UNCHANGED <<istate, halted, iflag, speedVars, stopVars, pushed>>
         /\ Decoding'
         /\ c = 0 /\ ime = "Disabled" => ime' # "Enabled"
<1> USE DEF Decoding, Nop, Cb, Ldh, Reti, Isr, Halt, Stop, Ei, Di
<1>1. CASE o \in {Nop, Cb} /\ NopM0
  BY <1>1 DEF NopM0, EndInstruction, FetchAfter, Advance
<1>2. CASE o = Cb /\ CbM0
  BY <1>2 DEF CbM0, Continue
<1>3. CASE o = Di /\ DiM0
  BY <1>3 DEF DiM0, FetchAfter, Advance
<1>4. CASE o = Ei /\ EiM0
  BY <1>4 DEF EiM0, Advance
<1>5. CASE o = Ldh /\ LdhMicroop(c)
  BY <1>5 DEF LdhMicroop, Continue, FetchAfter, Advance
<1>6. CASE o = Reti /\ RetiMicroop(c)
  BY <1>6 DEF RetiMicroop, Continue, FetchAfter, Advance
<1> QED BY <1>1, <1>2, <1>3, <1>4, <1>5, <1>6 DEF Microop

(* Where the CPU stands when it executes. *)
LEMMA ExecuteAt ==
  ASSUME IntInv, CpuExecute
  PROVE  /\ UNCHANGED <<t, phase, remaining, ienable>>
         /\ stage = "execute" /\ stage' \in {"flush", "switch", "devices"}
         /\ phase = 1 /\ t \in {0, 2} /\ io = Idle /\ ~halted
         /\ ~(enter_countdown > 0 /\ ~current_speed)
         /\ enter_countdown > 0 => switching_speed
         /\ ~interrupts_block.blocked /\ interrupts_block.countdown = 0
         /\ switching_speed => ~switch_speed
         /\ \E o : /\ Microop(o, counter)
                   /\ o = Isr <=> istate = "Serving"
                   /\ o \in {Halt, Stop} => counter = 0
<1> USE DEF IntInv, IntParts
<1>1. /\ UNCHANGED <<t, phase, remaining, ienable>>
      /\ stage = "execute" /\ stage' \in {"flush", "switch", "devices"}
  BY DEF CpuExecute, Execute, GoTo, AfterMicroop, AfterCpu, Odd
<1>2. phase = 1
  BY <1>1 DEF DmaInv, PhaseInv, StageFitsPhase
<1>3. t \in {0, 2}
  BY <1>1, <1>2 DEF DmaInv, PhaseInv, PhaseTypeOK, Parity, BetweenTicks
<1>4. io = Idle /\ ~AfterMicroOperation /\ ~halted
  BY <1>1 DEF DmaInv, WriteFlushed, AfterMicroOperation, SwitchHoldsCpu
<1>5. /\ ~(enter_countdown > 0 /\ ~current_speed)
      /\ enter_countdown > 0 => switching_speed
  BY <1>1, <1>2, <1>4 DEF DmaInv, EnterWithinSwitch, PhaseInv, PhaseTypeOK, EnterAligned
<1>6. ~interrupts_block.blocked /\ interrupts_block.countdown = 0
  BY <1>4 DEF BlockedInSwitch
<1>7. switching_speed => ~switch_speed
  BY DEF DmaInv, BusyIsQuiet, Busy
<1>8. \E o : /\ Microop(o, counter)
             /\ o = Isr <=> istate = "Serving"
             /\ o \in {Halt, Stop} => counter = 0
  <2>1. CASE fetching
    <3>1. PICK o \in Ops : Microop(o, 0)
      BY <2>1 DEF CpuExecute, Execute
    <3>2. o # Isr /\ istate # "Serving" /\ counter = 0
      BY <2>1, CpuAssumption
      DEF Decoding, Nop, Cb, Ei, Di, Halt, Stop, Reti, Ldh, Isr
    <3> QED BY <3>1, <3>2
  <2>2. CASE ~fetching
    <3>1. Microop(op, counter)
      BY <2>2 DEF CpuExecute, Execute
    <3>2. op \notin {Halt, Stop}
      BY DEF Decoding, Nop, Cb, Halt, Stop, Reti, Ldh, Isr
    <3> QED BY <3>1, <3>2 DEF Decoding
  <2> QED BY <2>1, <2>2
<1> QED BY <1>1, <1>2, <1>3, <1>4, <1>5, <1>6, <1>7, <1>8

(* An instruction that neither halts nor switches the speed. *)
LEMMA IntPlain ==
  ASSUME IntInv, CpuExecute, Decoding',
         UNCHANGED <<istate, halted, iflag, speedVars, pushed>>,
         istate # "Serving",
         counter = 0 /\ ime = "Disabled" => ime' # "Enabled"
  PROVE  IntParts'
<1> USE ExecuteAt DEF IntInv, IntParts
<1>1. /\ PendingInterrupts' = PendingInterrupts /\ switching_speed' = switching_speed
      /\ UNCHANGED <<current_speed, enter_countdown, exit_countdown, interrupts_block,
                     interrupts_double_speed>>
  BY DEF PendingInterrupts, switching_speed, speedVars, blocks
<1>2. HaltedAtRest'
  BY DEF HaltedAtRest
<1>3. AnswerNear' /\ TakenBackRunning' /\ ServedStaysPending'
  BY <1>1 DEF AnswerNear, TakenBackRunning, ServedStaysPending
<1>4. BlockedInSwitch' /\ TableOfSpeed'
  BY <1>1 DEF BlockedInSwitch, TableOfSpeed
<1>5. WokenFromSwitch' /\ TimerSeenBefore'
  BY <1>1 DEF WokenFromSwitch, TimerSeenBefore, NotForTimer
<1> QED BY <1>2, <1>3, <1>4, <1>5

(* HALT, or STOP with a key down: the CPU halts if nothing is pending. *)
LEMMA IntHalt ==
  ASSUME IntInv, CpuExecute, istate # "Serving", counter = 0,
         UNCHANGED <<istate, io, pushed, iflag, speedVars>>,
         op' = Nop, counter' = 0, ime' = Advance(ime), fetching' \in BOOLEAN,
         halted' = (PendingInterrupts = {})
  PROVE  IntParts'
<1> USE ExecuteAt DEF IntInv, IntParts
<1>1. /\ PendingInterrupts' = PendingInterrupts /\ switching_speed' = switching_speed
      /\ UNCHANGED <<current_speed, enter_countdown, exit_countdown, interrupts_block,
                     interrupts_double_speed>>
  BY DEF PendingInterrupts, switching_speed, speedVars, blocks
<1>2. Decoding' /\ HaltedAtRest'
  BY DEF Decoding, HaltedAtRest, Advance, Nop, Isr
<1>3. AnswerNear' /\ TakenBackRunning' /\ ServedStaysPending'
  BY <1>1 DEF AnswerNear, TakenBackRunning, ServedStaysPending
<1>4. BlockedInSwitch' /\ TableOfSpeed'
  BY <1>1 DEF BlockedInSwitch, TableOfSpeed
<1>5. WokenFromSwitch'
  <2>1. switching_speed => istate = "None" /\ ime = "Disabled"
    BY DEF WokenFromSwitch
  <2>2. switching_speed' => istate' = "None" /\ ime' = "Disabled"
    BY <1>1, <2>1 DEF Advance
  <2> QED BY <2>2 DEF WokenFromSwitch
<1>6. TimerSeenBefore'
  <2>1. CASE PendingInterrupts = {}
    BY <1>1, <2>1 DEF TimerSeenBefore, SeesInterrupt
  <2>2. CASE PendingInterrupts # {}
    <3>1. ~halted'
      BY <2>2
    <3> QED BY <3>1 DEF TimerSeenBefore, NotForTimer
  <2> QED BY <2>1, <2>2
<1> QED BY <1>2, <1>3, <1>4, <1>5, <1>6

(* STOP, armed. *)
LEMMA IntSwitchSpeed ==
  ASSUME IntInv, CpuExecute, istate # "Serving", counter = 0,
         UNCHANGED <<istate, io, pushed, iflag>>, switch_speed, SwitchSpeed,
         op' = Nop, counter' = 0, ime' = Advance(ime), fetching' \in BOOLEAN
  PROVE  IntParts'
<1> USE ExecuteAt DEF IntInv, IntParts
<1>1. ~switching_speed /\ enter_countdown = 0
  BY DEF DmaInv, PhaseInv, PhaseTypeOK
<1>2. /\ halted' /\ enter_countdown' = 2 /\ current_speed' = current_speed
      /\ interrupts_double_speed' = ~current_speed
      /\ exit_countdown' \in Nat /\ exit_countdown' > 4
      /\ IF current_speed THEN interrupts_block' = interrupts_block
         ELSE interrupts_block' = [blocked |-> TRUE, countdown |-> 3]
  BY SpeedSwitchAssumption DEF SwitchSpeed, EnterTicks
<1>3. PendingInterrupts' = PendingInterrupts /\ switching_speed'
  BY <1>2 DEF PendingInterrupts, switching_speed
<1>4. Decoding' /\ HaltedAtRest'
  BY DEF Decoding, HaltedAtRest, Advance, Nop, Isr
<1>5. AnswerNear' /\ TakenBackRunning' /\ ServedStaysPending'
  BY <1>3 DEF AnswerNear, TakenBackRunning, ServedStaysPending
<1>6. TableOfSpeed'
  <2>1. interrupts_double_speed' \in BOOLEAN /\ (interrupts_double_speed' <=> ~current_speed)
    BY <1>2
  <2>2. enter_countdown' > 0 /\ halted' /\ (current_speed' <=> current_speed)
    BY <1>2
  <2> QED BY <2>1, <2>2 DEF TableOfSpeed
<1>7. BlockedInSwitch'
  <2>1. CASE current_speed
    BY <1>2, <2>1 DEF BlockedInSwitch
  <2>2. CASE ~current_speed
    <3>1. interrupts_block'.blocked /\ interrupts_block'.countdown = 3
      BY <1>2, <2>2
    <3>2. interrupts_block' \in [blocked : BOOLEAN, countdown : 0 .. 3]
      <4>1. interrupts_block' = [blocked |-> TRUE, countdown |-> 3]
        BY <1>2, <2>2
      <4>2. TRUE \in BOOLEAN /\ 3 \in 0 .. 3
        OBVIOUS
      <4> QED BY <4>1, <4>2
    <3>3. /\ halted' /\ enter_countdown' = 2 /\ ~current_speed'
          /\ exit_countdown' \in Nat /\ exit_countdown' > 4
      BY <1>2, <2>2
    <3> QED BY <3>1, <3>2, <3>3 DEF BlockedInSwitch
  <2> QED BY <2>1, <2>2
<1>8. WokenFromSwitch'
  BY <1>2 DEF WokenFromSwitch
<1>9. TimerSeenBefore'
  <2>1. CASE current_speed
    <3>1. ~interrupts_double_speed' /\ phase' = 1 /\ switching_speed'
      BY <1>2, <1>3, <2>1
    <3> QED BY <3>1 DEF TimerSeenBefore, NotForTimer
  <2>2. CASE ~current_speed
    <3>1. interrupts_block'.blocked
      BY <1>2, <2>2
    <3> QED BY <3>1 DEF TimerSeenBefore, SeesInterrupt
  <2> QED BY <2>1, <2>2
<1> QED BY <1>4, <1>5, <1>6, <1>7, <1>8, <1>9

(* isr_m0 to isr_m4. *)
LEMMA IntIsr ==
  ASSUME IntInv, CpuExecute, istate = "Serving", IsrMicroop(counter),
         UNCHANGED <<halted, speedVars>>
  PROVE  IntParts'
<1> USE ExecuteAt DEF IntInv, IntParts
<1>1. /\ switching_speed' = switching_speed
      /\ UNCHANGED <<current_speed, enter_countdown, exit_countdown, interrupts_block,
                     interrupts_double_speed>>
  BY DEF switching_speed, speedVars, blocks
<1>2. /\ counter' \in Nat /\ remaining = 0
      /\ istate' \in {"Serving", "None"}
      /\ istate' = "None" => op' = Nop /\ counter' = 0 /\ ime' = "Disabled"
      /\ istate' = "Serving" => op' = Isr /\ ~fetching' /\ ime' = ime /\ counter' = counter + 1
  BY DEF IsrMicroop, Continue, FetchAfter, Advance, Decoding, AnswerNear
<1>3. Decoding' /\ HaltedAtRest' /\ AnswerNear'
  BY <1>1, <1>2 DEF Decoding, HaltedAtRest, AnswerNear, Nop, Isr
<1>4. TakenBackRunning'
  BY <1>2 DEF TakenBackRunning
<1>5. ServedStaysPending'
  <2>1. CASE counter \in {0, 1}
    <3>1. UNCHANGED <<io, iflag>> /\ counter' \in {1, 2}
      BY <2>1 DEF IsrMicroop, Continue
    <3>2. PendingInterrupts' = PendingInterrupts
      BY <3>1 DEF PendingInterrupts
    <3> QED BY <2>1, <3>1, <3>2 DEF ServedStaysPending
  <2>2. CASE counter = 2
    <3>1. io' = pushed' /\ iflag' = iflag /\ counter' = 3
      BY <2>2 DEF IsrMicroop, Continue
    <3>2. PendingInterrupts' = PendingInterrupts
      BY <3>1 DEF PendingInterrupts
    <3> QED BY <2>2, <3>1, <3>2 DEF ServedStaysPending
  <2>3. CASE counter \notin {0, 1, 2}
    <3>1. counter' = 4 \/ istate' = "None"
      BY <2>3 DEF IsrMicroop, Continue
    <3> QED BY <3>1 DEF ServedStaysPending
  <2> QED BY <2>1, <2>2, <2>3
<1>6. BlockedInSwitch' /\ TableOfSpeed'
  BY <1>1 DEF BlockedInSwitch, TableOfSpeed
<1>7. WokenFromSwitch' /\ TimerSeenBefore'
  BY <1>1, <1>2 DEF WokenFromSwitch, TimerSeenBefore, NotForTimer
<1> QED BY <1>3, <1>4, <1>5, <1>6, <1>7

(* The rest of tick_microop, whatever the instruction. *)
LEMMA IntExecute ==
  ASSUME IntInv, CpuExecute
  PROVE  IntParts'
<1>1. PICK o : /\ Microop(o, counter)
               /\ o = Isr <=> istate = "Serving"
               /\ o \in {Halt, Stop} => counter = 0
  BY ExecuteAt
<1>2. Decoding /\ counter \in Nat
  BY DEF IntInv, IntParts, Decoding
<1>3. CASE o \notin {Isr, Halt, Stop}
  <2>1. /\ UNCHANGED <<istate, halted, iflag, speedVars, stopVars, pushed>>
        /\ Decoding'
        /\ counter = 0 /\ ime = "Disabled" => ime' # "Enabled"
    BY <1>1, <1>2, <1>3, MicroopDecodes
  <2> QED BY <1>1, <1>3, <2>1, IntPlain
<1>4. CASE o = Halt
  <2>1. HaltM0 /\ istate # "Serving" /\ counter = 0
    BY <1>1, <1>4 DEF Microop, Nop, Cb, Di, Ei, Halt, Stop, Ldh, Reti, Isr
  <2> QED BY <2>1, IntHalt DEF HaltM0, EndInstruction, FetchAfter
<1>5. CASE o = Stop
  <2>1. StopM0 /\ istate # "Serving" /\ counter = 0
    BY <1>1, <1>5 DEF Microop, Nop, Cb, Di, Ei, Halt, Stop, Ldh, Reti, Isr
  <2>2. /\ UNCHANGED <<istate, io, pushed, iflag>>
        /\ op' = Nop /\ counter' = 0 /\ ime' = Advance(ime) /\ fetching' \in BOOLEAN
    BY <2>1 DEF StopM0
  <2>3. \/ halted' = (PendingInterrupts = {}) /\ UNCHANGED speedVars
        \/ switch_speed /\ SwitchSpeed
        \/ UNCHANGED <<halted, speedVars>>
    BY <2>1 DEF StopM0
  <2>4. CASE halted' = (PendingInterrupts = {}) /\ UNCHANGED speedVars
    BY <2>1, <2>2, <2>4, IntHalt
  <2>5. CASE switch_speed /\ SwitchSpeed
    BY <2>1, <2>2, <2>5, IntSwitchSpeed
  <2>6. CASE UNCHANGED <<halted, speedVars>>
    <3>1. Decoding' /\ (ime = "Disabled" => ime' # "Enabled")
      BY <1>2, <2>1, <2>2 DEF Decoding, Advance, Nop, Isr
    <3> QED BY <2>1, <2>2, <2>6, <3>1, IntPlain
  <2> QED BY <2>3, <2>4, <2>5, <2>6
<1>6. CASE o = Isr
  <2>1. IsrMicroop(counter) /\ UNCHANGED <<halted, speedVars>> /\ istate = "Serving"
    BY <1>1, <1>6 DEF Microop, Nop, Cb, Di, Ei, Halt, Stop, Ldh, Reti, Isr
  <2> QED BY <2>1, IntIsr
<1> QED BY <1>3, <1>4, <1>5, <1>6

(* Every step of the core keeps the invariant. *)
LEMMA IntStep == IntInv /\ [Next]_vars => IntInv'
<1> SUFFICES ASSUME IntInv, [Next]_vars PROVE IntParts'
  BY DmaStep DEF IntInv
<1> QED
  BY IntQuiet, IntCheck, IntService, IntExecute, IntFlush, IntSwitch DEF Next, Tick

(* What an interrupt meets: a halted CPU that wakes still has it pending,  *)
(* one that runs out of a switch sees no other, the tables know the T-cycle *)
(* of each check, and only a push over IE or IF takes a served one back.   *)
THEOREM InterruptsAlwaysInOrder == Spec => []InterruptsInOrder
<1>1. IntInv => InterruptsInOrder
  <2> SUFFICES ASSUME IntInv PROVE InterruptsInOrder
    OBVIOUS
  <2>1. SwitchingWhileHalted
    BY CheckMode DEF SwitchingWhileHalted
  <2>2. TimingKnown
    BY Timing DEF TimingKnown
  <2>3. NoSpuriousWake
    BY DEF NoSpuriousWake, IntInv, IntParts, TakenBackRunning
  <2>4. CancelledOnlyByPush
    BY DEF CancelledOnlyByPush, IntInv, IntParts, ServedStaysPending, Decoding
  <2>5. InterruptsBlockedOnlyInSwitch
    BY DEF InterruptsBlockedOnlyInSwitch, IntInv, IntParts, BlockedInSwitch, switching_speed,
       DmaInv, DmaTypeOK
  <2> QED BY <2>1, <2>2, <2>3, <2>4, <2>5 DEF InterruptsInOrder
<1> QED BY <1>1, IntInit, IntStep, PTL DEF Spec

(* The countdown of a block stays a block. *)
LEMMA BlockCounts ==
  ASSUME NEW b \in Block
  PROVE  CountDown(b) \in Block
<1>1. b.blocked \in BOOLEAN /\ b.countdown \in 0 .. 4
  BY DEF Block
<1>2. CASE b.countdown = 0
  BY <1>2 DEF CountDown
<1>3. CASE b.countdown = 1
  <2>1. CountDown(b) = [blocked |-> ~b.blocked, countdown |-> 0]
    BY <1>3 DEF CountDown
  <2> QED BY <2>1 DEF Block
<1>4. CASE b.countdown \notin {0, 1}
  <2>1. CountDown(b) = [b EXCEPT !.countdown = b.countdown - 1]
    BY <1>4 DEF CountDown
  <2>2. b.countdown - 1 \in 0 .. 4
    BY <1>1, <1>4
  <2> QED BY <2>1, <2>2 DEF Block
<1> QED BY <1>1, <1>2, <1>3, <1>4

(* What the devices raise is a request. *)
LEMMA RaisedTyped ==
  ASSUME InterruptsTypeOK, NEW types, types \subseteq InterruptType
  PROVE  Raised(types) \in SUBSET (0 .. 7)
BY DEF InterruptsTypeOK, Raised, InterruptType, VBlank, Stat, Timer, Serial, Joypad

(* The steps outside the CPU. *)
LEMMA TypeQuiet ==
  ASSUME TypeOK, PressOrRelease \/ StartCycle \/ Stopped \/ TickDevices \/ UNCHANGED vars
  PROVE  TypeOK'
<1> USE DEF TypeOK
<1>1. UNCHANGED <<halted, speedVars, cpuVars, ienable>>
  BY DEF PressOrRelease, SetKeyState, StartCycle, Stopped, StoppedTick, TickDevices, vars,
         scheduleVars, interruptVars
<1>2. SpeedTypeOK' /\ CpuTypeOK'
  BY <1>1 DEF SpeedTypeOK, CpuTypeOK, speedVars, blocks, cpuVars
<1>3. CASE PressOrRelease
  <2>1. PICK g \in Groups : SetKeyState(g)
    BY <1>3 DEF PressOrRelease
  <2>2. JoypadTypeOK'
    BY <2>1 DEF SetKeyState, JoypadTypeOK
  <2>3. iflag' = iflag \/ iflag' = Raised({Joypad})
    BY <2>1 DEF SetKeyState
  <2>4. InterruptsTypeOK'
    BY <1>3, <2>1, <2>3, RaisedTyped DEF SetKeyState, InterruptsTypeOK, InterruptType
  <2> QED BY <1>2, <1>3, <2>2, <2>4 DEF PressOrRelease, scheduleVars, stopVars, StopTypeOK
<1>4. CASE StartCycle \/ UNCHANGED vars
  BY <1>2, <1>4
  DEF StartCycle, GoTo, vars, scheduleVars, interruptVars, joypadVars, stopVars, InterruptsTypeOK,
      JoypadTypeOK, StopTypeOK, Stages
<1>5. CASE Stopped
  <2>1. PICK types \in SUBSET Sources : StoppedTick(t, types)
    BY <1>5 DEF Stopped
  <2>2. InterruptsTypeOK'
    BY <2>1, RaisedTyped, CpuAssumption DEF StoppedTick, InterruptsTypeOK
  <2>3. StopTypeOK'
    BY <2>1 DEF StoppedTick, StopTypeOK
  <2> QED BY <1>2, <1>5, <2>2, <2>3 DEF Stopped, EndTick, joypadVars, JoypadTypeOK, Stages
<1>6. CASE TickDevices
  <2>1. PICK types \in SUBSET Sources : iflag' = Raised(types)
    BY <1>6 DEF TickDevices, Raising
  <2>2. InterruptsTypeOK'
    BY <1>6, <2>1, RaisedTyped, CpuAssumption DEF TickDevices, InterruptsTypeOK
  <2>3. StopTypeOK'
    BY <1>6 DEF TickDevices, StopTick, StopTypeOK, stopVars
  <2> QED BY <1>2, <1>6, <2>2, <2>3 DEF TickDevices, EndTick, joypadVars, JoypadTypeOK, Stages
<1> QED BY <1>3, <1>4, <1>5, <1>6

(* check_interrupt, tick_microop up to the instruction, flush_write. *)
LEMMA TypeTick ==
  ASSUME IntInv, TypeOK, CpuCheck \/ CpuService \/ CpuFlush
  PROVE  TypeOK'
<1> USE DEF TypeOK
<1>1. CASE CpuCheck
  <2>1. phase' \in 0 .. 3
    BY <1>1 DEF CpuCheck, CheckInterrupt, CpuTypeOK
  <2>2. istate' \in {"None", "Pending", "Serving"} /\ remaining' \in 0 .. 3
    <3>1. CASE SeesInterrupt
      BY <1>1, <3>1, Timing DEF CpuCheck, CheckInterrupt
    <3>2. CASE ~SeesInterrupt
      BY <1>1, <3>2 DEF CpuCheck, CheckInterrupt, CpuTypeOK
    <3> QED BY <3>1, <3>2
  <2>3. CpuTypeOK'
    BY <1>1, <2>1, <2>2 DEF CpuCheck, CheckInterrupt, CpuTypeOK
  <2> QED
    BY <1>1, <2>3
    DEF CpuCheck, GoTo, AfterCpu, Stages, interruptVars, speedVars, blocks, joypadVars, stopVars,
        InterruptsTypeOK, SpeedTypeOK, JoypadTypeOK, StopTypeOK
<1>2. CASE CpuService
  <2>1. remaining' \in 0 .. 3 /\ halted' \in BOOLEAN
    BY <1>2 DEF CpuService, Service, CpuTypeOK, TicksLeft
  <2>2. /\ istate' \in {"None", "Pending", "Serving"} /\ fetching' \in BOOLEAN
        /\ op' \in Ops \cup {Isr} /\ counter' \in 0 .. 4
        /\ UNCHANGED <<phase, ime, io, pushed, shadow>>
    <3>1. CASE UNCHANGED <<istate, fetching, op, counter>>
      BY <1>2, <3>1 DEF CpuService, Service, CpuTypeOK
    <3>2. CASE istate' = "Serving" /\ fetching' = FALSE /\ op' = Isr /\ counter' = 0
      <4>1. fetching' \in BOOLEAN
        BY <3>2
      <4>2. UNCHANGED <<phase, ime, io, pushed, shadow>>
        BY <1>2 DEF CpuService, Service
      <4> QED BY <3>2, <4>1, <4>2
    <3>3. CASE istate' = "None" /\ UNCHANGED <<fetching, op, counter>>
      BY <1>2, <3>3 DEF CpuService, Service, CpuTypeOK
    <3> QED BY <1>2, <3>1, <3>2, <3>3 DEF CpuService, Service
  <2>3. CpuTypeOK'
    BY <2>1, <2>2 DEF CpuTypeOK
  <2> QED
    BY <1>2, <2>1, <2>3
    DEF CpuService, GoTo, AfterMicroop, AfterCpu, Stages, interruptVars, speedVars, blocks,
        joypadVars, stopVars, InterruptsTypeOK, SpeedTypeOK, JoypadTypeOK, StopTypeOK
<1>3. CASE CpuFlush
  <2>1. CpuTypeOK'
    BY <1>3 DEF CpuFlush, FlushWrite, CpuTypeOK
  <2>2. InterruptsTypeOK'
    <3>1. CASE io = "IF" /\ \E bits \in SUBSET Sources : WriteIF(bits)
      BY <3>1, CpuAssumption
      DEF WriteIF, InterruptsTypeOK, UnusedIF, InterruptType, VBlank, Stat, Timer, Serial, Joypad
    <3>2. CASE ienable' \in SUBSET EnableBits /\ UNCHANGED <<iflag, block_interrupts>>
      BY <3>2, CpuAssumption DEF InterruptsTypeOK
    <3>3. CASE UNCHANGED interruptVars
      BY <3>3 DEF interruptVars, InterruptsTypeOK
    <3> QED BY <1>3, <3>1, <3>2, <3>3 DEF CpuFlush, FlushWrite, interruptVars
  <2>3. SpeedTypeOK' /\ JoypadTypeOK'
    BY <1>3 DEF CpuFlush, FlushWrite, WriteIF, blocks, SpeedTypeOK, JoypadTypeOK
  <2> QED
    BY <1>3, <2>1, <2>2, <2>3 DEF CpuFlush, GoTo, AfterCpu, Stages, stopVars, StopTypeOK
<1> QED BY <1>1, <1>2, <1>3

(* The tick of the speed switch controller. *)
LEMMA TypeSwitch ==
  ASSUME TypeOK, TickSpeedSwitch
  PROVE  TypeOK'
<1> USE DEF TypeOK
<1>1. PICK types \in SUBSET Sources : SpeedTick(types)
  BY DEF TickSpeedSwitch
<1>2. InterruptsTypeOK'
  BY <1>1, RaisedTyped, CpuAssumption DEF SpeedTick, InterruptsTypeOK
<1>3. dma_block' \in Block /\ timers_block' \in Block
  <2>1. Unblocked \in Block /\ [dma_block EXCEPT !.countdown = 2] \in Block
    BY DEF Unblocked, Block, SpeedTypeOK
  <2>2. DmaBlockAfterExit \in Block
    BY <2>1 DEF DmaBlockAfterExit, SpeedTypeOK
  <2> QED BY <1>1, <2>2, BlockCounts DEF SpeedTick, SpeedTypeOK
<1>4. interrupts_block' \in Block
  <2>1. interrupts_block \in Block /\ interrupts_block.countdown \in 0 .. 4
    BY DEF SpeedTypeOK, Block
  <2>2. Unblocked \in Block
    BY DEF Unblocked, Block
  <2>3. CASE interrupts_block.countdown = 0
    BY <1>1, <2>1, <2>3 DEF SpeedTick, CountDownInterrupts
  <2>4. CASE interrupts_block.countdown # 0
    <3>1. interrupts_block.countdown - 1 \in 0 .. 4
      BY <2>1, <2>4
    <3>2. [interrupts_block EXCEPT !.countdown = interrupts_block.countdown - 1] \in Block
      BY <2>1, <3>1 DEF Block
    <3> QED BY <1>1, <2>2, <2>4, <3>2 DEF SpeedTick, CountDownInterrupts
  <2> QED BY <2>3, <2>4
<1>5. /\ halted' \in BOOLEAN /\ switch_speed' \in BOOLEAN
      /\ enter_countdown' \in 0 .. 2 /\ exit_countdown' \in Nat /\ ppu_block' \in BOOLEAN
      /\ interrupts_double_speed' \in BOOLEAN
  <2>1. exit_countdown' \in Nat
    BY <1>1 DEF SpeedTick, SpeedTypeOK, ExitAfterTick, switching_speed
  <2>2. enter_countdown' \in 0 .. 2
    BY <1>1 DEF SpeedTick, SpeedTypeOK
  <2> QED BY <1>1, <2>1, <2>2 DEF SpeedTick, SpeedTypeOK
<1>6. current_speed' \in BOOLEAN
  BY <1>1 DEF SpeedTick, SpeedTypeOK
<1>7. SpeedTypeOK'
  BY <1>3, <1>4, <1>5, <1>6 DEF SpeedTypeOK
<1>8. JoypadTypeOK' /\ StopTypeOK' /\ CpuTypeOK' /\ t' \in 0 .. 3 /\ stage' \in Stages
  BY DEF TickSpeedSwitch, GoTo, Stages, joypadVars, stopVars, cpuVars, JoypadTypeOK, StopTypeOK,
         CpuTypeOK
<1> QED BY <1>2, <1>7, <1>8

(* The rest of tick_microop. *)
LEMMA TypeMicroop ==
  ASSUME TypeOK, NEW o \in Ops \cup {Isr}, NEW c \in 0 .. 4, Microop(o, c)
  PROVE  /\ ime' \in {"Disabled", "Requested", "Pending", "Enabled"}
         /\ istate' \in {"None", "Pending", "Serving"}
         /\ fetching' \in BOOLEAN /\ shadow' \in BOOLEAN
         /\ op' \in Ops \cup {Isr} /\ counter' \in 0 .. 4
         /\ io' \in Registers \cup {"RAM", Idle} /\ pushed' \in Registers \cup {"RAM", Idle}
         /\ iflag' \subseteq iflag /\ SpeedTypeOK' /\ StopTypeOK'
<1> DEFINE Moved == /\ fetching' \in BOOLEAN /\ shadow' \in BOOLEAN
                    /\ op' \in Ops \cup {Isr} /\ counter' \in 0 .. 4
           Modes == {"Disabled", "Requested", "Pending", "Enabled"}
           Kept == SpeedTypeOK' /\ StopTypeOK'
<1> HIDE DEF Moved, Kept
<1>1. ASSUME UNCHANGED <<speedVars, stopVars>>, halted' \in BOOLEAN
      PROVE  Kept
  BY <1>1 DEF TypeOK, SpeedTypeOK, speedVars, blocks, StopTypeOK, stopVars, Kept
<1>2. /\ halted \in BOOLEAN /\ ime \in Modes /\ istate \in {"None", "Pending", "Serving"}
      /\ {io, pushed} \subseteq Registers \cup {"RAM", Idle}
      /\ Targets \cup Pushes \cup {"RAM"} \subseteq Registers \cup {"RAM", Idle}
  BY CpuAssumption DEF TypeOK, SpeedTypeOK, CpuTypeOK
<1>3. ASSUME NEW state \in Modes, FetchAfter(state)
      PROVE  Moved /\ ime' \in Modes
  <2>1. fetching' \in BOOLEAN /\ shadow' \in BOOLEAN
    BY <1>3 DEF FetchAfter
  <2>2. op' = Nop /\ counter' = 0 /\ ime' \in Modes
    BY <1>3 DEF FetchAfter, Advance
  <2> QED BY <2>1, <2>2, CpuAssumption DEF Moved
<1>4. ASSUME Continue(o, c), c # 4
      PROVE  Moved
  <2>1. fetching' \in BOOLEAN /\ shadow' \in BOOLEAN
    BY <1>4 DEF Continue, TypeOK, CpuTypeOK
  <2>2. op' = o /\ counter' \in 0 .. 4
    BY <1>4 DEF Continue
  <2> QED BY <2>1, <2>2 DEF Moved
<1>6. CASE NopM0 \/ DiM0 \/ HaltM0
  <2>1. Moved /\ ime' \in Modes
    BY <1>2, <1>3, <1>6 DEF NopM0, DiM0, HaltM0, EndInstruction
  <2>2. Kept
    BY <1>1, <1>2, <1>6 DEF NopM0, DiM0, HaltM0
  <2> QED BY <1>2, <1>6, <2>1, <2>2 DEF NopM0, DiM0, HaltM0, EndInstruction, Moved, Kept
<1>7. CASE EiM0
  <2>1. Moved /\ ime' \in Modes
    BY <1>2, <1>7, CpuAssumption DEF EiM0, Advance, Moved
  <2>2. Kept
    BY <1>1, <1>2, <1>7 DEF EiM0
  <2> QED BY <1>2, <1>7, <2>1, <2>2 DEF EiM0, Moved, Kept
<1>8. CASE o = Cb /\ c = 0 /\ CbM0
  <2>1. Moved
    BY <1>4, <1>8 DEF CbM0
  <2>2. Kept
    BY <1>1, <1>2, <1>8 DEF CbM0
  <2> QED BY <1>2, <1>8, <2>1, <2>2 DEF CbM0, Moved, Kept
<1>9. CASE StopM0
  <2>1. Moved /\ ime' \in Modes
    <3>1. fetching' \in BOOLEAN /\ shadow' \in BOOLEAN /\ op' = Nop /\ counter' = 0
      BY <1>9 DEF StopM0
    <3>2. ime' \in Modes
      BY <1>2, <1>9 DEF StopM0, Advance
    <3> QED BY <3>1, <3>2, CpuAssumption DEF Moved
  <2>2. StopTypeOK'
    BY <1>9 DEF StopM0, TypeOK, StopTypeOK, stopVars, RequestStop
  <2>3. SpeedTypeOK'
    <3>1. CASE UNCHANGED speedVars /\ halted' \in BOOLEAN
      BY <3>1 DEF TypeOK, SpeedTypeOK, speedVars, blocks
    <3>2. CASE SwitchSpeed
      <4>1. /\ [dma_block EXCEPT !.countdown = 3] \in Block
            /\ [dma_block EXCEPT !.countdown = 1] \in Block
        BY DEF TypeOK, SpeedTypeOK, Block
      <4>2. /\ [blocked |-> TRUE, countdown |-> 4] \in Block
            /\ [blocked |-> TRUE, countdown |-> 3] \in Block
            /\ [blocked |-> TRUE, countdown |-> 2] \in Block
        BY DEF Block
      <4>3. /\ dma_block' \in Block /\ timers_block' \in Block /\ interrupts_block' \in Block
        BY <3>2, <4>1, <4>2 DEF SwitchSpeed, TypeOK, SpeedTypeOK
      <4>4. exit_countdown' \in Nat /\ enter_countdown' \in 0 .. 2
        BY <3>2, SpeedSwitchAssumption DEF SwitchSpeed, EnterTicks
      <4>5. /\ halted' \in BOOLEAN /\ switch_speed' \in BOOLEAN /\ current_speed' \in BOOLEAN
            /\ ppu_block' \in BOOLEAN /\ interrupts_double_speed' \in BOOLEAN
        BY <3>2 DEF SwitchSpeed, TypeOK, SpeedTypeOK
      <4> QED BY <4>3, <4>4, <4>5 DEF SpeedTypeOK
    <3> QED BY <1>2, <1>9, <3>1, <3>2 DEF StopM0
  <2> QED BY <1>2, <1>9, <2>1, <2>2, <2>3 DEF StopM0, Moved
<1>10. CASE o = Ldh /\ LdhMicroop(c)
  <2>1. Moved /\ ime' \in Modes
    BY <1>2, <1>3, <1>4, <1>10 DEF LdhMicroop
  <2>2. Kept
    BY <1>1, <1>2, <1>10 DEF LdhMicroop
  <2> QED BY <1>2, <1>10, <2>1, <2>2 DEF LdhMicroop, Moved, Kept
<1>11. CASE o = Reti /\ RetiMicroop(c)
  <2>1. Moved /\ ime' \in Modes
    BY <1>2, <1>3, <1>4, <1>11 DEF RetiMicroop
  <2>2. Kept
    BY <1>1, <1>2, <1>11 DEF RetiMicroop
  <2> QED BY <1>2, <1>11, <2>1, <2>2 DEF RetiMicroop, Moved, Kept
<1>12. CASE o = Isr /\ IsrMicroop(c) /\ UNCHANGED <<halted, speedVars, stopVars>>
  <2>1. Moved /\ ime' \in Modes
    BY <1>2, <1>3, <1>4, <1>12 DEF IsrMicroop
  <2>2. Kept
    BY <1>1, <1>2, <1>12
  <2>3. /\ {io', pushed'} \subseteq Registers \cup {"RAM", Idle}
        /\ istate' \in {"None", "Pending", "Serving"} /\ iflag' \subseteq iflag
    BY <1>2, <1>12 DEF IsrMicroop
  <2> QED BY <2>1, <2>2, <2>3 DEF Moved, Kept
<1> QED BY <1>6, <1>7, <1>8, <1>9, <1>10, <1>11, <1>12 DEF Microop

(* A tick that executes. *)
LEMMA TypeExecute ==
  ASSUME TypeOK, CpuExecute
  PROVE  TypeOK'
<1>1. PICK o \in Ops \cup {Isr}, c \in 0 .. 4 : Microop(o, c)
  <2>1. CASE fetching
    BY <2>1 DEF CpuExecute, Execute
  <2>2. CASE ~fetching
    BY <2>2 DEF CpuExecute, Execute, TypeOK, CpuTypeOK
  <2> QED BY <2>1, <2>2
<1>2. CpuTypeOK' /\ SpeedTypeOK' /\ StopTypeOK'
  BY <1>1, TypeMicroop DEF CpuExecute, Execute, TypeOK, CpuTypeOK
<1>3. InterruptsTypeOK'
  BY <1>1, TypeMicroop DEF CpuExecute, Execute, TypeOK, InterruptsTypeOK
<1>4. JoypadTypeOK' /\ t' \in 0 .. 3 /\ stage' \in Stages
  BY DEF CpuExecute, Execute, joypadVars, GoTo, AfterMicroop, AfterCpu, TypeOK, JoypadTypeOK, Stages
<1> QED BY <1>2, <1>3, <1>4 DEF TypeOK

(* Every variable keeps its type, whatever the program, the keys and the  *)
(* sources do.                                                            *)
THEOREM CoreTyped == Spec => []TypeOK
<1>1. Init => TypeOK
  <2> SUFFICES ASSUME Init PROVE TypeOK
    OBVIOUS
  <2>1. InterruptsTypeOK
    <3>1. block_interrupts \in BOOLEAN
      BY DEF Init, ResetInterrupts
    <3>2. iflag \subseteq 0 .. 7 /\ ienable = {}
      BY DEF Init, ResetInterrupts, UnusedIF, VBlank
    <3> QED BY <3>1, <3>2 DEF InterruptsTypeOK
  <2>2. SpeedTypeOK
    <3>1. /\ halted \in BOOLEAN /\ switch_speed \in BOOLEAN /\ current_speed \in BOOLEAN
          /\ ppu_block \in BOOLEAN /\ interrupts_double_speed \in BOOLEAN
      BY DEF Init, ResetSpeed
    <3>2. Unblocked \in Block
      BY DEF Unblocked, Block
    <3>3. /\ enter_countdown \in 0 .. 2 /\ exit_countdown \in Nat
          /\ {timers_block, interrupts_block, dma_block} \subseteq Block
      BY <3>2 DEF Init, ResetSpeed
    <3> QED BY <3>1, <3>3 DEF SpeedTypeOK
  <2>3. JoypadTypeOK /\ StopTypeOK
    BY DEF Init, ResetJoypad, ResetStop, JoypadTypeOK, StopTypeOK
  <2>4. CpuTypeOK
    <3>1. fetching \in BOOLEAN /\ shadow \in BOOLEAN
      BY DEF Init, ResetCpu
    <3>2. phase = 0 /\ ime = "Disabled" /\ istate = "None" /\ remaining = 0 /\ op = Nop
          /\ counter = 0 /\ io = Idle /\ pushed = Idle
      BY DEF Init, ResetCpu
    <3> QED BY <3>1, <3>2, CpuAssumption DEF CpuTypeOK
  <2> QED BY <2>1, <2>2, <2>3, <2>4 DEF Init, TypeOK, Stages
<1>2. IntInv /\ TypeOK /\ [Next]_vars => TypeOK'
  BY TypeQuiet, TypeTick, TypeSwitch, TypeExecute DEF Next, Tick
<1> QED BY <1>1, <1>2, IntInit, IntStep, PTL DEF Spec

=============================================================================
