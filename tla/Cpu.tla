-------------------------------- MODULE Cpu --------------------------------
(***************************************************************************)
(* The control of the CPU (docboy/cpu, CGB build): the check for pending   *)
(* interrupts at every T-cycle, the service of an interrupt, the delay of  *)
(* EI, HALT, STOP and RETI, the writes that reach IF, IE, KEY1 and P1 and  *)
(* the length of the instructions.  Memory is arbitrary, so an instruction *)
(* fetch may find any opcode, and registers and flags are left out: Nop    *)
(* stands for the instructions of one cycle, Cb for the prefix and those   *)
(* of two, Ldh for those that write a byte.                                *)
(***************************************************************************)
EXTENDS SpeedSwitch, StopController, FiniteSetsExt, Sequences

CONSTANTS
  Ops,      \* the opcodes memory may hold
  Targets,  \* what an instruction may write: registers of this model, or RAM
  Pushes,   \* where the stack may lie: targets of the push of PC
  Sources,    \* interrupts that occur, and bits a write of IF may set
  EnableBits  \* bits a write of IE may set

Nop == "NOP"
Cb == "CB"
Ei == "EI"
Di == "DI"
Halt == "HALT"
Stop == "STOP"
Reti == "RETI"
Ldh == "LDH"
Isr == "ISR"  \* the micro-operations of the interrupt service

Registers == {"IF", "IE", "KEY1", "P1"}
Idle == "Idle"  \* io.state when no write is under way

ASSUME CpuAssumption ==
  /\ Nop \in Ops
  /\ Ops \subseteq {Nop, Cb, Ei, Di, Halt, Stop, Reti, Ldh}
  /\ Targets \subseteq Registers \cup {"RAM"}
  /\ Pushes \subseteq Registers \cup {"RAM"} /\ "RAM" \in Pushes
  /\ Sources \subseteq InterruptType
  /\ EnableBits \subseteq 0 .. 7

VARIABLES
  phase,      \* position in the machine cycle of the CPU, 0 .. 3
  ime,        \* "Disabled", "Requested", "Pending", "Enabled"
  istate,     \* interrupt.state: "None", "Pending", "Serving"
  remaining,  \* interrupt.remaining_ticks
  fetching,   \* the next micro-operation is the first of an opcode just read
  op,         \* instruction the selector points into, when not fetching
  counter,    \* instruction.microop.counter
  io,         \* Idle or the target of the write under way
  pushed,     \* target of the first push of the service under way
  shadow      \* history: the instruction after an EI has not ended yet

cpuVars == <<phase, ime, istate, remaining, fetching, op, counter, io, pushed, shadow>>

CpuTypeOK ==
  /\ phase \in 0 .. 3
  /\ ime \in {"Disabled", "Requested", "Pending", "Enabled"}
  /\ istate \in {"None", "Pending", "Serving"}
  /\ remaining \in 0 .. 3
  /\ fetching \in BOOLEAN
  /\ op \in Ops \cup {Isr}
  /\ counter \in 0 .. 4
  /\ io \in Registers \cup {"RAM", Idle}
  /\ pushed \in Registers \cup {"RAM", Idle}
  /\ shadow \in BOOLEAN

(* The code starts inside the last micro-operation of the boot program, a  *)
(* fetch; Nop is one too.                                                  *)
ResetCpu ==
  /\ phase = 0
  /\ ime = "Disabled"
  /\ istate = "None"
  /\ remaining = 0
  /\ fetching = FALSE
  /\ op = Nop
  /\ counter = 0
  /\ io = Idle
  /\ pushed = Idle
  /\ shadow = FALSE

(***************************************************************************)
(* The ticks an interrupt stays pending: a row per source, in it the modes *)
(* running, halted and switching speed, by position t of the check.        *)
(* U: "this case shouldn't happen at all".                                 *)
(***************************************************************************)
U == 255

InterruptTimings ==
 << << <<1, 1, 1, 2>>, <<2, 2, 2, 3>>, <<1, 1, 2, 2>> >>,
    << <<1, 1, 1, 2>>, <<2, 2, 2, 3>>, <<1, 1, 1, 2>> >>,
    << <<1, 1, U, 2>>, <<U, 2, U, 3>>, <<1, 1, U, 2>> >>,
    << <<1, 1, 1, 2>>, <<2, 2, 2, 3>>, <<1, 1, 1, 2>> >>,
    << <<1, 1, 1, 2>>, <<2, 2, 2, 3>>, <<1, 1, 1, 2>> >> >>

InterruptTimingsSwapped ==
 << << <<1, 2, 1, 2>>, <<2, 2, 2, 2>>, <<1, 2, 1, 2>> >>,
    << <<1, 2, 1, 2>>, <<2, 3, 2, 3>>, <<1, 2, 1, 2>> >>,
    << <<1, 2, 1, 2>>, <<U, 3, U, 3>>, <<2, U, 2, U>> >>,
    << <<1, 2, 1, 2>>, <<2, 3, 2, 3>>, <<1, 2, 1, 2>> >>,
    << <<1, 2, 1, 2>>, <<2, 3, 2, 3>>, <<1, 2, 1, 2>> >> >>

InterruptTimingsDoubleSpeed ==
 << << <<1, 2, 1, 2>>, <<2, 2, 2, 2>>, <<1, 2, 1, 2>> >>,
    << <<1, 2, 1, 2>>, <<2, 3, 2, 3>>, <<1, 2, 1, 2>> >>,
    << <<1, 2, 1, 2>>, <<U, 3, U, 3>>, <<U, 2, U, 2>> >>,
    << <<1, 2, 1, 2>>, <<2, 3, 2, 3>>, <<1, 2, 1, 2>> >>,
    << <<1, 2, 1, 2>>, <<2, 3, 2, 3>>, <<1, 2, 1, 2>> >> >>

Mode == 1 + (IF halted THEN 1 ELSE 0) + (IF switching_speed THEN 1 ELSE 0)

(* With several interrupts pending, the one with the lowest timing. *)
TicksOf(t) ==
  {(IF interrupts_double_speed THEN InterruptTimingsDoubleSpeed
                               ELSE InterruptTimings)[i + 1][Mode][t + 1] :
     i \in PendingInterrupts}

RemainingTicks(t) == Min(TicksOf(t))

(***************************************************************************)
(* A T-cycle of the CPU is a check for interrupts, then by its position a  *)
(* micro-operation (service, then execution) and the flush of a write.     *)
(***************************************************************************)

(* The position of the check made by the tick that is about to start. *)
CheckPosition == IF phase = 0 THEN 3 ELSE phase - 1

SeesInterrupt ==
  /\ ~interrupts_block.blocked
  /\ istate = "None"
  /\ halted \/ ime = "Enabled"
  /\ PendingInterrupts # {}

(* The start of tick_single_speed_0 to _3 and tick_double_speed_0 and _1,  *)
(* and check_interrupt<t>.                                                 *)
CheckInterrupt ==
  /\ phase' = (phase + 1) % (IF current_speed THEN 2 ELSE 4)
  /\ IF SeesInterrupt
       THEN istate' = "Pending" /\ remaining' = RemainingTicks(CheckPosition)
       ELSE UNCHANGED <<istate, remaining>>
  /\ UNCHANGED <<ime, fetching, op, counter, io, pushed, shadow>>

MicroopDue == phase = 1
FlushDue == IF current_speed THEN phase = 1 ELSE phase = 2

TicksLeftUnguarded == remaining - 1
TicksLeft == IF remaining = 0 THEN 0 ELSE remaining - 1

(* tick_microop up to the return of a halted CPU. *)
InterruptDue == istate = "Pending" /\ TicksLeft = 0 /\ counter = 0

ServesAnyway == ime = "Enabled"

ServesInterrupt == ime = "Enabled" /\ PendingInterrupts # {}

Service ==
  /\ remaining' = TicksLeft
  /\ halted' = (halted /\ ~InterruptDue)
  /\ \/ ~InterruptDue /\ UNCHANGED <<istate, fetching, op, counter>>
     \/ /\ InterruptDue /\ ServesInterrupt
        /\ istate' = "Serving" /\ fetching' = FALSE /\ op' = Isr /\ counter' = 0
     \/ /\ InterruptDue /\ ~ServesInterrupt
        /\ istate' = "None" /\ UNCHANGED <<fetching, op, counter>>
  /\ UNCHANGED <<phase, ime, io, pushed, shadow>>

(***************************************************************************)
(* The micro-operations.  ime advances when an instruction ends, to become *)
(* Enabled one instruction after EI.                                       *)
(***************************************************************************)
AdvanceTwice(state) == IF state = "Disabled" THEN state ELSE "Enabled"

Advance(state) ==
  IF state = "Requested" THEN "Pending"
  ELSE IF state = "Pending" THEN "Enabled" ELSE state

(* The instruction goes on with its next micro-operation. *)
Continue(o, c) ==
  /\ op' = o /\ counter' = c + 1 /\ fetching' = FALSE
  /\ UNCHANGED shadow

(* fetch(), with ime as the instruction left it; ends the instruction. *)
FetchAfter(state) ==
  /\ op' = Nop /\ counter' = 0 /\ fetching' = TRUE
  /\ ime' = Advance(state)
  /\ shadow' = FALSE

EndInstruction == FetchAfter(ime) /\ UNCHANGED <<istate, pushed>>

NopM0 == EndInstruction /\ UNCHANGED <<halted, io, iflag, speedVars, stopVars>>

CbM0 ==
  /\ Continue(Cb, 0)
  /\ UNCHANGED <<ime, istate, halted, io, pushed, iflag, speedVars, stopVars>>

DiM0 ==
  /\ FetchAfter("Disabled")
  /\ UNCHANGED <<istate, halted, io, pushed, iflag, speedVars, stopVars>>

EiM0 ==
  /\ op' = Nop /\ counter' = 0 /\ fetching' = TRUE
  /\ ime' = Advance(IF ime = "Disabled" THEN "Requested" ELSE ime)
  /\ shadow' = (ime = "Disabled")
  /\ UNCHANGED <<istate, halted, io, pushed, iflag, speedVars, stopVars>>

(* HALT is entered only if there is no pending interrupt. *)
HaltM0 ==
  /\ EndInstruction
  /\ halted' = (PendingInterrupts = {})
  /\ UNCHANGED <<io, iflag, speedVars, stopVars>>

(***************************************************************************)
(* STOP: with a key down it halts or does nothing, armed it switches the   *)
(* speed, otherwise it stops.  Without pending interrupts it goes on with  *)
(* a NOP in place of the opcode it reads, which makes it two bytes long.   *)
(***************************************************************************)
StopM0 ==
  /\ op' = Nop /\ counter' = 0
  /\ fetching' = (PendingInterrupts # {})
  /\ ime' = Advance(ime)
  /\ shadow' = FALSE
  /\ \/ /\ AnyKeyRead
        /\ halted' = (PendingInterrupts = {})
        /\ UNCHANGED <<speedVars, stopVars>>
     \/ /\ ~AnyKeyRead /\ switch_speed
        /\ SwitchSpeed
        /\ UNCHANGED stopVars
     \/ /\ ~AnyKeyRead /\ ~switch_speed
        /\ RequestStop
        /\ UNCHANGED <<halted, speedVars>>
  /\ UNCHANGED <<istate, io, pushed, iflag>>

(* LDH (a8),A: reads the address, writes, fetches. *)
LdhMicroop(c) ==
  /\ \/ c = 0 /\ Continue(Ldh, c) /\ UNCHANGED <<ime, io>>
     \/ c = 1 /\ Continue(Ldh, c) /\ io' \in Targets /\ UNCHANGED ime
     \/ c = 2 /\ FetchAfter(ime) /\ UNCHANGED io
  /\ UNCHANGED <<istate, halted, pushed, iflag, speedVars, stopVars>>

(* RETI enables interrupts one micro-operation before it ends. *)
RetiMicroop(c) ==
  /\ \/ c \in {0, 1} /\ Continue(Reti, c) /\ UNCHANGED ime
     \/ c = 2 /\ Continue(Reti, c) /\ ime' = "Enabled"
     \/ c = 3 /\ FetchAfter(ime)
  /\ UNCHANGED <<istate, halted, io, pushed, iflag, speedVars, stopVars>>

(***************************************************************************)
(* isr_m0 to isr_m4.  The high byte of PC is pushed before IE and IF are   *)
(* read, the low byte just below it afterwards.                            *)
(***************************************************************************)
IsrBits == ienable \cap iflag

IsrMicroop(c) ==
  \/ /\ c \in {0, 1}
     /\ Continue(Isr, c)
     /\ UNCHANGED <<ime, istate, io, pushed, iflag>>
  \/ /\ c = 2
     /\ Continue(Isr, c)
     /\ pushed' \in Pushes
     /\ io' = pushed'
     /\ UNCHANGED <<ime, istate, iflag>>
  \/ /\ c = 3
     /\ Continue(Isr, c)
     /\ iflag' = IF IsrBits = {} THEN iflag ELSE iflag \ {Min(IsrBits)}
     /\ io' \in (IF pushed = "RAM" THEN Pushes ELSE {"RAM"})
     /\ UNCHANGED <<ime, istate, pushed>>
  \/ /\ c = 4
     /\ FetchAfter("Disabled")
     /\ istate' = "None"
     /\ pushed' = Idle
     /\ UNCHANGED <<io, iflag>>

Microop(o, c) ==
  \/ o = Nop /\ NopM0
  \/ o = Cb /\ c = 0 /\ CbM0
  \/ o = Cb /\ c = 1 /\ NopM0
  \/ o = Di /\ DiM0
  \/ o = Ei /\ EiM0
  \/ o = Halt /\ HaltM0
  \/ o = Stop /\ StopM0
  \/ o = Ldh /\ LdhMicroop(c)
  \/ o = Reti /\ RetiMicroop(c)
  \/ o = Isr /\ IsrMicroop(c) /\ UNCHANGED <<halted, speedVars, stopVars>>

(* The rest of tick_microop: a fetched opcode may be any. *)
Execute ==
  /\ IF fetching THEN \E o \in Ops : Microop(o, 0) ELSE Microop(op, counter)
  /\ UNCHANGED <<phase, remaining, ienable, block_interrupts, joypadVars>>

(* flush_write: the byte written may be any. *)
FlushWrite ==
  /\ io' = Idle
  /\ \/ /\ io \in {Idle, "RAM"}
        /\ UNCHANGED <<iflag, ienable, block_interrupts, switch_speed, selected>>
     \/ /\ io = "IF"
        /\ \E bits \in SUBSET Sources : WriteIF(bits)
        /\ UNCHANGED <<switch_speed, selected>>
     \/ /\ io = "IE"
        /\ ienable' \in SUBSET EnableBits
        /\ UNCHANGED <<iflag, block_interrupts, switch_speed, selected>>
     \/ /\ io = "KEY1"
        /\ switch_speed' \in BOOLEAN
        /\ UNCHANGED <<iflag, ienable, block_interrupts, selected>>
     \/ /\ io = "P1"
        /\ selected' \in SUBSET Groups
        /\ UNCHANGED <<iflag, ienable, block_interrupts, switch_speed>>

=============================================================================
