------------------------------- MODULE Timers -------------------------------
(***************************************************************************)
(* The divider and the programmable timer (docboy/timers), driven by the   *)
(* CPU's register writes under the schedule of core.cpp: the CPU completes *)
(* at most one write, then the timers tick.  At single speed this round    *)
(* happens once per cycle of the core; at double speed twice, and only the *)
(* second round ends the cycle (Interrupts::tick_t3 runs at t3 alone).     *)
(***************************************************************************)
EXTENDS Interrupts

CONSTANTS
  DivSize,      \* the divider wraps at this value (2^16 in the code)
  TimaSize,     \* TIMA and TMA wrap at this value (2^8 in the code)
  TacDivBits,   \* divider bit watched for each clock selector
  DoubleSpeed   \* CGB double speed mode

Selector == 0 .. 3
Byte == 0 .. TimaSize - 1

ASSUME TimersAssumption ==
  /\ DivSize \in Nat \ {0}
  /\ TimaSize \in Nat /\ TimaSize > 1
  /\ TacDivBits \in [Selector -> Nat]
  /\ DoubleSpeed \in BOOLEAN

VARIABLES
  div16,       \* the 16-bit divider; DIV is its upper byte
  tima, tma,   \* timer counter and modulo
  tac,         \* [enable, clock_selector]
  tima_state,  \* delay of the reload after an overflow
  last_div_bit_and_tac_enable,  \* latch of the falling edge detector
  turn,        \* whose step is next: "cpu" or "timers"
  round,       \* round of the current cycle, 0 .. Rounds - 1
  incs,        \* history: increments of TIMA since the CPU's last turn
  wrote_if     \* history: the CPU wrote IF in its current machine cycle

timerVars == <<div16, tima, tma, tac, tima_state, last_div_bit_and_tac_enable>>
vars == <<timerVars, iflag, ienable, block_interrupts, turn, round, incs, wrote_if>>

(* TimaReloadState *)
None    == 0
Reload  == 1
Pending == 2

Rounds == IF DoubleSpeed THEN 2 ELSE 1

Tac == [enable : BOOLEAN, clock_selector : Selector]

TestBit(n, b) == (n \div 2^b) % 2 = 1

(* Input of the falling edge detector; the first form watches the selector *)
(* itself instead of the bit it selects.                                   *)
DivBitUnselected(div, tc) == tc.enable /\ TestBit(div, 0 * tc.clock_selector)
DivBitAndEnable(div, tc) == tc.enable /\ TestBit(div, TacDivBits[tc.clock_selector])

TypeOK ==
  /\ InterruptsTypeOK
  /\ UnusedIF \subseteq iflag
  /\ div16 \in 0 .. DivSize - 1
  /\ tima \in Byte
  /\ tma \in Byte
  /\ tac \in Tac
  /\ tima_state \in {None, Reload, Pending}
  /\ last_div_bit_and_tac_enable \in BOOLEAN
  /\ turn \in {"cpu", "timers"}
  /\ round \in 0 .. Rounds - 1
  /\ incs \in Nat
  /\ wrote_if \in BOOLEAN

-----------------------------------------------------------------------------

(***************************************************************************)
(* Timers::reset.  The initial divider depends on the model and cartridge  *)
(* header; the cycle starts with the CPU.                                  *)
(***************************************************************************)
Init ==
  /\ ResetInterrupts
  /\ div16 \in 0 .. DivSize - 1 /\ div16 % 4 = 0
  /\ tima = 0
  /\ tma = 0
  /\ tac = [enable |-> FALSE, clock_selector |-> 0]
  /\ tima_state = None
  /\ last_div_bit_and_tac_enable = FALSE
  /\ turn = "cpu"
  /\ round = 0
  /\ incs = 0
  /\ wrote_if = FALSE

(* inc_tima: the counter wraps to 0. *)
OverflowsOffByOne(n) == n = TimaSize
Overflows(n) == n + 1 = TimaSize

(* The history variable incs starts afresh with every turn of the CPU. *)
IncsSoFar == IF turn = "cpu" THEN 0 ELSE incs

(***************************************************************************)
(* on_falling_edge_inc_tima and inc_tima, once the divider is d, the       *)
(* control register tc, the counter n and the reload state rs.             *)
(***************************************************************************)
OnFallingEdgeIncTima(d, tc, n, rs) ==
  LET level == DivBitAndEnable(d, tc)
      falls == last_div_bit_and_tac_enable /\ ~level
  IN  /\ div16' = d
      /\ tac' = tc
      /\ last_div_bit_and_tac_enable' = level
      /\ tima' = IF ~falls THEN n ELSE IF Overflows(n) THEN 0 ELSE n + 1
      /\ tima_state' = IF falls /\ Overflows(n) THEN Pending ELSE rs
      /\ incs' = IncsSoFar + (IF falls THEN 1 ELSE 0)

WriteDiv ==
  /\ OnFallingEdgeIncTima(0, tac, tima, tima_state)
  /\ UNCHANGED <<tma, iflag, ienable, block_interrupts>>

(* A write of TAC that forgets the edge detector. *)
WriteTacNoEdge(tc) ==
  /\ tac' = tc
  /\ incs' = IncsSoFar
  /\ UNCHANGED <<div16, tima, tma, tima_state, last_div_bit_and_tac_enable,
                 iflag, ienable, block_interrupts>>

WriteTac(tc) ==
  /\ OnFallingEdgeIncTima(div16, tc, tima, tima_state)
  /\ UNCHANGED <<tma, iflag, ienable, block_interrupts>>

(* Ignored in the cycle TIMA is reloaded; otherwise cancels the reload. *)
WriteTima(value) ==
  /\ IF tima_state # Reload
       THEN tima' = value /\ tima_state' = None
       ELSE UNCHANGED <<tima, tima_state>>
  /\ incs' = IncsSoFar
  /\ UNCHANGED <<div16, tma, tac, last_div_bit_and_tac_enable,
                 iflag, ienable, block_interrupts>>

(* In the cycle TIMA is reloaded, TIMA follows TMA. *)
WriteTma(value) ==
  /\ tma' = value
  /\ tima' = IF tima_state = Reload THEN value ELSE tima
  /\ incs' = IncsSoFar
  /\ UNCHANGED <<div16, tac, tima_state, last_div_bit_and_tac_enable,
                 iflag, ienable, block_interrupts>>

NoTimerWrite ==
  /\ incs' = IncsSoFar
  /\ UNCHANGED <<timerVars, iflag, ienable, block_interrupts>>

(* The part of the CPU's machine cycle that the timers and IF can see. *)
CpuWrite ==
  /\ turn = "cpu"
  /\ turn' = "timers"
  /\ round' = round
  /\ \/ /\ \/ WriteDiv
           \/ \E tc \in Tac : WriteTac(tc)
           \/ \E value \in Byte : WriteTima(value)
           \/ \E value \in Byte : WriteTma(value)
           \/ NoTimerWrite
        /\ wrote_if' = FALSE
     \/ /\ \E bits \in {{}, {Timer}} : WriteIF(bits)
        /\ wrote_if' = TRUE
        /\ incs' = IncsSoFar
        /\ UNCHANGED timerVars

(* Interrupts::tick_t3, at the end of the cycle. *)
TickT3Never == UNCHANGED block_interrupts
TickT3 == block_interrupts' = (block_interrupts /\ round # Rounds - 1)

(***************************************************************************)
(* Timers::tick: first the pending reload, then the divider, which goes up *)
(* by 4; at the end of the cycle Interrupts::tick_t3 lifts the block.      *)
(***************************************************************************)
Tick ==
  /\ turn = "timers"
  /\ OnFallingEdgeIncTima((div16 + 4) % DivSize, tac,
                          IF tima_state = Pending THEN tma ELSE tima,
                          IF tima_state = Pending THEN Reload ELSE None)
  /\ iflag' = IF tima_state = Pending THEN Raised({Timer}) ELSE iflag
  /\ TickT3
  /\ round' = (round + 1) % Rounds
  /\ turn' = "cpu"
  /\ wrote_if' = FALSE
  /\ UNCHANGED <<tma, ienable>>

Next == CpuWrite \/ Tick

Spec == Init /\ [][Next]_vars

(* The core never stops ticking its components while it runs. *)
FairSpec == Spec /\ WF_vars(Next)

-----------------------------------------------------------------------------

(* The latch of the edge detector always shows its present input: whatever *)
(* changed the divider or TAC went through on_falling_edge_inc_tima, so no *)
(* edge is seen late or twice.                                             *)
EdgeLatchFresh ==
  last_div_bit_and_tac_enable = DivBitAndEnable(div16, tac)

(* Glitches do not add up: in one machine cycle a write of DIV or TAC and  *)
(* the tick that follows it advance TIMA at most once between them.        *)
OneIncrementPerCycle == incs <= 1

(* While a reload is pending TIMA reads 0 (timers.cpp, overflow diagram):  *)
(* nothing advanced it since the overflow, and a CPU write cancelled it.   *)
PendingReadsZero == tima_state = Pending => tima = 0

(* In the cycle of the reload TIMA and TMA agree, whatever the CPU writes, *)
(* but for a falling edge of that same cycle.                              *)
ReloadMirrorsTma ==
  tima_state = Reload => tima = tma \/ tima = tma + 1

(* The overflow diagram of timers.cpp, whatever the CPU writes meanwhile.  *)
OverflowAsInDiagram == PendingReadsZero /\ ReloadMirrorsTma

(* Writes and ticks in any order: no edge is seen late, twice or by TIMA   *)
(* more than once in a machine cycle, and an overflow goes its two cycles. *)
TimerInStep == EdgeLatchFresh /\ OneIncrementPerCycle /\ OverflowAsInDiagram

(* Interrupts::write_if blocks IF "for the rest of this M-Cycle": a reload *)
(* requests the timer interrupt unless the CPU writes IF in that cycle.    *)
RequestLostOnlyByIFWrite ==
  [][Tick /\ tima_state = Pending => Timer \in iflag' \/ wrote_if]_vars

(* A running timer that the CPU leaves alone overflows and reloads again   *)
(* and again.                                                              *)
TimerFires ==
  <>[][Tick \/ NoTimerWrite]_vars /\ <>[]tac.enable => []<>(tima_state = Reload)
=============================================================================
