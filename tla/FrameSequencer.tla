---------------------------- MODULE FrameSequencer --------------------------
(***************************************************************************)
(* The clocks of the APU (docboy/audio): DIV-APU, the 512 Hz step that     *)
(* follows a bit of the timers' divider, with the writes of NR52 and DIV   *)
(* and the speed switch that move it.  One step of the model is one        *)
(* T-cycle of core.cpp: the CPU, the speed switch controller, the timers,  *)
(* the APU.                                                                *)
(***************************************************************************)
EXTENDS Integers

CONSTANTS
  DivBit,   \* bit of the divider the APU watches, in ticks of the timers: 10
  MaxSteps  \* the size of div_apu, 256: lengths, sweep and volume share steps of 8

ASSUME SequencerAssumption ==
  /\ DivBit \in Nat \ {0}
  /\ MaxSteps \in Nat \ {0} /\ MaxSteps % 8 = 0

VARIABLES
  t,       \* T-cycle within the machine cycle
  div,     \* the divider, in ticks of the timers
  key1,    \* the speed switch: double speed, what is left of a switch
  seq,     \* nr52.enable, apu_clock, div_apu, prev_div_edge_bit, the selector
  pending, \* pending_write
  wrote,   \* history: register written in the last machine cycle
  edge,    \* history: what DIV-APU saw in this T-cycle
  since    \* history: T-cycles since the last step, since DIV or the APU restarted

seqVars == <<t, div, key1, seq, pending, wrote, edge, since>>

DivSize == 2 ^ (DivBit + 2)

(* Half a step, and the time from a step to the next, in T-cycles.         *)
Half == 4 * 2 ^ DivBit
Period == 2 * Half

(* The timers are blocked for at most 4 ticks of the controller.           *)
Slack == 12

NoOp == [reg |-> "none", v |-> 0]

SequencerTypeOK ==
  /\ t \in 0 .. 3
  /\ div \in 0 .. DivSize - 1
  /\ key1 \in [double : BOOLEAN, enter : 0 .. 2, block : 0 .. 4]
  /\ seq \in [enable : BOOLEAN, clock : 0 .. 3, div_apu : 0 .. MaxSteps - 1, prev : BOOLEAN, selector : 0 .. 1]
  /\ edge \in {"none", "falling", "raising"}
  /\ since \in [step : 0 .. Half, start : 0 .. Period + Slack, fresh : BOOLEAN]

(* Apu::reset in a console without boot ROM; the divider depends on the    *)
(* cartridge.                                                              *)
SequencerInit(double, dividers) ==
  /\ t = 0
  /\ div \in dividers
  /\ key1 = [double |-> double, enter |-> 0, block |-> 0]
  /\ seq = [enable |-> TRUE, clock |-> 1, div_apu |-> 1, prev |-> TRUE, selector |-> IF double THEN 1 ELSE 0]
  /\ pending = NoOp /\ wrote = "none"
  /\ edge = "none"
  /\ since = [step |-> Half, start |-> 0, fresh |-> TRUE]
-----------------------------------------------------------------------------
(* The CPU writes at t1, at double speed at t0 and t2; STOP switches speed *)
(* at t0, at double speed at t2 too.  No register of the APU is written    *)
(* by two machine cycles in a row.                                         *)
CpuWrites == IF key1.double THEN t \in {0, 2} ELSE t = 1
CpuStops == IF key1.double THEN t \in {0, 2} ELSE t = 0

May(op) ==
  CASE op.reg = "none" -> TRUE
    [] op.reg = "KEY1" -> CpuStops /\ key1.enter = 0 /\ key1.block = 0
    [] OTHER -> CpuWrites /\ op.reg # wrote

IsApu(op) == op.reg \notin {"none", "DIV", "KEY1"}

(* SpeedSwitchController::switch_speed and tick, as far as timers go. *)
Switched(op) ==
  IF op.reg = "KEY1" THEN [key1 EXCEPT !.enter = 2, !.block = IF key1.double THEN 2 ELSE 4] ELSE key1

SwitchTicked(k) ==
  [double |-> k.double # (k.enter = 1),
   enter |-> IF k.enter = 0 THEN 0 ELSE k.enter - 1, block |-> IF k.block = 0 THEN 0 ELSE k.block - 1]

SpeedAfter(op) == IF t % 2 = 1 THEN SwitchTicked(Switched(op)) ELSE Switched(op)

(* DIV is reset by its write, and when the timers' block ends; then the    *)
(* timers tick at t3, at double speed at t1 too, unless they are blocked.  *)
Restarts(op) == op.reg = "DIV" \/ (t % 2 = 1 /\ Switched(op).block = 1)

DivAfter(op) ==
  LET k == SpeedAfter(op)
      d == IF Restarts(op) THEN 0 ELSE div
  IN IF (t = 3 \/ (t = 1 /\ k.double)) /\ k.block = 0 THEN (d + 1) % DivSize ELSE d

(* The write the APU sees in this T-cycle: write_register, and             *)
(* flush_pending_write in tick_even.                                       *)
Applied(op) == IF t % 2 = 1 THEN NoOp ELSE IF IsApu(op) THEN op ELSE pending

(* turn_on, turn_off; the channels are another module's. *)
TurnedOn(double) ==
  [enable |-> TRUE, clock |-> 0, div_apu |-> 0, prev |-> TRUE, selector |-> IF double THEN 1 ELSE 0]

UpdateNr52(s, v, double) ==
  LET en == v >= 128 IN
  IF en = s.enable THEN s ELSE IF en THEN TurnedOn(double) ELSE [s EXCEPT !.enable = FALSE]

(* tick_even *)
Even(w, double) ==
  LET s == IF w.reg = "NR52" THEN UpdateNr52(seq, w.v, double) ELSE seq
  IN IF s.enable THEN [s EXCEPT !.clock = (@ + 1) % 4] ELSE s

(* tick_div_apu: which bit, and its edges. *)
Selector(k) == IF k.block = 0 THEN (IF k.double THEN 1 ELSE 0) ELSE seq.selector

EdgeOf(bit) ==
  CASE seq.prev /\ ~bit -> "falling" [] ~seq.prev /\ bit -> "raising" [] OTHER -> "none"

DivBitAtNormalSpeed(d, selector) == (d \div 2 ^ DivBit) % 2 = 1

DivBitOf(d, selector) == (d \div 2 ^ (DivBit + selector)) % 2 = 1

Odd(k, d) ==
  LET bit == DivBitOf(d, Selector(k))
      falls == EdgeOf(bit) = "falling"
  IN [seq EXCEPT !.selector = Selector(k), !.prev = bit,
                 !.div_apu = IF falls THEN (@ + 1) % MaxSteps ELSE @]

(* The edge tick_odd sees in this T-cycle. *)
EdgeAfter(op) ==
  IF t % 2 = 0 \/ ~seq.enable THEN "none"
  ELSE EdgeOf(DivBitOf(DivAfter(op), Selector(SpeedAfter(op))))

Later(n, cap) == IF n < cap THEN n + 1 ELSE n

(* Turned on with the bit low, the APU makes a step at once that says      *)
(* nothing of the divider: time is not counted from it.                    *)
SinceAfter(op, w) ==
  LET on == w.reg = "NR52" /\ w.v >= 128 /\ ~seq.enable
      steps == EdgeAfter(op) = "falling"
  IN [step |-> IF on \/ (steps /\ since.fresh) THEN Half ELSE IF steps THEN 0 ELSE Later(since.step, Half),
      start |-> IF on \/ steps \/ Restarts(op) \/ ~seq.enable THEN 0 ELSE Later(since.start, Period + Slack),
      fresh |-> on \/ (since.fresh /\ t % 2 = 0)]

Tick(op) ==
  LET k == SpeedAfter(op)
      w == Applied(op)
      d == DivAfter(op)
  IN /\ May(op)
     /\ t' = (t + 1) % 4
     /\ key1' = k
     /\ div' = d
     /\ pending' = IF t % 2 = 1 /\ IsApu(op) THEN op ELSE IF t % 2 = 0 THEN NoOp ELSE pending
     /\ wrote' = IF CpuWrites THEN (IF op.reg = "KEY1" THEN "none" ELSE op.reg) ELSE wrote
     /\ seq' = CASE t % 2 = 0 -> Even(w, k.double)
                 [] t % 2 = 1 /\ seq.enable -> Odd(k, d)
                 [] OTHER -> seq
     /\ edge' = EdgeAfter(op)
     /\ since' = SinceAfter(op, w)
-----------------------------------------------------------------------------
(* The sequencer keeps its time at both speeds: however DIV is written and *)
(* the speed switched, two steps are never closer than half a period less  *)
(* two T-cycles; and while the APU is on the next step comes within a      *)
(* period, and what the switch blocks, of the last or of DIV's restart.    *)
SequencerKeepsTime ==
  /\ [](seq.enable => since.start < Period + Slack)
  /\ [][edge' = "falling" => since.step + 3 >= Half]_seqVars
=============================================================================
