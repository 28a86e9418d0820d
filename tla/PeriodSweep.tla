----------------------------- MODULE PeriodSweep ----------------------------
(***************************************************************************)
(* The sweep of the first channel's period: NR10, the period in NR13 and   *)
(* NR14, the shadow period and increment, and the recalculation that turns *)
(* the channel off when the next period would overflow (CGB).              *)
(* An operation takes the channel's on and gives [on, s]: the recalculation *)
(* may clear it.                                                           *)
(***************************************************************************)
EXTENDS Integers

CONSTANTS
  PeriodTop,  \* periods are below this: 2048
  PeriodLow   \* those a write of NR13 tells apart: 256

ASSUME SweepAssumption ==
  /\ PeriodLow \in Nat \ {0, 1} /\ PeriodTop \in Nat /\ PeriodTop > PeriodLow /\ PeriodTop % PeriodLow = 0

(* register is NR14 and NR13 together, increment that of the sweep and     *)
(* checked that of the last recalculation; pace_countdown is only ever     *)
(* looked at through its three low bits.                                   *)
SweepState ==
  [pace : 0 .. 7, down : BOOLEAN, step : 0 .. 7, register : 0 .. PeriodTop - 1,
   pace_countdown : 0 .. 7, period : 0 .. PeriodTop - 1, increment : 0 .. PeriodTop - 1,
   restart_countdown : 0 .. 5, reload_countdown : 0 .. 2, period_reloaded : BOOLEAN, reload_period : BOOLEAN,
   target : 0 .. 4, counter : 0 .. 4, countdown : 0 .. 7, instant : BOOLEAN, checked : 0 .. PeriodTop - 1]

NoSweep ==
  [pace |-> 0, down |-> FALSE, step |-> 0, register |-> 0, pace_countdown |-> 0, period |-> 0, increment |-> 0,
   restart_countdown |-> 0, reload_countdown |-> 0, period_reloaded |-> FALSE, reload_period |-> FALSE,
   target |-> 0, counter |-> 0, countdown |-> 0, instant |-> FALSE, checked |-> 0]

(* compute_period_sweep_signed_increment: the one's complement downwards;  *)
(* the bit added to the sum makes it the two's complement.                 *)
SignedIncrement(s) == IF s.down THEN PeriodTop - 1 - s.increment ELSE s.increment

NextPeriod(s, signed, complement) == s.period + signed + (IF complement THEN 1 ELSE 0)

Swept(s) == [s EXCEPT !.register = NextPeriod(s, SignedIncrement(s), s.down) % PeriodTop]

NextIncrement(s) == s.register \div 2 ^ s.step

(* period_sweep_recalculation_done *)
Recalculated(on, s) ==
  LET r == [s EXCEPT !.period = s.register, !.checked = SignedIncrement(s)]
  IN [on |-> on /\ (s.down \/ NextPeriod(r, r.checked, FALSE) < PeriodTop), s |-> r]

(* tick_period_sweep_recalculation *)
TickRecalculation(on, s, clock) ==
  CASE s.instant -> Recalculated(on, [s EXCEPT !.instant = FALSE])
    [] ~s.instant /\ clock % 2 = 1 /\ s.counter < s.target -> [on |-> on, s |-> [s EXCEPT !.counter = @ + 1]]
    [] ~s.instant /\ clock % 2 = 1 /\ s.counter >= s.target /\ s.countdown > 0 /\ s.step > 0 ->
         IF s.countdown = 1 THEN Recalculated(on, [s EXCEPT !.countdown = 0])
         ELSE [on |-> on, s |-> [s EXCEPT !.countdown = @ - 1]]
    [] OTHER -> [on |-> on, s |-> s]

(* period_sweep_reload_done *)
ReloadDone(s) ==
  LET r == IF s.step > 0 /\ s.reload_period THEN Swept(s) ELSE s
      free == s.restart_countdown = 0
  IN [r EXCEPT !.countdown = IF free /\ s.step > 0 THEN s.step ELSE @,
               !.instant = @ \/ (free /\ s.step = 0),
               !.increment = NextIncrement(r),
               !.pace_countdown = s.pace]

(* tick_period_sweep_reload *)
TickReload(s) ==
  LET r == [s EXCEPT !.restart_countdown = IF @ > 0 THEN @ - 1 ELSE 0,
                     !.reload_countdown = IF @ > 0 THEN @ - 1 ELSE 0]
  IN IF s.reload_countdown = 1 THEN ReloadDone(r) ELSE r

(* period_sweep_done; period_reloaded is set and never cleared.            *)
SweepDone(s) ==
  LET g == IF s.countdown = 0 THEN s
           ELSE [s EXCEPT !.increment = 0, !.period = IF s.restart_countdown > 2 THEN s.register ELSE @]
      r == IF g.step > 0 THEN [Swept(g) EXCEPT !.period_reloaded = TRUE] ELSE g
  IN IF s.pace = 0 THEN g ELSE [r EXCEPT !.reload_period = TRUE, !.reload_countdown = 2]

(* tick_period_sweep *)
TickSweep(on, s) ==
  IF ~on THEN s
  ELSE LET c == [s EXCEPT !.pace_countdown = (@ + 7) % 8]
       IN IF c.pace_countdown = 0 THEN SweepDone(c) ELSE c

(* update_nr10 and its glitches. *)
RecalculationMayTick(s, old, clock) ==
  clock % 2 = 1 /\ ((s.countdown > 0 /\ old.step = 0 /\ s.step > 0) \/ s.countdown = 1)

TriggerWindow(s) == s.target > 0 /\ s.counter < 2

StepRewritten(s) ==
  IF s.step > 0 THEN [s EXCEPT !.countdown = s.step]
  ELSE [s EXCEPT !.countdown = 0, !.counter = 0, !.target = 0]

WriteNr10(on, old, clock, v) ==
  LET w == [old EXCEPT !.pace = (v \div 16) % 8, !.down = (v \div 8) % 2 = 1, !.step = v % 8]
      survives == on /\ (w.down \/ NextPeriod(w, w.checked, old.down) < PeriodTop)
      r == CASE TriggerWindow(w) -> [on |-> TRUE, s |-> StepRewritten(w)]
             [] ~TriggerWindow(w) /\ RecalculationMayTick(w, old, clock) ->
                  IF w.countdown = 1 THEN Recalculated(TRUE, [w EXCEPT !.countdown = 0])
                  ELSE [on |-> TRUE, s |-> [w EXCEPT !.countdown = @ - 1]]
             [] OTHER -> [on |-> TRUE, s |-> w]
  IN IF ~survives THEN [on |-> FALSE, s |-> w]
     ELSE [r EXCEPT !.s = IF r.s.pace_countdown = 0 THEN SweepDone(r.s) ELSE r.s]

(* update_nr13, update_nr14: a period the sweep has just reloaded stays.   *)
PeriodKept(s) == s.reload_countdown = 2 /\ s.period_reloaded

WriteNr13(s, enable, v) ==
  [s EXCEPT !.register = IF ~enable \/ PeriodKept(s) THEN @ ELSE PeriodLow * (@ \div PeriodLow) + (v % PeriodLow),
            !.reload_period = FALSE]

WithHigh(s, v) ==
  IF PeriodKept(s) THEN s
  ELSE [s EXCEPT !.register = (PeriodLow * (v % 8) + (@ % PeriodLow)) % PeriodTop]

(* A trigger with a step schedules a recalculation, some cycles later.     *)
Scheduled(s) ==
  LET target == 2 + (IF s.countdown < 2 THEN 1 ELSE 0) + (IF s.counter = 2 /\ s.countdown = s.step THEN 1 ELSE 0)
      r == IF TriggerWindow(s) THEN s ELSE [s EXCEPT !.target = target, !.counter = 0]
  IN [r EXCEPT !.increment = NextIncrement(s), !.countdown = s.step]

TriggerSweep(s) ==
  LET r == [s EXCEPT !.pace_countdown = s.pace, !.period = 0, !.increment = 0, !.checked = 0,
                     !.restart_countdown = IF s.counter = s.target THEN 5 ELSE @]
  IN IF s.step > 0 THEN Scheduled(r) ELSE r

WriteNr14(s, v) ==
  LET h == WithHigh(s, v)
      r == CASE v >= 128 -> TriggerSweep(h)
             [] v < 128 /\ s.reload_countdown > 0 /\ s.period_reloaded -> [h EXCEPT !.increment = NextIncrement(h)]
             [] OTHER -> h
  IN [r EXCEPT !.reload_period = FALSE]

SweepOff(s) == [s EXCEPT !.pace = 0, !.down = FALSE, !.step = 0, !.register = 0]
=============================================================================
