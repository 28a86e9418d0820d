----------------------------- MODULE InputPolling ----------------------------
(***************************************************************************)
(* Core::handle_input: before each machine cycle the core polls the keys   *)
(* if the tick that was drawn for the poll has come, and draws the next.   *)
(* Ticks are counted in machine cycles: the code multiplies both counters  *)
(* by 4.                                                                   *)
(***************************************************************************)
EXTENDS Naturals

CONSTANTS
  MaxDelta,  \* largest delay that input_delay_rng draws
  MaxTicks   \* bound on the cycles of a run

ASSUME PollingAssumption == MaxDelta \in Nat \ {0} /\ MaxTicks \in Nat

VARIABLES
  ticks,                     \* machine cycles since the last reset
  next_input_polling_ticks,  \* the cycle before which the keys are polled
  saved                      \* the two counters in the last saved state

pollVars == <<ticks, next_input_polling_ticks, saved>>

Tick == 0 .. MaxTicks
PollTick == 0 .. MaxTicks + MaxDelta

PollTypeOK ==
  /\ ticks \in Tick
  /\ next_input_polling_ticks \in PollTick
  /\ saved \in [ticks : Tick, next : PollTick]

PollInit ==
  /\ ticks = 0
  /\ next_input_polling_ticks = 0
  /\ saved = [ticks |-> 0, next |-> 0]

DelaysFromZero == 0 .. MaxDelta
Delays == 1 .. MaxDelta

HandleInput ==
  IF ticks = next_input_polling_ticks
    THEN \E delta \in Delays : next_input_polling_ticks' = ticks + delta
    ELSE UNCHANGED next_input_polling_ticks

PollCycle ==
  /\ ticks < MaxTicks
  /\ HandleInput
  /\ ticks' = ticks + 1
  /\ UNCHANGED saved

(* Core::reset, also for a new cartridge: only ticks starts again. *)
ResetTicks ==
  /\ ticks' = 0
  /\ UNCHANGED <<next_input_polling_ticks, saved>>

SavePoll ==
  /\ saved' = [ticks |-> ticks, next |-> next_input_polling_ticks]
  /\ UNCHANGED <<ticks, next_input_polling_ticks>>

LoadPoll ==
  /\ ticks' = saved.ticks
  /\ next_input_polling_ticks' = saved.next
  /\ UNCHANGED saved

PollNext == PollCycle \/ ResetTicks \/ SavePoll \/ LoadPoll

PollSpec == PollInit /\ [][PollNext]_pollVars

(* The poll that comes next has not been passed by: handle_input compares  *)
(* for equality, so a tick it has missed would be the last poll ever.      *)
PollAhead ==
  /\ ticks <= next_input_polling_ticks
  /\ saved.ticks <= saved.next

=============================================================================
