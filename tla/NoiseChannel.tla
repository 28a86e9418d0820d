----------------------------- MODULE NoiseChannel ---------------------------
(***************************************************************************)
(* What clocks the shift register of the APU's fourth channel: NR43's      *)
(* divider and shift, the counters they run, and the delay of a trigger.   *)
(* The bits of the shift register are left out, its ticks are counted.     *)
(***************************************************************************)
EXTENDS Integers

CONSTANTS
  CounterBits,  \* bits of shift_counter: 14
  ByteBits      \* bits of a byte

ASSUME NoiseAssumption == CounterBits \in Nat /\ ByteBits \in 1 .. CounterBits

CounterSize == 2 ^ CounterBits
WordSize == 4 * CounterSize

(* shift, divider: what the channel uses; clock_shift, clock_divider:      *)
(* NR43.  NR44 increments the counter, a word, without keeping its bits.   *)
(* ticked: the shift register was clocked by this T-cycle's write.         *)
NoiseState ==
  [clock_shift : 0 .. 15, clock_divider : 0 .. 7, shift : 0 .. 15, divider : 0 .. 7,
   countdown : 0 .. 15, counter : 0 .. WordSize - 1, trigger_delay : 0 .. 4, ticked : BOOLEAN]

NoNoise ==
  [clock_shift |-> 0, clock_divider |-> 0, shift |-> 0, divider |-> 0, countdown |-> 0,
   counter |-> 0, trigger_delay |-> 0, ticked |-> FALSE]

TestCounter(counter, shift) == (counter \div 2 ^ shift) % 2 = 1

Reload(divider) == IF divider > 0 THEN divider ELSE 1

(* The dots of the APU's clock at which the divider counts. *)
Counts(n, clock) == clock = 2 \/ (clock = 0 /\ n.divider = 0)

(* tick_noise_channel of a channel that is on. *)
Elapsed(n) ==
  [n EXCEPT !.counter = (@ + 1) % CounterSize, !.divider = n.clock_divider, !.countdown = Reload(n.clock_divider)]

(* The delay of a trigger is counted at both dots.                         *)
DelayedAtDivider(n, clock) == IF clock = 2 THEN [n EXCEPT !.trigger_delay = @ - 1] ELSE n

Delayed(n, clock) == IF clock \in {0, 2} THEN [n EXCEPT !.trigger_delay = @ - 1] ELSE n

TickNoise(n, clock) ==
  LET counted == [n EXCEPT !.countdown = (@ + 15) % 16]
      next == CASE n.trigger_delay > 0 -> Delayed(n, clock)
                [] n.trigger_delay = 0 /\ Counts(n, clock) ->
                     IF counted.countdown = 0 THEN Elapsed(counted) ELSE counted
                [] OTHER -> n
  IN [next EXCEPT !.shift = n.clock_shift]

(* update_nr43: the shift register is clocked when the new shift watches a *)
(* set bit and the old one did not.  The counter, or the next one when it  *)
(* is about to tick, is looked at through a byte.                          *)
AboutToTick(n, clock) == n.trigger_delay = 0 /\ Counts(n, clock) /\ n.countdown = 1

SeenCounter(n, clock) ==
  LET byte == n.counter % 2 ^ ByteBits
  IN IF AboutToTick(n, clock) THEN ((byte + 1) % CounterSize) % 2 ^ ByteBits ELSE byte

WriteNr43(n, on, clock, v) ==
  LET shift == v \div 16
      divider == v % 8
      seen == SeenCounter(n, clock)
  IN [n EXCEPT !.clock_shift = shift, !.clock_divider = divider,
               !.ticked = on /\ ~TestCounter(seen, n.shift) /\ TestCounter(seen, shift),
               !.divider = IF on /\ divider # 0 THEN divider ELSE @]

(* update_nr44, when it triggers the channel.                              *)
AlmostElapsed(n, clock) == n.trigger_delay = 0 /\ n.countdown = 1 /\ clock \in {1, 2}

(* The alignments in which divider 0 is reloaded with a period of 0.       *)
Misaligned(n, clock) ==
  \/ n.trigger_delay = 1 /\ clock \in {1, 2}
  \/ n.trigger_delay = 0 /\ clock \in {0, 3}

(* The tables of delays end at 3; beyond them anything may be read.        *)
Entry(table, delay) == IF delay < 4 THEN table[delay + 1] ELSE 0

RetriggerDelay(n, counter, clock) ==
  LET delay == n.trigger_delay IN
  CASE n.clock_divider = 0 -> Entry(<<3, 3, 2, 3>>, delay) - (IF delay = 0 /\ clock \in {0, 3} THEN 1 ELSE 0)
    [] n.clock_divider = 1 -> Entry(<<3, 3, 4, 3>>, delay) - (IF delay = 0 /\ counter = 0 THEN 2 ELSE 0)
    [] OTHER -> Entry(<<3, 4, 2, 3>>, delay)

Retriggered(n, clock) ==
  LET bumped == (n.counter + (IF AlmostElapsed(n, clock) THEN 1 ELSE 0)) % WordSize
      zero == n.clock_divider = 0 /\ Misaligned(n, clock)
  IN [n EXCEPT !.counter = (bumped + (IF zero THEN 1 ELSE 0)) % WordSize,
               !.trigger_delay = RetriggerDelay(n, bumped, clock),
               !.countdown = IF zero THEN 0 ELSE Reload(n.clock_divider)]

TriggerNoise(n, on, clock) ==
  LET started == IF on THEN Retriggered(n, clock)
                 ELSE [n EXCEPT !.trigger_delay = IF n.clock_divider = 1 THEN 4 ELSE 3,
                                !.counter = 0, !.countdown = Reload(n.clock_divider)]
  IN [started EXCEPT !.shift = n.clock_shift, !.divider = n.clock_divider]
=============================================================================
