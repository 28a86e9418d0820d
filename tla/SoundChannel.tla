----------------------------- MODULE SoundChannel ---------------------------
(***************************************************************************)
(* What the four channels of the APU have in common: the length timer, the *)
(* DAC, the trigger and the volume envelope.  A channel is a record, an    *)
(* operation gives the record after it; the operand of a write is the      *)
(* byte, with the fields of NRx1, NRx2 and NRx4 where they are.  Wave      *)
(* positions, duty cycles and the samples are left out: no operation here  *)
(* reads them.                                                             *)
(***************************************************************************)
EXTENDS Integers

CONSTANTS
  MaxLength,  \* 64, 256 for the wave channel
  VolumeTop   \* volumes are taken modulo this: 16

ASSUME ChannelAssumption ==
  /\ MaxLength \in Nat \ {0, 1}
  /\ VolumeTop \in Nat \ {0, 1}

(* on is NR52's bit, initial_length what is kept of NRx1; the wave channel *)
(* has no envelope.                                                        *)
Common ==
  [on : BOOLEAN, dac : BOOLEAN, length_timer : 0 .. MaxLength, initial_length : 0 .. MaxLength - 1,
   length_enable : BOOLEAN, volume : 0 .. VolumeTop - 1, initial_volume : 0 .. VolumeTop - 1,
   up : BOOLEAN, pace : 0 .. 7, countdown : 0 .. 7, reloaded : BOOLEAN, pending_update : BOOLEAN]

Silent ==
  [on |-> FALSE, dac |-> FALSE, length_timer |-> 0, initial_length |-> 0, length_enable |-> FALSE,
   volume |-> 0, initial_volume |-> 0, up |-> FALSE, pace |-> 0, countdown |-> 0,
   reloaded |-> FALSE, pending_update |-> FALSE]

(* tick_length_timer: once zero, the length stays there.                   *)
TickLengthBelow(c) ==
  [c EXCEPT !.length_timer = @ - 1, !.on = @ /\ c.length_timer # 1]

TickLength(c) ==
  CASE c.length_timer = 0 -> c
    [] c.length_timer = 1 -> [c EXCEPT !.length_timer = 0, !.on = FALSE]
    [] OTHER -> [c EXCEPT !.length_timer = @ - 1]

TickEnabledLength(c) == IF c.length_enable THEN TickLength(c) ELSE c

(* The envelope, in the order of a period: the countdown, its reload half  *)
(* a step later, the request of an update, the update.                     *)
TickVolumeSweep(c) == IF c.on /\ ~c.reloaded THEN [c EXCEPT !.countdown = (@ + 7) % 8] ELSE c

ReloadVolumeSweep(c) ==
  IF c.countdown = 0 THEN [c EXCEPT !.countdown = c.pace, !.reloaded = @ \/ c.pace # 0] ELSE c

VolumeSweepReloaded(c) ==
  IF c.reloaded THEN [c EXCEPT !.reloaded = FALSE, !.pending_update = TRUE] ELSE c

HandleVolumeUpdate(c) ==
  IF ~c.pending_update THEN c
  ELSE [c EXCEPT !.pending_update = FALSE,
                 !.volume = CASE c.up /\ @ < VolumeTop - 1 -> @ + 1
                              [] ~c.up /\ @ > 0 -> @ - 1
                              [] OTHER -> @]

(* tick_div_apu_falling_edge after the step div_apu, but for the sweep of  *)
(* the period; tick_div_apu_raising_edge.                                  *)
LengthEdge(c, div_apu) == IF div_apu % 2 = 0 THEN TickEnabledLength(c) ELSE c

EnvelopeEdge(c, div_apu) == VolumeSweepReloaded(IF div_apu % 8 = 0 THEN TickVolumeSweep(c) ELSE c)

(* update_nrx1: with the APU off the timer is loaded with what NRx1 held.  *)
WriteLength(c, enable, v) ==
  LET initial == IF enable THEN v % MaxLength ELSE c.initial_length
  IN [c EXCEPT !.initial_length = initial, !.length_timer = MaxLength - initial]

(* update_nrx2, the DAC, and for the square channels the glitch of the     *)
(* volume (the table of generate_nrx2_glitch_table).                       *)
GlitchNegates(old, up) == IF old.initial_volume = 0 THEN ~up ELSE old.up # up

GlitchIncrement(old, pace, up) ==
  LET one(b) == IF b THEN 1 ELSE 0 IN
  CASE old.initial_volume = 0 /\ old.pace = 0 -> one(pace = 0 \/ up)
    [] old.initial_volume = 0 /\ old.pace # 0 -> one(~up)
    [] old.initial_volume # 0 /\ old.pace = 0 /\ pace = 0 -> one(old.up)
    [] old.initial_volume # 0 /\ old.pace = 0 /\ pace # 0 -> one(old.up /\ up) - one(~old.up /\ ~up)
    [] OTHER -> one(old.up /\ ~up) - one(~old.up /\ up)

GlitchedVolume(old, pace, up) ==
  LET v == IF GlitchNegates(old, up) THEN VolumeTop - 1 - old.volume ELSE old.volume
  IN (v + GlitchIncrement(old, pace, up)) % VolumeTop

SetDac(c, dac) == [c EXCEPT !.dac = dac, !.on = @ /\ dac]

WriteEnvelope(c, glitch, v) ==
  LET up == (v \div 8) % 2 = 1
      pace == v % 8
      written == [c EXCEPT !.initial_volume = (v \div 16) % VolumeTop, !.up = up, !.pace = pace,
                           !.volume = IF glitch /\ c.on THEN GlitchedVolume(c, pace, up) ELSE @]
  IN SetDac(written, written.initial_volume # 0 \/ up)

(* update_nrx4: a rising length enable in an even step clocks the length,  *)
(* the trigger restarts the envelope and a length that is zero.            *)
Restarted(c, even) ==
  [c EXCEPT !.on = @ \/ c.dac,
            !.volume = c.initial_volume, !.countdown = c.pace, !.reloaded = FALSE, !.pending_update = FALSE,
            !.length_timer = IF @ > 0 THEN @ ELSE IF c.length_enable /\ even THEN MaxLength - 1 ELSE MaxLength]

Triggers(v) == v >= 128

WriteControl(c, div_apu, v) ==
  LET even == div_apu % 2 = 0
      enabled == [c EXCEPT !.length_enable = (v \div 64) % 2 = 1]
      clocked == IF ~c.length_enable /\ enabled.length_enable /\ even THEN TickLength(enabled) ELSE enabled
  IN IF Triggers(v) THEN Restarted(clocked, even) ELSE clocked

(* turn_off leaves the length, the volume and the countdown alone.         *)
TurnedOffSounding(c) ==
  [Silent EXCEPT !.on = c.on, !.length_timer = c.length_timer, !.volume = c.volume, !.countdown = c.countdown]

SwitchedOff(c) ==
  [Silent EXCEPT !.length_timer = c.length_timer, !.volume = c.volume, !.countdown = c.countdown]
=============================================================================
