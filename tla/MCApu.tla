-------------------------------- MODULE MCApu -------------------------------
(* Programs for the APU, each on one channel and a few of its registers;   *)
(* a program starts at single or double speed, with one of some dividers.  *)
EXTENDS Apu

Writes(reg, values) == [reg : {reg}, v : values]
Plays(kind, double, dividers, ops) ==
  [kind |-> kind, double |-> double, dividers |-> dividers, ops |-> ops \cup {NoOp}]

(* The clocks alone: the APU is switched, DIV restarted, the speed changed. *)
Clocks ==
  Plays("ch2", FALSE, 0 .. DivSize - 1, Writes("NR52", {0, 128}) \cup Writes("DIV", {0}) \cup Writes("KEY1", {0}))

(* The length, with the APU and the DAC switched. *)
Lengths ==
  Plays("ch3", FALSE, {0},
        Writes("NR52", {0, 128}) \cup Writes("NRx1", {1}) \cup Writes("NR30", {0, 128}) \cup Writes("NRx4", {192}))

(* Envelopes up and down with the glitch of the volume, and with steps     *)
(* that DIV brings forward. *)
Envelopes == Plays("ch2", FALSE, {0, 3}, Writes("NRx2", {25, 18}) \cup Writes("NRx4", {128}))
BentEnvelopes == Plays("ch2", FALSE, {0}, Writes("NRx2", {25}) \cup Writes("NRx4", {128}) \cup Writes("DIV", {0}))

(* An envelope that is flat until NRx2 gives it a pace, or turns it off. *)
FlatEnvelopes == Plays("ch2", FALSE, {0}, Writes("NRx2", {0, 8, 25}) \cup Writes("NRx4", {128}))

(* The noise counters, triggered as fast as a program can. *)
Noises == Plays("ch4", TRUE, {0}, Writes("NRx2", {16}) \cup Writes("NR43", {1}) \cup Writes("NRx4", {128}))

(* The sweep of the period. *)
Sweeps == Plays("ch1", FALSE, {0}, Writes("NR10", {17}) \cup Writes("NR13", {1}) \cup Writes("NRx4", {128}))
MCPrograms == {Clocks, Lengths, Envelopes, BentEnvelopes, FlatEnvelopes, Noises, Sweeps}
=============================================================================
