------------------------------ MODULE ApuProofs -----------------------------
(***************************************************************************)
(* Proofs about a channel of the APU, for every length of its timer, every *)
(* divider and every program: it sounds only while it is powered, its      *)
(* state stays in its types, a trigger's delay in its tables, and steps    *)
(* and envelopes keep their time.                                          *)
(***************************************************************************)
EXTENDS Apu, FiniteSetTheorems, TLAPS

(***************************************************************************)
(* A channel that sounds is powered; with the types of the channel this is *)
(* kept by every operation of SoundChannel, but for the switch of the APU. *)
(***************************************************************************)
Powered(c) == c.on => c.dac /\ c.length_timer > 0

PoweredChannel(c) == c \in Common /\ Powered(c)

(* A tick of the length timer ends the sound with its last step. *)
LEMMA TickLengthPowered ==
  ASSUME NEW c, PoweredChannel(c)
  PROVE  PoweredChannel(TickLength(c))
<1> USE ChannelAssumption DEF PoweredChannel, Powered, Common
<1>1. CASE c.length_timer = 0
  BY <1>1 DEF TickLength
<1>2. CASE c.length_timer = 1
  <2>1. TickLength(c) = [c EXCEPT !.length_timer = 0, !.on = FALSE]
    BY <1>2 DEF TickLength
  <2>2. 0 \in 0 .. MaxLength
    OBVIOUS
  <2>3. TickLength(c) \in Common /\ TickLength(c).on = FALSE
    BY <2>1, <2>2
  <2> QED BY <2>3
<1>3. CASE c.length_timer \notin {0, 1}
  <2>1. c.length_timer - 1 \in 0 .. MaxLength /\ c.length_timer - 1 > 0
    BY <1>3
  <2> QED BY <1>3, <2>1 DEF TickLength
<1> QED BY <1>1, <1>2, <1>3

(* The same at a step of DIV-APU. *)
LEMMA LengthEdgePowered ==
  ASSUME NEW c, PoweredChannel(c), NEW div_apu
  PROVE  PoweredChannel(LengthEdge(c, div_apu))
BY TickLengthPowered DEF LengthEdge, TickEnabledLength

(* The envelope moves the volume only. *)
LEMMA EnvelopePowered ==
  ASSUME NEW c, PoweredChannel(c), NEW div_apu
  PROVE  /\ PoweredChannel(EnvelopeEdge(c, div_apu))
         /\ PoweredChannel(ReloadVolumeSweep(c))
         /\ PoweredChannel(HandleVolumeUpdate(c))
<1> USE ChannelAssumption DEF PoweredChannel, Powered, Common
<1>1. PoweredChannel(TickVolumeSweep(c))
  <2>1. (c.countdown + 7) % 8 \in 0 .. 7
    OBVIOUS
  <2> QED BY <2>1 DEF TickVolumeSweep
<1>2. ASSUME NEW d, PoweredChannel(d)
      PROVE  PoweredChannel(VolumeSweepReloaded(d))
  BY <1>2 DEF VolumeSweepReloaded
<1>3. PoweredChannel(EnvelopeEdge(c, div_apu))
  BY <1>1, <1>2 DEF EnvelopeEdge
<1>4. PoweredChannel(ReloadVolumeSweep(c))
  BY DEF ReloadVolumeSweep
<1>5. PoweredChannel(HandleVolumeUpdate(c))
  <2> DEFINE volume == CASE c.up /\ c.volume < VolumeTop - 1 -> c.volume + 1
                         [] ~c.up /\ c.volume > 0 -> c.volume - 1
                         [] OTHER -> c.volume
  <2>1. volume \in 0 .. VolumeTop - 1
    <3>1. CASE c.up /\ c.volume < VolumeTop - 1
      BY <3>1
    <3>2. CASE ~c.up /\ c.volume > 0
      BY <3>2
    <3>3. CASE ~(c.up /\ c.volume < VolumeTop - 1) /\ ~(~c.up /\ c.volume > 0)
      BY <3>3
    <3> QED BY <3>1, <3>2, <3>3
  <2>2. HandleVolumeUpdate(c) =
          IF c.pending_update THEN [c EXCEPT !.pending_update = FALSE, !.volume = volume] ELSE c
    BY DEF HandleVolumeUpdate
  <2> HIDE DEF volume
  <2> QED BY <2>1, <2>2
<1> QED BY <1>3, <1>4, <1>5

(* A write of NRx1 leaves some length. *)
LEMMA WriteLengthPowered ==
  ASSUME NEW c, PoweredChannel(c), NEW enable \in BOOLEAN, NEW v \in 0 .. 255
  PROVE  PoweredChannel(WriteLength(c, enable, v))
<1> DEFINE initial == IF enable THEN v % MaxLength ELSE c.initial_length
<1> USE ChannelAssumption DEF PoweredChannel, Powered, Common
<1>1. initial \in 0 .. MaxLength - 1
  <2>1. v % MaxLength \in 0 .. MaxLength - 1
    OBVIOUS
  <2> QED BY <2>1
<1>2. MaxLength - initial \in 0 .. MaxLength /\ MaxLength - initial > 0
  BY <1>1
<1>3. WriteLength(c, enable, v) = [c EXCEPT !.initial_length = initial, !.length_timer = MaxLength - initial]
  BY DEF WriteLength
<1> HIDE DEF initial
<1> QED BY <1>1, <1>2, <1>3

(* The DAC switched off ends the sound. *)
LEMMA SetDacPowered ==
  ASSUME NEW c, PoweredChannel(c), NEW dac \in BOOLEAN
  PROVE  PoweredChannel(SetDac(c, dac))
BY ChannelAssumption DEF PoweredChannel, Powered, Common, SetDac

(* The glitch of NRx2 makes a volume. *)
LEMMA GlitchedVolumeInRange ==
  ASSUME NEW c \in Common, NEW pace, NEW up
  PROVE  GlitchedVolume(c, pace, up) \in 0 .. VolumeTop - 1
<1> USE ChannelAssumption
<1> DEFINE v == IF GlitchNegates(c, up) THEN VolumeTop - 1 - c.volume ELSE c.volume
           d == GlitchIncrement(c, pace, up)
<1>1. d \in -1 .. 1
  BY DEF GlitchIncrement
<1>2. v \in Int
  BY DEF Common
<1>3. GlitchedVolume(c, pace, up) = (v + d) % VolumeTop
  BY DEF GlitchedVolume
<1> HIDE DEF v, d
<1> QED BY <1>1, <1>2, <1>3

(* A write of NRx2. *)
LEMMA WriteEnvelopePowered ==
  ASSUME NEW c, PoweredChannel(c), NEW glitch \in BOOLEAN, NEW v \in 0 .. 255
  PROVE  PoweredChannel(WriteEnvelope(c, glitch, v))
<1> DEFINE up == (v \div 8) % 2 = 1
           pace == v % 8
           initial == (v \div 16) % VolumeTop
           volume == IF glitch /\ c.on THEN GlitchedVolume(c, pace, up) ELSE c.volume
           written == [c EXCEPT !.initial_volume = initial, !.up = up, !.pace = pace, !.volume = volume]
<1> USE ChannelAssumption
<1>2. volume \in 0 .. VolumeTop - 1
  <2> HIDE DEF pace, up
  <2> QED BY GlitchedVolumeInRange DEF PoweredChannel, Common
<1>3. initial \in 0 .. VolumeTop - 1 /\ pace \in 0 .. 7 /\ up \in BOOLEAN
  OBVIOUS
<1>4. WriteEnvelope(c, glitch, v) = SetDac(written, written.initial_volume # 0 \/ up)
  BY DEF WriteEnvelope
<1> HIDE DEF up, pace, initial, volume
<1>5. PoweredChannel(written)
  BY <1>2, <1>3 DEF PoweredChannel, Powered, Common
<1> HIDE DEF written
<1>6. (written.initial_volume # 0 \/ up) \in BOOLEAN
  BY <1>3
<1> QED BY <1>4, <1>5, <1>6, SetDacPowered

(* A write of NRx4, with its trigger and its extra step of the length. *)
LEMMA WriteControlPowered ==
  ASSUME NEW c, PoweredChannel(c), NEW div_apu, NEW v \in 0 .. 255
  PROVE  PoweredChannel(WriteControl(c, div_apu, v))
<1> DEFINE even == div_apu % 2 = 0
           enable == (v \div 64) % 2 = 1
           enabled == [c EXCEPT !.length_enable = enable]
           clocked == IF ~c.length_enable /\ enabled.length_enable /\ even THEN TickLength(enabled) ELSE enabled
<1> USE ChannelAssumption
<1>1. PoweredChannel(enabled)
  <2>1. enable \in BOOLEAN
    OBVIOUS
  <2> HIDE DEF enable
  <2> QED BY <2>1 DEF PoweredChannel, Powered, Common
<1>2. PoweredChannel(clocked)
  <2> HIDE DEF enabled, even
  <2> QED BY <1>1, TickLengthPowered
<1>3. ASSUME NEW d, PoweredChannel(d), NEW e
      PROVE  PoweredChannel(Restarted(d, e))
  <2> DEFINE length == IF d.length_timer > 0 THEN d.length_timer
                       ELSE IF d.length_enable /\ e THEN MaxLength - 1 ELSE MaxLength
  <2> USE <1>3 DEF PoweredChannel, Powered, Common
  <2>1. length \in 0 .. MaxLength /\ length > 0
    OBVIOUS
  <2>2. Restarted(d, e) = [d EXCEPT !.on = d.on \/ d.dac, !.volume = d.initial_volume, !.countdown = d.pace,
                                    !.reloaded = FALSE, !.pending_update = FALSE, !.length_timer = length]
    BY DEF Restarted
  <2> HIDE DEF length
  <2> QED BY <2>1, <2>2
<1>4. WriteControl(c, div_apu, v) = IF Triggers(v) THEN Restarted(clocked, even) ELSE clocked
  BY DEF WriteControl
<1> HIDE DEF clocked, even
<1> QED BY <1>2, <1>3, <1>4

(* The APU switched off. *)
LEMMA SwitchedOffPowered ==
  ASSUME NEW c, PoweredChannel(c)
  PROVE  PoweredChannel(SwitchedOff(c)) /\ ~SwitchedOff(c).on
<1>1. 0 \in 0 .. MaxLength - 1 /\ 0 \in 0 .. VolumeTop - 1
  BY ChannelAssumption
<1>2. Silent \in Common /\ Silent.on = FALSE
  BY <1>1, ChannelAssumption DEF Silent, Common
<1>3. SwitchedOff(c) \in Common /\ SwitchedOff(c).on = FALSE
  BY <1>2 DEF PoweredChannel, Common, SwitchedOff
<1> QED BY <1>3 DEF PoweredChannel, Powered

(***************************************************************************)
(* The sweep of the period may turn the channel off and never on.          *)
(***************************************************************************)
LEMMA RecalculationTurnsOff ==
  ASSUME NEW on \in BOOLEAN, NEW s, NEW clock
  PROVE  TickRecalculation(on, s, clock).on \in BOOLEAN /\ (TickRecalculation(on, s, clock).on => on)
<1>1. ASSUME NEW r PROVE Recalculated(on, r).on \in BOOLEAN /\ (Recalculated(on, r).on => on)
  BY Zenon DEF Recalculated
<1> QED BY <1>1, Zenon DEF TickRecalculation

(* So may a write of NR10. *)
LEMMA WriteNr10TurnsOff ==
  ASSUME NEW on \in BOOLEAN, NEW s, NEW clock, NEW v
  PROVE  WriteNr10(on, s, clock, v).on \in BOOLEAN /\ (WriteNr10(on, s, clock, v).on => on)
<1>1. ASSUME NEW r PROVE Recalculated(TRUE, r).on \in BOOLEAN
  BY Zenon DEF Recalculated
<1> QED BY <1>1 DEF WriteNr10, Recalculated

(***************************************************************************)
(* The writes and the clocks of the whole channel.                         *)
(***************************************************************************)
LEMMA UpdatedChannelPowered ==
  ASSUME PoweredChannel(ch), seq.enable \in BOOLEAN, NEW w, w.v \in 0 .. 255
  PROVE  /\ PoweredChannel(UpdatedChannel(w))
         /\ (ch.on => seq.enable) => (UpdatedChannel(w).on => seq.enable)
         /\ w.reg = "NR52" /\ w.v < 128 /\ seq.enable => ~UpdatedChannel(w).on
<1>1. CASE w.reg = "NRx1"
  <2>1. UpdatedChannel(w) = WriteLength(ch, seq.enable, w.v)
    BY <1>1 DEF UpdatedChannel
  <2>2. UpdatedChannel(w).on = ch.on
    BY <2>1 DEF WriteLength, PoweredChannel, Common
  <2> QED BY <1>1, <2>1, <2>2, WriteLengthPowered
<1>2. CASE w.reg = "NR52" /\ w.v < 128 /\ seq.enable
  <2>1. UpdatedChannel(w) = SwitchedOff(ch)
    BY <1>2 DEF UpdatedChannel
  <2> QED BY <2>1, SwitchedOffPowered
<1>3. CASE w.reg = "NRx2" /\ seq.enable
  <2>1. UpdatedChannel(w) = WriteEnvelope(ch, program.kind # "ch4", w.v)
    BY <1>3 DEF UpdatedChannel
  <2> QED BY <1>3, <2>1, WriteEnvelopePowered
<1>4. CASE w.reg = "NR30" /\ seq.enable
  <2>1. UpdatedChannel(w) = SetDac(ch, w.v >= 128) /\ (w.v >= 128) \in BOOLEAN
    BY <1>4 DEF UpdatedChannel
  <2> QED BY <1>4, <2>1, SetDacPowered
<1>5. CASE w.reg = "NRx4" /\ seq.enable
  <2>1. UpdatedChannel(w) = WriteControl(ch, seq.div_apu, w.v)
    BY <1>5 DEF UpdatedChannel
  <2> QED BY <1>5, <2>1, WriteControlPowered
<1>6. CASE w.reg = "NR10" /\ seq.enable
  <2> DEFINE on == WriteNr10(ch.on, sweep, seq.clock, w.v).on
  <2>1. UpdatedChannel(w) = [ch EXCEPT !.on = on]
    BY <1>6 DEF UpdatedChannel
  <2>2. on \in BOOLEAN /\ (on => ch.on)
    BY WriteNr10TurnsOff DEF PoweredChannel, Common
  <2> HIDE DEF on
  <2> QED BY <1>6, <2>1, <2>2 DEF PoweredChannel, Powered, Common
<1>7. CASE /\ w.reg # "NRx1" /\ ~(w.reg = "NR52" /\ w.v < 128 /\ seq.enable) /\ ~(w.reg = "NRx2" /\ seq.enable)
           /\ ~(w.reg = "NR30" /\ seq.enable) /\ ~(w.reg = "NRx4" /\ seq.enable) /\ ~(w.reg = "NR10" /\ seq.enable)
  <2>1. UpdatedChannel(w) = ch
    BY <1>7 DEF UpdatedChannel
  <2> QED BY <1>7, <2>1
<1> QED BY <1>1, <1>2, <1>3, <1>4, <1>5, <1>6, <1>7

(* The clocks of an odd T-cycle. *)
LEMMA OddTickPowered ==
  ASSUME PoweredChannel(ch), NEW e, NEW div_apu, OddTick(e, div_apu)
  PROVE  PoweredChannel(ch')
<1> DEFINE on == TickRecalculation(ch.on, sweep, seq.clock).on
           c == [ch EXCEPT !.on = on]
<1>1. PoweredChannel(c)
  <2>1. on \in BOOLEAN /\ (on => ch.on)
    BY RecalculationTurnsOff DEF PoweredChannel, Common
  <2> HIDE DEF on
  <2> QED BY <2>1 DEF PoweredChannel, Powered, Common
<1>2. ch' = Edged(VolumeHandled(c), e, div_apu)
  BY DEF OddTick
<1> HIDE DEF c
<1>3. PoweredChannel(VolumeHandled(c))
  BY <1>1, EnvelopePowered DEF VolumeHandled
<1>4. ASSUME NEW d, PoweredChannel(d) PROVE PoweredChannel(Edged(d, e, div_apu))
  BY <1>4, LengthEdgePowered, EnvelopePowered DEF Edged
<1> QED BY <1>2, <1>3, <1>4

(***************************************************************************)
(* The invariant: what makes SoundingIsPowered inductive is the type of    *)
(* the channel and of the write that waits for the next T-cycle.           *)
(***************************************************************************)
Sequencer ==
  [enable : BOOLEAN, clock : 0 .. 3, div_apu : 0 .. MaxSteps - 1, prev : BOOLEAN, selector : 0 .. 1]

PowerInv ==
  /\ program \in Programs
  /\ pending.v \in 0 .. 255
  /\ t \in 0 .. 3
  /\ seq \in Sequencer
  /\ PoweredChannel(ch)
  /\ ch.on => seq.enable

(* At reset. *)
LEMMA PowerInit == ApuInit => PowerInv
<1> SUFFICES ASSUME ApuInit PROVE PowerInv
  OBVIOUS
<1> USE ChannelAssumption, SequencerAssumption DEF ApuInit
<1>1. seq \in Sequencer /\ seq.enable /\ t = 0
  BY DEF SequencerInit, Sequencer
<1>2. pending.v = 0
  BY DEF SequencerInit, NoOp
<1>3. PoweredChannel(ch)
  <2>1. Silent \in Common /\ Silent.on = FALSE
    BY DEF Silent, Common
  <2>2. CASE program.kind = "ch1"
    <3>1. /\ VolumeTop - 1 \in 0 .. VolumeTop - 1 /\ MaxLength \in 0 .. MaxLength /\ MaxLength > 0
          /\ 3 \in 0 .. 7 /\ 1 \in 0 .. 7
      OBVIOUS
    <3>2. ch = [Silent EXCEPT !.on = TRUE, !.dac = TRUE, !.length_timer = MaxLength,
                              !.initial_volume = VolumeTop - 1, !.pace = 3, !.countdown = 1]
      BY <2>2
    <3> QED BY <2>1, <3>1, <3>2 DEF PoweredChannel, Powered, Common
  <2>3. CASE program.kind # "ch1"
    BY <2>1, <2>3 DEF PoweredChannel, Powered
  <2> QED BY <2>2, <2>3
<1> QED BY <1>1, <1>2, <1>3 DEF PowerInv

(* The sequencer's own step. *)
LEMMA EvenEnable ==
  ASSUME seq \in Sequencer, NEW w, NEW double
  PROVE  /\ Even(w, double) \in Sequencer
         /\ Even(w, double).enable = IF w.reg = "NR52" THEN w.v >= 128 ELSE seq.enable
<1> USE SequencerAssumption DEF Sequencer
<1> DEFINE s == IF w.reg = "NR52" THEN UpdateNr52(seq, w.v, double) ELSE seq
<1>1. s \in Sequencer /\ s.enable = IF w.reg = "NR52" THEN w.v >= 128 ELSE seq.enable
  <2>1. CASE w.reg # "NR52" \/ (w.v >= 128) = seq.enable
    BY <2>1 DEF UpdateNr52
  <2>2. CASE w.reg = "NR52" /\ ~seq.enable /\ w.v >= 128
    <3>1. s = TurnedOn(double)
      BY <2>2 DEF UpdateNr52
    <3>2. 0 \in 0 .. MaxSteps - 1
      OBVIOUS
    <3>3. TurnedOn(double) \in Sequencer /\ TurnedOn(double).enable = TRUE
      BY <3>2 DEF TurnedOn
    <3> HIDE DEF s, Sequencer
    <3> QED BY <2>2, <3>1, <3>3, Zenon
  <2>3. CASE w.reg = "NR52" /\ seq.enable /\ ~(w.v >= 128)
    <3>1. s = [seq EXCEPT !.enable = FALSE]
      BY <2>3 DEF UpdateNr52
    <3>2. [seq EXCEPT !.enable = FALSE] \in Sequencer /\ [seq EXCEPT !.enable = FALSE].enable = FALSE
      OBVIOUS
    <3>3. (w.v >= 128) = FALSE
      BY <2>3
    <3> HIDE DEF s, Sequencer
    <3> QED BY <2>3, <3>1, <3>2, <3>3, Zenon
  <2> QED BY <2>1, <2>2, <2>3
<1>3. Even(w, double) = IF s.enable THEN [s EXCEPT !.clock = (s.clock + 1) % 4] ELSE s
  BY DEF Even
<1> HIDE DEF s
<1>4. (s.clock + 1) % 4 \in 0 .. 3
  BY <1>1
<1> QED BY <1>1, <1>3, <1>4

(* DIV-APU never switches the APU. *)
LEMMA OddEnable ==
  ASSUME seq \in Sequencer, NEW k, NEW d
  PROVE  Odd(k, d) \in Sequencer /\ Odd(k, d).enable = seq.enable
<1> USE SequencerAssumption DEF Sequencer
<1> DEFINE bit == DivBitOf(d, Selector(k))
           step == IF EdgeOf(bit) = "falling" THEN (seq.div_apu + 1) % MaxSteps ELSE seq.div_apu
<1>1. Selector(k) \in 0 .. 1
  BY DEF Selector
<1>2. bit \in BOOLEAN
  BY DEF DivBitOf
<1>3. step \in 0 .. MaxSteps - 1
  <2>1. (seq.div_apu + 1) % MaxSteps \in 0 .. MaxSteps - 1
    OBVIOUS
  <2> QED BY <2>1
<1>4. Odd(k, d) = [seq EXCEPT !.selector = Selector(k), !.prev = bit, !.div_apu = step]
  BY DEF Odd
<1> HIDE DEF bit, step
<1> QED BY <1>1, <1>2, <1>3, <1>4

(* Every step keeps a channel powered. *)
LEMMA PowerStep == PowerInv /\ [ApuNext]_apuVars => PowerInv'
<1> SUFFICES ASSUME PowerInv, [ApuNext]_apuVars PROVE PowerInv'
  OBVIOUS
<1>1. CASE UNCHANGED apuVars
  BY <1>1 DEF apuVars, seqVars, PowerInv, PoweredChannel, Powered
<1>2. ASSUME NEW op \in program.ops, ApuTick(op) PROVE PowerInv'
  <2> DEFINE w == Applied(op)
  <2>1. op.v \in 0 .. 255 /\ w.v \in 0 .. 255 /\ NoOp.v = 0
    BY ApuAssumption DEF PowerInv, Applied, NoOp
  <2>2. program' = program /\ t' \in 0 .. 3 /\ pending'.v \in 0 .. 255
    <3>1. t' = (t + 1) % 4 /\ pending' \in {op, NoOp, pending}
      BY <1>2 DEF ApuTick, Tick
    <3> QED BY <1>2, <2>1, <3>1 DEF ApuTick, PowerInv
  <2>3. CASE t % 2 = 0
    <3>1. seq' = Even(w, SpeedAfter(op).double) /\ ch' = UpdatedChannel(w)
      BY <1>2, <2>3 DEF ApuTick, Tick, EvenTick
    <3>2. /\ seq' \in Sequencer
          /\ seq'.enable = IF w.reg = "NR52" THEN w.v >= 128 ELSE seq.enable
      BY <3>1, EvenEnable DEF PowerInv
    <3>3. /\ PoweredChannel(ch')
          /\ ch'.on => seq.enable
          /\ w.reg = "NR52" /\ w.v < 128 /\ seq.enable => ~ch'.on
      <4>1. seq.enable \in BOOLEAN
        BY DEF PowerInv, Sequencer
      <4> HIDE DEF w
      <4> QED BY <2>1, <3>1, <4>1, UpdatedChannelPowered DEF PowerInv
    <3>4. ch'.on => seq'.enable
      <4>1. w.v >= 128 \/ w.v < 128
        BY <2>1
      <4> HIDE DEF w
      <4> QED BY <3>2, <3>3, <4>1
    <3> QED BY <2>2, <3>2, <3>3, <3>4 DEF PowerInv
  <2>4. CASE t % 2 # 0
    <3>1. CASE seq.enable
      <4>1. /\ seq' = Odd(SpeedAfter(op), DivAfter(op))
            /\ OddTick(edge', seq'.div_apu)
        BY <1>2, <2>4, <3>1 DEF ApuTick, Tick, PowerInv
      <4>2. seq' \in Sequencer /\ seq'.enable
        BY <3>1, <4>1, OddEnable DEF PowerInv
      <4>3. PoweredChannel(ch')
        BY <4>1, OddTickPowered DEF PowerInv
      <4> QED BY <2>2, <4>2, <4>3 DEF PowerInv
    <3>2. CASE ~seq.enable
      <4>1. seq' = seq /\ ch' = ch
        BY <1>2, <2>4, <3>2 DEF ApuTick, Tick, PowerInv
      <4> QED BY <2>2, <4>1 DEF PowerInv, PoweredChannel, Powered
    <3> QED BY <3>1, <3>2
  <2> QED BY <2>3, <2>4
<1> QED BY <1>1, <1>2 DEF ApuNext

(* A channel that sounds has its DAC on, some length left and the APU on.  *)
THEOREM SoundingAlwaysPowered == ApuSpec => []SoundingIsPowered
<1>1. PowerInv => SoundingIsPowered
  BY DEF PowerInv, PoweredChannel, Powered, SoundingIsPowered
<1> QED BY <1>1, PowerInit, PowerStep, PTL DEF ApuSpec

(***************************************************************************)
(* The types of the clocks.                                                *)
(***************************************************************************)
(* A power of two is that of the number before it, twice. *)
LEMMA PowerOfTwo ==
  ASSUME NEW n \in Nat
  PROVE  /\ 2 ^ n \in Nat \ {0}
         /\ 2 ^ (n + 1) = 2 * 2 ^ n
<1> DEFINE S == 1 .. n
           T == 1 .. n + 1
           With == {x \cup {n + 1} : x \in SUBSET S}
<1>1. /\ IsFiniteSet(S) /\ Cardinality(S) = n
      /\ IsFiniteSet(T) /\ Cardinality(T) = n + 1
  BY FS_Interval
<1>2. /\ IsFiniteSet(SUBSET S) /\ Cardinality(SUBSET S) = 2 ^ n /\ 2 ^ n \in Nat
      /\ IsFiniteSet(SUBSET T) /\ Cardinality(SUBSET T) = 2 ^ (n + 1)
  BY <1>1, FS_SUBSET, FS_CardinalityType
<1>3. 2 ^ n # 0
  <2>1. {} \in SUBSET S
    OBVIOUS
  <2> QED BY <1>2, <2>1, FS_EmptySet
<1>4. IsFiniteSet(With) /\ Cardinality(With) = Cardinality(SUBSET S)
  <2> DEFINE f == [x \in SUBSET S |-> x \cup {n + 1}]
  <2>1. \A x \in SUBSET S : n + 1 \notin x
    OBVIOUS
  <2>2. f \in Bijection(SUBSET S, With)
    <3>1. f \in [SUBSET S -> With]
      OBVIOUS
    <3>2. \A x, y \in SUBSET S : f[x] = f[y] => x = y
      <4>1. ASSUME NEW x \in SUBSET S, NEW y \in SUBSET S, f[x] = f[y]
            PROVE  x = y
        BY <2>1, <4>1
      <4> QED BY <4>1
    <3>3. \A z \in With : \E x \in SUBSET S : f[x] = z
      OBVIOUS
    <3> HIDE DEF f, With
    <3> QED BY <3>1, <3>2, <3>3 DEF Bijection, Injection, Surjection, IsInjective
  <2>3. ExistsBijection(SUBSET S, With)
    BY <2>2 DEF ExistsBijection
  <2> HIDE DEF With, f, S
  <2> QED BY <1>2, <2>3, FS_Bijection
<1>5. SUBSET T = (SUBSET S) \cup With
  <2>1. ASSUME NEW x \in SUBSET T
        PROVE  x \in (SUBSET S) \cup With
    <3>1. CASE n + 1 \notin x
      BY <3>1
    <3>2. CASE n + 1 \in x
      <4>1. x \ {n + 1} \in SUBSET S /\ x = (x \ {n + 1}) \cup {n + 1}
        BY <3>2
      <4> QED BY <4>1
    <3> QED BY <3>1, <3>2
  <2>2. S \subseteq T /\ n + 1 \in T
    OBVIOUS
  <2>3. SUBSET S \subseteq SUBSET T /\ With \subseteq SUBSET T
    <3> HIDE DEF S, T
    <3> QED BY <2>2
  <2> HIDE DEF With
  <2> QED BY <2>1, <2>3
<1>6. (SUBSET S) \cap With = {}
  <2>1. \A x \in SUBSET S : n + 1 \notin x
    OBVIOUS
  <2>2. \A x \in With : n + 1 \in x
    OBVIOUS
  <2> HIDE DEF With, S
  <2> QED BY <2>1, <2>2
<1>7. 2 ^ (n + 1) = 2 ^ n + 2 ^ n
  <2> HIDE DEF With, S, T
  <2>1. Cardinality(SUBSET T) = Cardinality(SUBSET S) + Cardinality(With) - Cardinality({})
    BY <1>2, <1>4, <1>5, <1>6, FS_Union
  <2> QED BY <1>2, <1>4, <2>1, FS_EmptySet
<1> QED BY <1>2, <1>3, <1>7

(* The bit the APU watches, in ticks of the timers: at double speed it is  *)
(* the high half of the divider, at normal speed a half of each half.      *)
Bit == 2 ^ DivBit

(* The sizes of the divider and the times of a step, in that bit. *)
LEMMA Sizes ==
  /\ Bit \in Nat /\ Bit >= 2
  /\ 2 ^ (DivBit + 1) = 2 * Bit /\ DivSize = 4 * Bit /\ Half = 4 * Bit /\ Period = 8 * Bit
<1>1. DivBit \in Nat /\ DivBit + 1 \in Nat /\ DivBit - 1 \in Nat /\ DivBit = (DivBit - 1) + 1
      /\ DivBit + 2 = (DivBit + 1) + 1
  BY SequencerAssumption
<1>2. 2 ^ DivBit \in Nat /\ 2 ^ (DivBit + 1) = 2 * 2 ^ DivBit
  BY <1>1, PowerOfTwo
<1>3. 2 ^ (DivBit + 2) = 2 * 2 ^ (DivBit + 1)
  BY <1>1, PowerOfTwo
<1>4. 2 ^ DivBit >= 2
  <2>1. 2 ^ (DivBit - 1) \in Nat \ {0}
    BY <1>1, PowerOfTwo
  <2>2. 2 ^ ((DivBit - 1) + 1) = 2 * 2 ^ (DivBit - 1)
    BY <1>1, PowerOfTwo
  <2> QED BY <1>1, <2>1, <2>2
<1> QED BY <1>2, <1>3, <1>4 DEF Bit, DivSize, Half, Period

(* The type of the clocks. *)
LEMMA SequencerTyped ==
  ASSUME SequencerTypeOK, NEW op, Tick(op)
  PROVE  SequencerTypeOK'
<1> DEFINE k == SpeedAfter(op)
<1>1. t \in 0 .. 3 /\ t' \in 0 .. 3
  BY DEF Tick, SequencerTypeOK
<1>2. key1' \in [double : BOOLEAN, enter : 0 .. 2, block : 0 .. 4]
  <2> DEFINE K == [double : BOOLEAN, enter : 0 .. 2, block : 0 .. 4]
  <2>1. key1' = SpeedAfter(op)
    BY DEF Tick
  <2>2. key1 \in K
    BY DEF SequencerTypeOK
  <2>3. Switched(op) \in K
    <3>1. CASE op.reg = "KEY1"
      <4>1. (IF key1.double THEN 2 ELSE 4) \in 0 .. 4 /\ 2 \in 0 .. 2
        OBVIOUS
      <4> QED BY <2>2, <3>1, <4>1 DEF Switched
    <3>2. CASE op.reg # "KEY1"
      BY <2>2, <3>2 DEF Switched
    <3> QED BY <3>1, <3>2
  <2>4. ASSUME NEW x \in K PROVE SwitchTicked(x) \in K
    <3>1. (x.double # (x.enter = 1)) \in BOOLEAN
      OBVIOUS
    <3>2. /\ (IF x.enter = 0 THEN 0 ELSE x.enter - 1) \in 0 .. 2
          /\ (IF x.block = 0 THEN 0 ELSE x.block - 1) \in 0 .. 4
      OBVIOUS
    <3> QED BY <3>1, <3>2 DEF SwitchTicked
  <2> QED BY <2>1, <2>2, <2>3, <2>4 DEF SpeedAfter
<1>3. div' \in 0 .. DivSize - 1
  <2>1. DivSize \in Nat /\ DivSize > 0
    BY Sizes
  <2>2. div' = DivAfter(op) /\ div \in 0 .. DivSize - 1
    BY DEF Tick, SequencerTypeOK
  <2>3. ASSUME NEW d \in 0 .. DivSize - 1
        PROVE  (d + 1) % DivSize \in 0 .. DivSize - 1
    BY <2>1
  <2>4. 0 \in 0 .. DivSize - 1
    BY <2>1
  <2> QED BY <2>2, <2>3, <2>4 DEF DivAfter
<1>4. seq' \in Sequencer
  <2>1. seq \in Sequencer
    BY DEF SequencerTypeOK, Sequencer
  <2>2. seq' \in {Even(Applied(op), k.double), Odd(k, DivAfter(op)), seq}
    BY DEF Tick
  <2> HIDE DEF k
  <2> QED BY <2>1, <2>2, EvenEnable, OddEnable
<1>5. edge' \in {"none", "falling", "raising"}
  <2>1. edge' = EdgeAfter(op)
    BY DEF Tick
  <2> QED BY <2>1 DEF EdgeAfter, EdgeOf
<1>6. since' \in [step : 0 .. Half, start : 0 .. Period + Slack, fresh : BOOLEAN]
  <2>1. ASSUME NEW cap \in Nat, NEW n \in 0 .. cap
        PROVE  Later(n, cap) \in 0 .. cap
    BY DEF Later
  <2>2. Half \in Nat /\ Period + Slack \in Nat
    BY Sizes DEF Slack
  <2>3. /\ Later(since.step, Half) \in 0 .. Half /\ Later(since.start, Period + Slack) \in 0 .. Period + Slack
        /\ Half \in 0 .. Half /\ 0 \in 0 .. Half /\ 0 \in 0 .. Period + Slack
    BY <2>1, <2>2 DEF SequencerTypeOK
  <2>4. since.fresh \in BOOLEAN
    BY DEF SequencerTypeOK
  <2>5. since' = SinceAfter(op, Applied(op))
    BY DEF Tick
  <2> DEFINE on == Applied(op).reg = "NR52" /\ Applied(op).v >= 128 /\ ~seq.enable
             steps == EdgeAfter(op) = "falling"
             fresh == on \/ (since.fresh /\ t % 2 = 0)
  <2>6. fresh \in BOOLEAN
    OBVIOUS
  <2>7. since' = [step |-> IF on \/ (steps /\ since.fresh) THEN Half
                           ELSE IF steps THEN 0 ELSE Later(since.step, Half),
                  start |-> IF on \/ steps \/ Restarts(op) \/ ~seq.enable THEN 0
                            ELSE Later(since.start, Period + Slack),
                  fresh |-> fresh]
    BY <2>5, Zenon DEF SinceAfter
  <2> HIDE DEF on, steps, fresh
  <2> QED BY <2>3, <2>6, <2>7
<1> QED BY <1>1, <1>2, <1>3, <1>4, <1>5, <1>6 DEF SequencerTypeOK, Sequencer

(***************************************************************************)
(* The noise counters keep their types, the delay of a trigger among them. *)
(***************************************************************************)
(* The sizes of the counter, and of the word it is kept in. *)
LEMMA Counters ==
  /\ CounterSize \in Nat \ {0} /\ WordSize \in Nat /\ WordSize >= CounterSize
  /\ 0 \in 0 .. WordSize - 1
  /\ \A x \in Nat : x % CounterSize \in 0 .. WordSize - 1 /\ x % WordSize \in 0 .. WordSize - 1
<1>1. CounterSize \in Nat \ {0}
  BY NoiseAssumption, PowerOfTwo DEF CounterSize
<1>2. WordSize \in Nat \ {0} /\ WordSize >= CounterSize
  BY <1>1 DEF WordSize
<1>3. ASSUME NEW x \in Nat
      PROVE  x % CounterSize \in 0 .. WordSize - 1 /\ x % WordSize \in 0 .. WordSize - 1
  <2>1. x % CounterSize \in 0 .. CounterSize - 1
    BY <1>1
  <2>2. x % WordSize \in 0 .. WordSize - 1
    BY <1>2
  <2> QED BY <1>1, <1>2, <2>1, <2>2
<1> QED BY <1>1, <1>2, <1>3

(* The divider reloads a countdown in range. *)
LEMMA ReloadTyped ==
  ASSUME NEW d \in 0 .. 7
  PROVE  Reload(d) \in 0 .. 15
BY DEF Reload

(* A tick of the noise channel, with or without a delay. *)
LEMMA TickNoiseTyped ==
  ASSUME NEW n \in NoiseState, NEW clock \in 0 .. 3
  PROVE  TickNoise(n, clock) \in NoiseState
<1> DEFINE counted == [n EXCEPT !.countdown = (n.countdown + 15) % 16]
           next == CASE n.trigger_delay > 0 -> Delayed(n, clock)
                     [] n.trigger_delay = 0 /\ Counts(n, clock) ->
                          IF counted.countdown = 0 THEN Elapsed(counted) ELSE counted
                     [] OTHER -> n
<1>1. counted \in NoiseState
  <2>1. (n.countdown + 15) % 16 \in 0 .. 15
    BY DEF NoiseState
  <2> QED BY <2>1 DEF NoiseState
<1>2. ASSUME NEW x \in NoiseState PROVE Elapsed(x) \in NoiseState
  <2>1. (x.counter + 1) % CounterSize \in 0 .. WordSize - 1
    <3>1. x.counter + 1 \in Nat
      BY DEF NoiseState
    <3> QED BY <3>1, Counters
  <2>2. Reload(x.clock_divider) \in 0 .. 15
    BY ReloadTyped DEF NoiseState
  <2> QED BY <2>1, <2>2 DEF Elapsed, NoiseState
<1>3. CASE n.trigger_delay > 0
  <2>1. n.trigger_delay - 1 \in 0 .. 4
    BY <1>3 DEF NoiseState
  <2>2. Delayed(n, clock) \in NoiseState
    BY <2>1 DEF Delayed, NoiseState
  <2>3. next = Delayed(n, clock)
    BY <1>3
  <2> QED BY <2>2, <2>3 DEF TickNoise, NoiseState
<1>4. CASE ~(n.trigger_delay > 0)
  <2>1. next \in NoiseState
    BY <1>1, <1>2, <1>4
  <2>2. TickNoise(n, clock) = [next EXCEPT !.shift = n.clock_shift]
    BY DEF TickNoise
  <2> HIDE DEF next
  <2> QED BY <2>1, <2>2 DEF NoiseState
<1> QED BY <1>3, <1>4

(* A write of NR43. *)
LEMMA WriteNr43Typed ==
  ASSUME NEW n \in NoiseState, NEW on \in BOOLEAN, NEW clock, NEW v \in 0 .. 255
  PROVE  WriteNr43(n, on, clock, v) \in NoiseState
<1> DEFINE shift == v \div 16
           divider == v % 8
           seen == SeenCounter(n, clock)
           ticked == on /\ ~TestCounter(seen, n.shift) /\ TestCounter(seen, shift)
<1>1. shift \in 0 .. 15 /\ divider \in 0 .. 7
  OBVIOUS
<1>2. ticked \in BOOLEAN
  OBVIOUS
<1>3. WriteNr43(n, on, clock, v) =
        [n EXCEPT !.clock_shift = shift, !.clock_divider = divider, !.ticked = ticked,
                  !.divider = IF on /\ divider # 0 THEN divider ELSE n.divider]
  BY DEF WriteNr43
<1> HIDE DEF shift, divider, ticked
<1> QED BY <1>1, <1>2, <1>3 DEF NoiseState

(* Any entry of the tables of delays, and what is read past them. *)
LEMMA RetriggerDelayTyped ==
  ASSUME NEW n \in NoiseState, NEW counter, NEW clock
  PROVE  RetriggerDelay(n, counter, clock) \in 0 .. 4
<1> DEFINE delay == n.trigger_delay
<1>1. delay \in 0 .. 4
  BY DEF NoiseState
<1>2. /\ Entry(<<3, 3, 2, 3>>, delay) \in 0 .. 3 /\ (delay = 0 => Entry(<<3, 3, 2, 3>>, delay) = 3)
      /\ Entry(<<3, 3, 4, 3>>, delay) \in 0 .. 4 /\ (delay = 0 => Entry(<<3, 3, 4, 3>>, delay) = 3)
      /\ Entry(<<3, 4, 2, 3>>, delay) \in 0 .. 4
  <2>1. delay = 0 \/ delay = 1 \/ delay = 2 \/ delay = 3 \/ delay = 4
    BY <1>1
  <2> HIDE DEF delay
  <2> QED BY <2>1 DEF Entry
<1> HIDE DEF delay
<1>3. CASE n.clock_divider = 0
  BY <1>1, <1>2, <1>3 DEF RetriggerDelay, delay
<1>4. CASE n.clock_divider = 1
  BY <1>1, <1>2, <1>4 DEF RetriggerDelay, delay
<1>5. CASE n.clock_divider \notin {0, 1}
  BY <1>1, <1>2, <1>5 DEF RetriggerDelay, delay
<1> QED BY <1>3, <1>4, <1>5

(* A trigger, of a channel that is off or on. *)
LEMMA TriggerNoiseTyped ==
  ASSUME NEW n \in NoiseState, NEW on, NEW clock
  PROVE  TriggerNoise(n, on, clock) \in NoiseState
<1> DEFINE bumped == (n.counter + (IF AlmostElapsed(n, clock) THEN 1 ELSE 0)) % WordSize
           zero == n.clock_divider = 0 /\ Misaligned(n, clock)
           counter == (bumped + (IF zero THEN 1 ELSE 0)) % WordSize
           countdown == IF zero THEN 0 ELSE Reload(n.clock_divider)
           started == IF on THEN Retriggered(n, clock)
                      ELSE [n EXCEPT !.trigger_delay = IF n.clock_divider = 1 THEN 4 ELSE 3,
                                     !.counter = 0, !.countdown = Reload(n.clock_divider)]
<1>1. Reload(n.clock_divider) \in 0 .. 15
  BY ReloadTyped DEF NoiseState
<1>2. bumped \in 0 .. WordSize - 1
  <2>1. n.counter + (IF AlmostElapsed(n, clock) THEN 1 ELSE 0) \in Nat
    BY DEF NoiseState
  <2> QED BY <2>1, Counters
<1>3. counter \in 0 .. WordSize - 1
  <2> HIDE DEF bumped, zero
  <2>1. bumped + (IF zero THEN 1 ELSE 0) \in Nat
    BY <1>2
  <2> QED BY <2>1, Counters
<1>4. Retriggered(n, clock) =
        [n EXCEPT !.counter = counter, !.trigger_delay = RetriggerDelay(n, bumped, clock), !.countdown = countdown]
  BY DEF Retriggered
<1>5. countdown \in 0 .. 15
  <2> HIDE DEF zero
  <2> QED BY <1>1
<1>6. Retriggered(n, clock) \in NoiseState
  <2> HIDE DEF counter, countdown, bumped
  <2>1. RetriggerDelay(n, bumped, clock) \in 0 .. 4
    BY RetriggerDelayTyped
  <2> QED BY <1>3, <1>4, <1>5, <2>1 DEF NoiseState
<1>7. started \in NoiseState
  <2>1. (IF n.clock_divider = 1 THEN 4 ELSE 3) \in 0 .. 4
    OBVIOUS
  <2>2. [n EXCEPT !.trigger_delay = IF n.clock_divider = 1 THEN 4 ELSE 3,
                  !.counter = 0, !.countdown = Reload(n.clock_divider)] \in NoiseState
    BY <1>1, <2>1, Counters DEF NoiseState
  <2> QED BY <1>6, <2>2
<1>8. TriggerNoise(n, on, clock) = [started EXCEPT !.shift = n.clock_shift, !.divider = n.clock_divider]
  BY DEF TriggerNoise
<1> HIDE DEF started
<1> QED BY <1>7, <1>8 DEF NoiseState

(* At reset. *)
LEMMA NoiseStarts == NoNoise \in NoiseState
BY Counters DEF NoNoise, NoiseState

(* Any write, as the noise channel sees it. *)
LEMMA UpdatedNoiseTyped ==
  ASSUME noise \in NoiseState, seq \in Sequencer, ch.on \in BOOLEAN, NEW w, w.v \in 0 .. 255
  PROVE  UpdatedNoise(w) \in NoiseState
<1> DEFINE n == [noise EXCEPT !.ticked = FALSE]
<1>1. n \in NoiseState
  <2>1. ASSUME NEW ticked \in BOOLEAN PROVE [noise EXCEPT !.ticked = ticked] \in NoiseState
    BY DEF NoiseState
  <2> QED BY <2>1
<1>2. NoiseOff(n) \in NoiseState
  <2> HIDE DEF n
  <2>1. 0 \in 0 .. 15 /\ 0 \in 0 .. 7
    OBVIOUS
  <2> QED BY ZenonT(40), <1>1, <2>1 DEF NoiseOff, NoiseState
<1>3. UpdatedNoise(w) \in {NoiseOff(n), WriteNr43(n, ch.on, seq.clock, w.v),
                           TriggerNoise(n, WriteControl(ch, seq.div_apu, w.v % 128).on, seq.clock), n}
  BY DEF UpdatedNoise
<1> HIDE DEF n
<1> QED BY <1>1, <1>2, <1>3, WriteNr43Typed, TriggerNoiseTyped

(***************************************************************************)
(* The sweep of the period keeps its types: every period is in range.      *)
(***************************************************************************)
Periods == 0 .. PeriodTop - 1

(* Periods and their remainders. *)
LEMMA PeriodSizes ==
  /\ PeriodTop \in Nat /\ PeriodTop > 0 /\ 0 \in Periods
  /\ \A x \in Int : x % PeriodTop \in Periods
<1>1. PeriodTop \in Nat /\ PeriodTop > 0
  BY SweepAssumption
<1>2. ASSUME NEW x \in Int PROVE x % PeriodTop \in Periods
  BY <1>1 DEF Periods
<1> QED BY <1>1, <1>2 DEF Periods

(* A shift to the right makes no period larger. *)
LEMMA NextIncrementTyped ==
  ASSUME NEW s \in SweepState
  PROVE  NextIncrement(s) \in Periods
<1>1. s.register \in Nat /\ s.register < PeriodTop /\ s.step \in 0 .. 7
  BY PeriodSizes DEF SweepState
<1>2. ASSUME NEW n \in Nat, NEW m \in Nat \ {0}
      PROVE  n \div m \in Nat /\ n \div m <= n
  <2>1. n \div m \in Int /\ m * (n \div m) <= n /\ n < m * (n \div m) + m
    OBVIOUS
  <2> DEFINE q == n \div m
  <2> HIDE DEF q
  <2>2. q \in Int /\ m * q <= n /\ n < m * q + m
    BY <2>1 DEF q
  <2>3. q >= 0
    <3>1. m * (q + 1) > 0
      BY <2>2
    <3> QED BY <2>2, <3>1
  <2>4. q <= m * q
    BY <2>2, <2>3
  <2> QED BY <2>2, <2>3, <2>4 DEF q
<1>3. 2 ^ s.step \in Nat \ {0}
  BY <1>1, PowerOfTwo
<1>4. NextIncrement(s) \in Nat /\ NextIncrement(s) <= s.register
  BY <1>1, <1>2, <1>3 DEF NextIncrement
<1> QED BY <1>1, <1>4, PeriodSizes DEF Periods

(* The one's complement of an increment is one. *)
LEMMA SignedIncrementTyped ==
  ASSUME NEW s \in SweepState
  PROVE  SignedIncrement(s) \in Periods
BY PeriodSizes DEF SignedIncrement, SweepState, Periods

(* The next period, without its carry. *)
LEMMA SweptTyped ==
  ASSUME NEW s \in SweepState
  PROVE  Swept(s) \in SweepState
<1>1. NextPeriod(s, SignedIncrement(s), s.down) \in Int
  BY SignedIncrementTyped, PeriodSizes DEF NextPeriod, SweepState, Periods
<1>2. NextPeriod(s, SignedIncrement(s), s.down) % PeriodTop \in 0 .. PeriodTop - 1
  BY <1>1, PeriodSizes DEF Periods
<1> QED BY <1>2 DEF Swept, SweepState

(* A recalculation done. *)
LEMMA RecalculatedTyped ==
  ASSUME NEW s \in SweepState, NEW on
  PROVE  Recalculated(on, s).s \in SweepState
<1>1. Recalculated(on, s).s = [s EXCEPT !.period = s.register, !.checked = SignedIncrement(s)]
  BY DEF Recalculated
<1> QED BY <1>1, SignedIncrementTyped DEF SweepState, Periods

(* A tick of the recalculation. *)
LEMMA TickRecalculationTyped ==
  ASSUME NEW s \in SweepState, NEW on, NEW clock
  PROVE  TickRecalculation(on, s, clock).s \in SweepState
<1>1. CASE s.instant
  <2>1. [s EXCEPT !.instant = FALSE] \in SweepState
    BY DEF SweepState
  <2> QED BY <1>1, <2>1, RecalculatedTyped DEF TickRecalculation
<1>2. CASE ~s.instant /\ clock % 2 = 1 /\ s.counter < s.target
  <2>1. s.counter + 1 \in 0 .. 4
    BY <1>2 DEF SweepState
  <2>2. TickRecalculation(on, s, clock).s = [s EXCEPT !.counter = s.counter + 1]
    <3>1. ~(s.counter >= s.target)
      BY <1>2 DEF SweepState
    <3> QED BY <1>2, <3>1 DEF TickRecalculation
  <2> QED BY <2>1, <2>2 DEF SweepState
<1>3. CASE /\ ~s.instant /\ clock % 2 = 1 /\ ~(s.counter < s.target)
           /\ s.counter >= s.target /\ s.countdown > 0 /\ s.step > 0
  <2>1. CASE s.countdown = 1
    <3>1. [s EXCEPT !.countdown = 0] \in SweepState
      BY DEF SweepState
    <3>2. TickRecalculation(on, s, clock).s = Recalculated(on, [s EXCEPT !.countdown = 0]).s
      BY <1>3, <2>1 DEF TickRecalculation
    <3> QED BY <3>1, <3>2, RecalculatedTyped
  <2>2. CASE s.countdown # 1
    <3>1. s.countdown - 1 \in 0 .. 7
      BY <1>3 DEF SweepState
    <3>2. TickRecalculation(on, s, clock).s = [s EXCEPT !.countdown = s.countdown - 1]
      BY <1>3, <2>2 DEF TickRecalculation
    <3> QED BY <3>1, <3>2 DEF SweepState
  <2> QED BY <2>1, <2>2
<1>4. CASE /\ ~s.instant /\ ~(clock % 2 = 1 /\ s.counter < s.target)
           /\ ~(clock % 2 = 1 /\ s.counter >= s.target /\ s.countdown > 0 /\ s.step > 0)
  BY <1>4 DEF TickRecalculation
<1>5. s.counter < s.target <=> ~(s.counter >= s.target)
  BY DEF SweepState
<1> QED BY <1>1, <1>2, <1>3, <1>4, <1>5

(* A tick of the reload. *)
LEMMA TickReloadTyped ==
  ASSUME NEW s \in SweepState
  PROVE  TickReload(s) \in SweepState
<1>1. ASSUME NEW x \in SweepState PROVE ReloadDone(x) \in SweepState
  <2> DEFINE r == IF x.step > 0 /\ x.reload_period THEN Swept(x) ELSE x
             free == x.restart_countdown = 0
             instant == r.instant \/ (free /\ x.step = 0)
  <2>1. r \in SweepState
    BY SweptTyped
  <2>2. instant \in BOOLEAN
    BY <2>1 DEF SweepState
  <2>3. NextIncrement(r) \in 0 .. PeriodTop - 1
    BY <2>1, NextIncrementTyped DEF Periods
  <2>4. ReloadDone(x) = [r EXCEPT !.countdown = IF free /\ x.step > 0 THEN x.step ELSE r.countdown,
                                  !.instant = instant, !.increment = NextIncrement(r),
                                  !.pace_countdown = x.pace]
    BY DEF ReloadDone
  <2> HIDE DEF r, free, instant
  <2> QED BY <2>1, <2>2, <2>3, <2>4 DEF SweepState
<1> DEFINE restart == IF s.restart_countdown > 0 THEN s.restart_countdown - 1 ELSE 0
           reload == IF s.reload_countdown > 0 THEN s.reload_countdown - 1 ELSE 0
           r == [s EXCEPT !.restart_countdown = restart, !.reload_countdown = reload]
<1>2. restart \in 0 .. 5 /\ reload \in 0 .. 2
  BY DEF SweepState
<1>3. r \in SweepState
  <2> HIDE DEF restart, reload
  <2> QED BY <1>2 DEF SweepState
<1>4. TickReload(s) = IF s.reload_countdown = 1 THEN ReloadDone(r) ELSE r
  BY DEF TickReload
<1> HIDE DEF r
<1> QED BY <1>1, <1>3, <1>4

(* The end of a sweep. *)
LEMMA SweepDoneTyped ==
  ASSUME NEW s \in SweepState
  PROVE  SweepDone(s) \in SweepState
<1> DEFINE g == IF s.countdown = 0 THEN s
                ELSE [s EXCEPT !.increment = 0,
                               !.period = IF s.restart_countdown > 2 THEN s.register ELSE s.period]
           r == IF g.step > 0 THEN [Swept(g) EXCEPT !.period_reloaded = TRUE] ELSE g
<1>1. g \in SweepState
  BY PeriodSizes DEF SweepState, Periods
<1>2. r \in SweepState
  <2> HIDE DEF g
  <2>1. Swept(g) \in SweepState
    BY <1>1, SweptTyped
  <2> QED BY <1>1, <2>1 DEF SweepState
<1>3. SweepDone(s) = IF s.pace = 0 THEN g ELSE [r EXCEPT !.reload_period = TRUE, !.reload_countdown = 2]
  BY DEF SweepDone
<1> HIDE DEF g, r
<1>4. ASSUME NEW reload \in BOOLEAN, NEW countdown \in 0 .. 2
      PROVE  [r EXCEPT !.reload_period = reload, !.reload_countdown = countdown] \in SweepState
  BY <1>2 DEF SweepState
<1>5. 2 \in 0 .. 2
  OBVIOUS
<1> QED BY <1>1, <1>3, <1>4, <1>5

(* A tick of the sweep. *)
LEMMA TickSweepTyped ==
  ASSUME NEW s \in SweepState, NEW on
  PROVE  TickSweep(on, s) \in SweepState
<1> DEFINE c == [s EXCEPT !.pace_countdown = (s.pace_countdown + 7) % 8]
<1>1. (s.pace_countdown + 7) % 8 \in 0 .. 7
  BY DEF SweepState
<1>2. c \in SweepState
  BY <1>1 DEF SweepState
<1>3. TickSweep(on, s) = IF ~on THEN s ELSE IF c.pace_countdown = 0 THEN SweepDone(c) ELSE c
  BY DEF TickSweep
<1> HIDE DEF c
<1> QED BY <1>2, <1>3, SweepDoneTyped

(* A write of NR10, whatever it makes tick. *)
LEMMA WriteNr10Typed ==
  ASSUME NEW s \in SweepState, NEW on, NEW clock, NEW v \in 0 .. 255
  PROVE  WriteNr10(on, s, clock, v).s \in SweepState
<1> DEFINE down == (v \div 8) % 2 = 1
           w == [s EXCEPT !.pace = (v \div 16) % 8, !.down = down, !.step = v % 8]
           survives == on /\ (w.down \/ NextPeriod(w, w.checked, s.down) < PeriodTop)
           r == CASE TriggerWindow(w) -> [on |-> TRUE, s |-> StepRewritten(w)]
                  [] ~TriggerWindow(w) /\ RecalculationMayTick(w, s, clock) ->
                       IF w.countdown = 1 THEN Recalculated(TRUE, [w EXCEPT !.countdown = 0])
                       ELSE [on |-> TRUE, s |-> [w EXCEPT !.countdown = w.countdown - 1]]
                  [] OTHER -> [on |-> TRUE, s |-> w]
<1>1. w \in SweepState
  <2>1. (v \div 16) % 8 \in 0 .. 7 /\ v % 8 \in 0 .. 7
    OBVIOUS
  <2>2. down \in BOOLEAN
    OBVIOUS
  <2> HIDE DEF down
  <2> QED BY <2>1, <2>2 DEF SweepState
<1>2. WriteNr10(on, s, clock, v) =
        IF ~survives THEN [on |-> FALSE, s |-> w]
        ELSE [r EXCEPT !.s = IF r.s.pace_countdown = 0 THEN SweepDone(r.s) ELSE r.s]
  BY DEF WriteNr10
<1> HIDE DEF w
<1>3. r.s \in SweepState /\ (\E o : r = [on |-> o, s |-> r.s])
  <2>1. StepRewritten(w) \in SweepState
    <3>1. [w EXCEPT !.countdown = w.step] \in SweepState
      BY <1>1 DEF SweepState
    <3>2. ASSUME NEW countdown \in 0 .. 7, NEW counter \in 0 .. 4, NEW target \in 0 .. 4
          PROVE  [w EXCEPT !.countdown = countdown, !.counter = counter, !.target = target] \in SweepState
      BY <1>1 DEF SweepState
    <3>3. 0 \in 0 .. 7 /\ 0 \in 0 .. 4
      OBVIOUS
    <3> QED BY <3>1, <3>2, <3>3 DEF StepRewritten
  <2>2. CASE TriggerWindow(w)
    BY <2>1, <2>2
  <2>3. CASE ~TriggerWindow(w) /\ RecalculationMayTick(w, s, clock)
    <3>1. w.countdown > 0
      BY <1>1, <2>3 DEF RecalculationMayTick, SweepState
    <3>2. CASE w.countdown = 1
      <4>1. [w EXCEPT !.countdown = 0] \in SweepState
        BY <1>1 DEF SweepState
      <4>2. r = Recalculated(TRUE, [w EXCEPT !.countdown = 0])
        BY <2>3, <3>2
      <4> HIDE DEF r
      <4>3. r.s \in SweepState
        BY <4>1, <4>2, RecalculatedTyped
      <4>4. \E o : r = [on |-> o, s |-> r.s]
        BY <4>2 DEF Recalculated
      <4> QED BY <4>3, <4>4
    <3>3. CASE w.countdown # 1
      <4>1. w.countdown - 1 \in 0 .. 7
        BY <1>1, <3>1 DEF SweepState
      <4>2. [w EXCEPT !.countdown = w.countdown - 1] \in SweepState
        BY <1>1, <4>1 DEF SweepState
      <4>3. r = [on |-> TRUE, s |-> [w EXCEPT !.countdown = w.countdown - 1]]
        BY <2>3, <3>3
      <4> HIDE DEF r
      <4> QED BY <4>2, <4>3
    <3> QED BY <3>2, <3>3
  <2>4. CASE ~TriggerWindow(w) /\ ~RecalculationMayTick(w, s, clock)
    <3>1. r = [on |-> TRUE, s |-> w]
      BY <2>4
    <3> HIDE DEF r
    <3> QED BY <1>1, <3>1
  <2> QED BY <2>2, <2>3, <2>4
<1> HIDE DEF r, survives
<1>4. [r EXCEPT !.s = IF r.s.pace_countdown = 0 THEN SweepDone(r.s) ELSE r.s].s \in SweepState
  BY <1>3, SweepDoneTyped
<1> QED BY <1>1, <1>2, <1>4

(* A write of NR13 replaces the low part of the period. *)
LEMMA WriteNr13Typed ==
  ASSUME NEW s \in SweepState, NEW enable, NEW v \in 0 .. 255
  PROVE  WriteNr13(s, enable, v) \in SweepState
<1> DEFINE low == v % PeriodLow
           high == s.register \div PeriodLow
           size == PeriodTop \div PeriodLow
<1>1. PeriodLow \in Nat /\ PeriodLow > 0 /\ s.register \in Nat /\ s.register < PeriodTop
  BY SweepAssumption, PeriodSizes DEF SweepState
<1>2. low \in 0 .. PeriodLow - 1
  BY <1>1
<1>3. high \in Nat /\ PeriodLow * high <= s.register
  BY <1>1
<1>4. size \in Int /\ PeriodTop = PeriodLow * size
  BY SweepAssumption
<1> HIDE DEF low, high, size
<1>5. high < size
  <2>1. PeriodLow * high < PeriodLow * size
    BY <1>1, <1>3, <1>4
  <2> QED BY <1>1, <1>3, <1>4, <2>1
<1>6. PeriodLow * (high + 1) <= PeriodTop
  <2>1. high + 1 <= size
    BY <1>3, <1>4, <1>5
  <2> QED BY <1>1, <1>3, <1>4, <2>1
<1>7. PeriodLow * high + low \in 0 .. PeriodTop - 1
  <2>1. PeriodLow * (high + 1) = PeriodLow * high + PeriodLow /\ PeriodLow * high \in Nat
    BY <1>1, <1>3
  <2> QED BY <1>1, <1>2, <1>6, <2>1, PeriodSizes
<1>8. WriteNr13(s, enable, v) =
        [s EXCEPT !.register = IF ~enable \/ PeriodKept(s) THEN s.register ELSE PeriodLow * high + low,
                  !.reload_period = FALSE]
  BY DEF WriteNr13, high, low
<1> DEFINE register == IF ~enable \/ PeriodKept(s) THEN s.register ELSE PeriodLow * high + low
<1>9. register \in 0 .. PeriodTop - 1
  BY <1>7 DEF SweepState
<1>10. WriteNr13(s, enable, v) = [s EXCEPT !.register = register, !.reload_period = FALSE]
  BY <1>8
<1> HIDE DEF register
<1> QED BY <1>9, <1>10 DEF SweepState

(* A write of NR14, with its trigger. *)
LEMMA WriteNr14Typed ==
  ASSUME NEW s \in SweepState, NEW v \in 0 .. 255
  PROVE  WriteNr14(s, v) \in SweepState
<1>1. WithHigh(s, v) \in SweepState
  <2>1. PeriodLow * (v % 8) + (s.register % PeriodLow) \in Int
    BY SweepAssumption DEF SweepState
  <2>2. (PeriodLow * (v % 8) + (s.register % PeriodLow)) % PeriodTop \in 0 .. PeriodTop - 1
    BY <2>1, PeriodSizes DEF Periods
  <2> QED BY <2>2 DEF WithHigh, SweepState
<1>2. ASSUME NEW x \in SweepState PROVE Scheduled(x) \in SweepState
  <2> DEFINE target == 2 + (IF x.countdown < 2 THEN 1 ELSE 0)
                         + (IF x.counter = 2 /\ x.countdown = x.step THEN 1 ELSE 0)
             r == IF TriggerWindow(x) THEN x ELSE [x EXCEPT !.target = target, !.counter = 0]
  <2>1. target \in 0 .. 4
    OBVIOUS
  <2>2. r \in SweepState
    <3> HIDE DEF target
    <3>1. ASSUME NEW counter \in 0 .. 4
          PROVE  [x EXCEPT !.target = target, !.counter = counter] \in SweepState
      BY <2>1 DEF SweepState
    <3>2. 0 \in 0 .. 4
      OBVIOUS
    <3> QED BY <3>1, <3>2
  <2>3. NextIncrement(x) \in 0 .. PeriodTop - 1
    BY NextIncrementTyped DEF Periods
  <2>4. Scheduled(x) = [r EXCEPT !.increment = NextIncrement(x), !.countdown = x.step]
    BY DEF Scheduled
  <2> HIDE DEF r
  <2> QED BY <2>2, <2>3, <2>4 DEF SweepState
<1>3. ASSUME NEW x \in SweepState PROVE TriggerSweep(x) \in SweepState
  <2> DEFINE r == [x EXCEPT !.pace_countdown = x.pace, !.period = 0, !.increment = 0, !.checked = 0,
                            !.restart_countdown = IF x.counter = x.target THEN 5 ELSE x.restart_countdown]
  <2>1. r \in SweepState
    <3> DEFINE y == [x EXCEPT !.pace_countdown = x.pace, !.period = 0, !.increment = 0]
               restart == IF x.counter = x.target THEN 5 ELSE x.restart_countdown
    <3>1. 0 \in 0 .. PeriodTop - 1
      BY PeriodSizes DEF Periods
    <3>2. y \in SweepState
      BY <3>1 DEF SweepState
    <3>3. restart \in 0 .. 5
      BY DEF SweepState
    <3>4. r = [y EXCEPT !.checked = 0, !.restart_countdown = restart]
      OBVIOUS
    <3> HIDE DEF y, restart, r
    <3> QED BY <3>1, <3>2, <3>3, <3>4 DEF SweepState
  <2>2. TriggerSweep(x) = IF x.step > 0 THEN Scheduled(r) ELSE r
    BY DEF TriggerSweep
  <2> HIDE DEF r
  <2> QED BY <1>2, <2>1, <2>2
<1> DEFINE h == WithHigh(s, v)
           r == CASE v >= 128 -> TriggerSweep(h)
                  [] v < 128 /\ s.reload_countdown > 0 /\ s.period_reloaded ->
                       [h EXCEPT !.increment = NextIncrement(h)]
                  [] OTHER -> h
<1>4. NextIncrement(h) \in 0 .. PeriodTop - 1
  BY <1>1, NextIncrementTyped DEF Periods
<1>5. WriteNr14(s, v) = [r EXCEPT !.reload_period = FALSE]
  BY DEF WriteNr14
<1>6. r \in SweepState
  <2> HIDE DEF h
  <2>1. h \in SweepState
    BY <1>1 DEF h
  <2>2. [h EXCEPT !.increment = NextIncrement(h)] \in SweepState
    BY <1>4, <2>1 DEF SweepState
  <2>3. TriggerSweep(h) \in SweepState
    BY <1>3, <2>1
  <2>4. r = TriggerSweep(h) \/ r = [h EXCEPT !.increment = NextIncrement(h)] \/ r = h
    <3>1. CASE v >= 128
      BY <3>1
    <3>2. CASE ~(v >= 128) /\ v < 128 /\ s.reload_countdown > 0 /\ s.period_reloaded
      BY <3>2
    <3>3. CASE ~(v >= 128) /\ ~(v < 128 /\ s.reload_countdown > 0 /\ s.period_reloaded)
      BY <3>3
    <3> QED BY <3>1, <3>2, <3>3
  <2> HIDE DEF r
  <2> QED BY <2>1, <2>2, <2>3, <2>4
<1> HIDE DEF r
<1> QED BY <1>5, <1>6 DEF SweepState

(* Any write, as the sweep sees it. *)
LEMMA UpdatedSweepTyped ==
  ASSUME sweep \in SweepState, NEW w, w.v \in 0 .. 255
  PROVE  UpdatedSweep(w) \in SweepState
<1>1. SweepOff(sweep) \in SweepState
  <2>1. 0 \in 0 .. PeriodTop - 1
    BY PeriodSizes DEF Periods
  <2>2. ASSUME NEW pace \in 0 .. 7, NEW down \in BOOLEAN, NEW step \in 0 .. 7, NEW register \in 0 .. PeriodTop - 1
        PROVE  [sweep EXCEPT !.pace = pace, !.down = down, !.step = step, !.register = register] \in SweepState
    BY ZenonT(40) DEF SweepState
  <2>3. 0 \in 0 .. 7
    OBVIOUS
  <2> QED BY <2>1, <2>2, <2>3 DEF SweepOff
<1>2. UpdatedSweep(w) \in {SweepOff(sweep), WriteNr10(ch.on, sweep, seq.clock, w.v).s,
                           WriteNr13(sweep, seq.enable, w.v), WriteNr14(sweep, w.v), sweep}
  BY DEF UpdatedSweep
<1>3. /\ WriteNr10(ch.on, sweep, seq.clock, w.v).s \in SweepState
      /\ WriteNr13(sweep, seq.enable, w.v) \in SweepState /\ WriteNr14(sweep, w.v) \in SweepState
  BY WriteNr10Typed, WriteNr13Typed, WriteNr14Typed
<1> QED BY SMTT(30), <1>1, <1>2, <1>3

(* At reset. *)
LEMMA SweepStarts ==
  /\ NoSweep \in SweepState
  /\ [NoSweep EXCEPT !.register = PeriodTop - 1, !.pace_countdown = 5] \in SweepState
<1>1. 0 \in 0 .. PeriodTop - 1 /\ PeriodTop - 1 \in 0 .. PeriodTop - 1
  BY PeriodSizes DEF Periods
<1>2. NoSweep \in SweepState
  BY <1>1 DEF NoSweep, SweepState
<1> DEFINE r == [NoSweep EXCEPT !.register = PeriodTop - 1]
<1>3. r \in SweepState
  BY <1>1, <1>2 DEF SweepState
<1>4. [r EXCEPT !.pace_countdown = 5] \in SweepState
  <2> HIDE DEF r
  <2> QED BY <1>3 DEF SweepState
<1>5. [NoSweep EXCEPT !.register = PeriodTop - 1, !.pace_countdown = 5] = [r EXCEPT !.pace_countdown = 5]
  OBVIOUS
<1> QED BY <1>2, <1>4, <1>5

(***************************************************************************)
(* The delay of a trigger stays in its tables: a trigger that leaves it at *)
(* 4 was the last write, the next comes when it has been counted.          *)
(***************************************************************************)
(* How far a speed switch has come by the T-cycle: the block of the timers *)
(* outlasts the countdown into double speed by two of its ticks.           *)
SwitchInStep ==
  /\ key1.enter > 0 => key1.block = IF key1.double THEN key1.enter ELSE key1.enter + 2
  /\ key1.enter = 0 /\ key1.block > 0 => key1.double /\ key1.block <= 2
  /\ key1.block > 0 =>
       IF key1.double /\ key1.enter > 0 THEN key1.enter = 2 => t \in {1, 3}
       ELSE /\ key1.block = 4 => t = 1
            /\ key1.block \in {1, 3} => t \in {2, 3}
            /\ key1.block = 2 => t \in {0, 1}

(* A write waits for the APU in the third T-cycle at normal speed only.    *)
PendInv ==
  pending.reg # "none" => t = 2 /\ ~key1.double /\ wrote = pending.reg

(* Speed and blocks after a T-cycle, field by field. *)
LEMMA SwitchFields ==
  ASSUME SequencerTypeOK, NEW op, Tick(op)
  PROVE  /\ t \in 0 .. 3 /\ t' = (t + 1) % 4
         /\ key1.double \in BOOLEAN /\ key1.enter \in 0 .. 2 /\ key1.block \in 0 .. 4
         /\ op.reg = "KEY1" => /\ IF key1.double THEN t \in {0, 2} ELSE t = 0
                               /\ key1.enter = 0 /\ key1.block = 0
                               /\ key1'.double = key1.double /\ key1'.enter = 2
                               /\ key1'.block = IF key1.double THEN 2 ELSE 4
         /\ op.reg # "KEY1" /\ t \in {0, 2} => key1' = key1
         /\ op.reg # "KEY1" /\ t \in {1, 3} =>
              /\ key1'.double <=> (key1.double # (key1.enter = 1))
              /\ key1'.enter = IF key1.enter = 0 THEN 0 ELSE key1.enter - 1
              /\ key1'.block = IF key1.block = 0 THEN 0 ELSE key1.block - 1
<1>1. /\ t \in 0 .. 3 /\ t' = (t + 1) % 4
      /\ key1 \in [double : BOOLEAN, enter : 0 .. 2, block : 0 .. 4]
  BY DEF SequencerTypeOK, Tick
<1>2. key1' = SpeedAfter(op) /\ May(op)
  BY DEF Tick
<1>3. CASE op.reg = "KEY1"
  <2>1. /\ IF key1.double THEN t \in {0, 2} ELSE t = 0
        /\ key1.enter = 0 /\ key1.block = 0
    BY <1>2, <1>3 DEF May, CpuStops
  <2>2. t % 2 = 0
    BY <2>1
  <2>3. key1' = [key1 EXCEPT !.enter = 2, !.block = IF key1.double THEN 2 ELSE 4]
    BY <1>2, <1>3, <2>2 DEF SpeedAfter, Switched
  <2> QED BY <1>1, <1>3, <2>1, <2>3
<1>4. CASE op.reg # "KEY1" /\ t \in {0, 2}
  <2>1. t % 2 = 0
    BY <1>4
  <2> QED BY <1>1, <1>2, <1>4, <2>1 DEF SpeedAfter, Switched
<1>5. CASE op.reg # "KEY1" /\ t \in {1, 3}
  <2>1. t % 2 = 1
    BY <1>5
  <2>2. key1' = SwitchTicked(key1)
    BY <1>2, <1>5, <2>1 DEF SpeedAfter, Switched
  <2>3. /\ key1'.double <=> (key1.double # (key1.enter = 1))
        /\ key1'.enter = IF key1.enter = 0 THEN 0 ELSE key1.enter - 1
        /\ key1'.block = IF key1.block = 0 THEN 0 ELSE key1.block - 1
    BY <2>2 DEF SwitchTicked
  <2> QED BY <1>1, <1>5, <2>3
<1> QED BY <1>1, <1>3, <1>4, <1>5

(* A switch goes on in step with the T-cycles. *)
LEMMA SwitchStep ==
  ASSUME SequencerTypeOK, SwitchInStep, NEW op, Tick(op)
  PROVE  SwitchInStep'
<1>1. t = 0 \/ t = 1 \/ t = 2 \/ t = 3
  BY DEF SequencerTypeOK
<1>2. CASE op.reg = "KEY1"
  BY <1>1, <1>2, SwitchFields DEF SwitchInStep
<1>3. CASE op.reg # "KEY1" /\ t \in {0, 2}
  BY <1>1, <1>3, SwitchFields DEF SwitchInStep
<1>4. CASE op.reg # "KEY1" /\ t \in {1, 3}
  <2>1. CASE t = 1
    BY <2>1, <1>4, SwitchFields DEF SwitchInStep
  <2>2. CASE t = 3
    BY <2>2, <1>4, SwitchFields DEF SwitchInStep
  <2> QED BY <1>4, <2>1, <2>2
<1> QED BY <1>1, <1>2, <1>3, <1>4

(* A write waits at the third T-cycle only. *)
LEMMA PendStep ==
  ASSUME SequencerTypeOK, SwitchInStep, PendInv, NEW op, Tick(op)
  PROVE  PendInv'
<1>1. t = 0 \/ t = 1 \/ t = 2 \/ t = 3
  BY DEF SequencerTypeOK
<1>2. pending' = IF t % 2 = 1 /\ IsApu(op) THEN op ELSE IF t % 2 = 0 THEN NoOp ELSE pending
  BY DEF Tick
<1>3. CASE t % 2 = 1 /\ IsApu(op)
  <2>1. t = 1 /\ ~key1.double
    BY <1>1, <1>3 DEF IsApu, Tick, May, CpuWrites
  <2>2. key1.enter # 1
    BY <2>1 DEF SwitchInStep, SequencerTypeOK
  <2>3. ~key1'.double
    BY <1>3, <2>1, <2>2, SwitchFields DEF IsApu
  <2>4. t' = 2
    BY <2>1, SwitchFields
  <2>5. wrote' = op.reg
    BY <1>3, <2>1 DEF Tick, CpuWrites, IsApu
  <2> QED BY <1>2, <1>3, <2>3, <2>4, <2>5 DEF PendInv
<1>4. CASE t % 2 = 0
  BY <1>2, <1>4 DEF PendInv, NoOp
<1>5. CASE t % 2 = 1 /\ ~IsApu(op)
  <2>1. pending' = pending /\ t # 2
    BY <1>1, <1>2, <1>5
  <2> QED BY <2>1 DEF PendInv
<1> QED BY <1>1, <1>3, <1>4, <1>5

(* A delay of 4 was loaded by the last write, at a dot the delay does not  *)
(* count; it is counted before the CPU can write again.                    *)
TrigInv ==
  program.kind = "ch4" /\ ch.on /\ noise.trigger_delay = 4 =>
    /\ seq.clock \in {0, 2} /\ wrote = "NRx4" /\ pending.reg # "NRx4"
    /\ ~key1.double => t \in {0, 2, 3}

(* Only a trigger turns a channel on. *)
LEMMA OnlyTriggerTurnsOn ==
  ASSUME PoweredChannel(ch), NEW w, UpdatedChannel(w).on, ~ch.on
  PROVE  w.reg = "NRx4" /\ seq.enable /\ Triggers(w.v)
<1> SUFFICES ASSUME ~(w.reg = "NRx4" /\ seq.enable /\ Triggers(w.v)) PROVE FALSE
  OBVIOUS
<1> USE DEF PoweredChannel, Common
<1>1. CASE w.reg = "NRx1"
  BY <1>1 DEF UpdatedChannel, WriteLength
<1>2. CASE w.reg = "NR52" /\ w.v < 128 /\ seq.enable
  BY <1>2 DEF UpdatedChannel, SwitchedOff, Silent
<1>3. CASE w.reg = "NRx2" /\ seq.enable
  <2>1. UpdatedChannel(w) = WriteEnvelope(ch, program.kind # "ch4", w.v)
    BY <1>3 DEF UpdatedChannel
  <2>2. WriteEnvelope(ch, program.kind # "ch4", w.v).on => ch.on
    BY DEF WriteEnvelope, SetDac
  <2> QED BY <2>1, <2>2
<1>4. CASE w.reg = "NR30" /\ seq.enable
  BY <1>4 DEF UpdatedChannel, SetDac
<1>5. CASE w.reg = "NRx4" /\ seq.enable
  <2>1. UpdatedChannel(w) = WriteControl(ch, seq.div_apu, w.v) /\ ~Triggers(w.v)
    BY <1>5 DEF UpdatedChannel
  <2>2. WriteControl(ch, seq.div_apu, w.v).on => ch.on
    BY <2>1 DEF WriteControl, TickLength
  <2> QED BY <2>1, <2>2
<1>6. CASE w.reg = "NR10" /\ seq.enable
  <2>1. UpdatedChannel(w).on = WriteNr10(ch.on, sweep, seq.clock, w.v).on
    BY <1>6 DEF UpdatedChannel
  <2> QED BY <2>1, WriteNr10TurnsOff
<1>7. CASE /\ w.reg # "NRx1" /\ ~(w.reg = "NR52" /\ w.v < 128 /\ seq.enable) /\ ~(w.reg = "NRx2" /\ seq.enable)
           /\ ~(w.reg = "NR30" /\ seq.enable) /\ ~(w.reg = "NRx4" /\ seq.enable) /\ ~(w.reg = "NR10" /\ seq.enable)
  BY <1>7 DEF UpdatedChannel
<1> QED BY <1>1, <1>2, <1>3, <1>4, <1>5, <1>6, <1>7

(* The clocks turn no channel on. *)
LEMMA OddTickTurnsOff ==
  ASSUME PoweredChannel(ch), NEW e, NEW div_apu, OddTick(e, div_apu), ch'.on
  PROVE  ch.on
<1> DEFINE on == TickRecalculation(ch.on, sweep, seq.clock).on
           c == [ch EXCEPT !.on = on]
<1>1. on \in BOOLEAN /\ (on => ch.on)
  BY RecalculationTurnsOff DEF PoweredChannel, Common
<1> HIDE DEF on
<1>2. PoweredChannel(c) /\ c.on = on
  BY <1>1 DEF PoweredChannel, Powered, Common
<1>3. ch' = Edged(VolumeHandled(c), e, div_apu)
  BY DEF OddTick, on
<1> HIDE DEF c
<1>4. VolumeHandled(c) \in Common /\ VolumeHandled(c).on = on
  <2>1. VolumeHandled(c) \in Common
    BY <1>2, EnvelopePowered DEF VolumeHandled, PoweredChannel
  <2> QED BY <1>2, <2>1 DEF VolumeHandled, HandleVolumeUpdate, PoweredChannel, Common
<1>5. ASSUME NEW d \in Common
      PROVE  Edged(d, e, div_apu).on => d.on
  <2>1. /\ LengthEdge(d, div_apu).on => d.on
        /\ LengthEdge(d, div_apu).reloaded = d.reloaded
    BY <1>5 DEF LengthEdge, TickEnabledLength, TickLength, Common
  <2>2. ASSUME NEW x PROVE EnvelopeEdge(x, div_apu).on = x.on
    BY DEF EnvelopeEdge, VolumeSweepReloaded, TickVolumeSweep
  <2>3. ReloadVolumeSweep(d).on = d.on
    BY DEF ReloadVolumeSweep, Common
  <2> QED BY <2>1, <2>2, <2>3 DEF Edged
<1> QED BY <1>1, <1>3, <1>4, <1>5

(* A delay of 4 is counted before the next write can trigger again. *)
LEMMA TrigStep ==
  ASSUME PowerInv, SequencerTypeOK, noise \in NoiseState, SwitchInStep, PendInv, TrigInv,
         NEW op \in program.ops, ApuTick(op)
  PROVE  TrigInv'
<1> DEFINE w == Applied(op)
<1> SUFFICES ASSUME program'.kind = "ch4", ch'.on, noise'.trigger_delay = 4
             PROVE  /\ seq'.clock \in {0, 2} /\ wrote' = "NRx4" /\ pending'.reg # "NRx4"
                    /\ ~key1'.double => t' \in {0, 2, 3}
  BY DEF TrigInv
<1>1. /\ t = 0 \/ t = 1 \/ t = 2 \/ t = 3
      /\ program.kind = "ch4" /\ Tick(op) /\ May(op)
      /\ wrote' = IF CpuWrites THEN (IF op.reg = "KEY1" THEN "none" ELSE op.reg) ELSE wrote
      /\ pending' = IF t % 2 = 1 /\ IsApu(op) THEN op ELSE IF t % 2 = 0 THEN NoOp ELSE pending
  BY DEF SequencerTypeOK, ApuTick, Tick
<1>2. seq.clock \in 0 .. 3 /\ seq.enable \in BOOLEAN /\ PoweredChannel(ch) /\ (ch.on => seq.enable)
  BY DEF PowerInv, Sequencer
<1>3. CASE t % 2 = 0
  <2>1. /\ ch' = UpdatedChannel(w)
        /\ noise' = IF (seq.enable \/ (w.reg = "NR52" /\ w.v >= 128)) /\ ch'.on
                      THEN TickNoise(UpdatedNoise(w),
                                     IF w.reg = "NR52" /\ w.v >= 128 /\ ~seq.enable THEN 0 ELSE seq.clock)
                      ELSE UpdatedNoise(w)
        /\ seq' = Even(w, SpeedAfter(op).double)
    BY <1>1, <1>3 DEF ApuTick, EvenTick, Tick
  <2>2. seq.enable /\ ~(w.reg = "NR52" /\ w.v < 128)
    <3>1. ch.on \/ (w.reg = "NRx4" /\ seq.enable)
      BY <1>2, <2>1, OnlyTriggerTurnsOn
    <3>2. seq.enable
      BY <1>2, <3>1
    <3>3. w.reg = "NR52" /\ w.v < 128 => ~UpdatedChannel(w).on
      <4>1. w.v \in 0 .. 255
        BY ApuAssumption DEF PowerInv, Applied, NoOp
      <4> HIDE DEF w
      <4> QED BY <1>2, <3>2, <4>1, UpdatedChannelPowered
    <3> QED BY <2>1, <3>2, <3>3
  <2>3. noise' = TickNoise(UpdatedNoise(w), seq.clock)
    BY <2>1, <2>2
  <2>4. UpdatedNoise(w).trigger_delay = 4 /\ seq.clock \notin {0, 2}
    <3> DEFINE n == UpdatedNoise(w)
    <3>1. n \in NoiseState
      <4>1. w.v \in 0 .. 255
        BY ApuAssumption DEF PowerInv, Applied, NoOp
      <4> HIDE DEF w
      <4> QED BY <4>1, UpdatedNoiseTyped DEF PowerInv, PoweredChannel, Common
    <3>2. TickNoise(n, seq.clock).trigger_delay = 4
      BY <2>3
    <3> HIDE DEF n
    <3>3. n.trigger_delay \in 0 .. 4
      BY <3>1 DEF NoiseState
    <3>4. CASE n.trigger_delay > 0
      <4>1. TickNoise(n, seq.clock).trigger_delay = Delayed(n, seq.clock).trigger_delay
        BY <3>1, <3>4 DEF TickNoise, NoiseState, Delayed
      <4>2. seq.clock \in {0, 2} => Delayed(n, seq.clock).trigger_delay = n.trigger_delay - 1
        BY <3>1 DEF Delayed, NoiseState
      <4>3. seq.clock \notin {0, 2} => Delayed(n, seq.clock) = n
        BY DEF Delayed
      <4> QED BY <3>2, <3>3, <4>1, <4>2, <4>3 DEF n
    <3>5. CASE n.trigger_delay = 0
      <4> DEFINE counted == [n EXCEPT !.countdown = (n.countdown + 15) % 16]
                 next == IF Counts(n, seq.clock)
                           THEN IF counted.countdown = 0 THEN Elapsed(counted) ELSE counted
                           ELSE n
      <4>1. TickNoise(n, seq.clock) = [next EXCEPT !.shift = n.clock_shift]
        BY <3>5 DEF TickNoise
      <4>2. counted.trigger_delay = 0 /\ Elapsed(counted).trigger_delay = 0
        BY <3>1, <3>5 DEF NoiseState, Elapsed
      <4>3. next.trigger_delay = 0
        <5> HIDE DEF counted
        <5> QED BY <3>5, <4>2
      <4>4. TickNoise(n, seq.clock).trigger_delay = next.trigger_delay
        <5> HIDE DEF next
        <5> QED BY <3>2, <4>1
      <4> QED BY <3>2, <4>3, <4>4
    <3> QED BY <3>3, <3>4, <3>5 DEF n
  <2>5. w.reg = "NRx4"
    <3> SUFFICES ASSUME w.reg # "NRx4" PROVE FALSE
      OBVIOUS
    <3>1. ch.on
      BY <1>2, <2>1, OnlyTriggerTurnsOn
    <3>2. UpdatedNoise(w).trigger_delay = noise.trigger_delay
      <4> HIDE DEF w
      <4> QED BY DEF UpdatedNoise, NoiseOff, WriteNr43, NoiseState
    <3> QED BY <1>1, <2>4, <3>1, <3>2 DEF TrigInv
  <2>6. wrote' = "NRx4" /\ (key1.double \/ t = 2)
    <3>1. CASE IsApu(op)
      <4>1. op.reg = "NRx4" /\ CpuWrites
        BY <1>1, <1>3, <2>5, <3>1 DEF Applied, May, IsApu
      <4> QED BY <1>1, <1>3, <4>1 DEF CpuWrites
    <3>2. CASE ~IsApu(op)
      <4>1. pending.reg = "NRx4"
        BY <1>3, <2>5, <3>2 DEF Applied
      <4>2. t = 2 /\ ~key1.double /\ wrote = "NRx4"
        BY <4>1 DEF PendInv
      <4> QED BY <1>1, <4>2 DEF CpuWrites
    <3> QED BY <3>1, <3>2
  <2>7. seq'.clock = (seq.clock + 1) % 4
    <3>1. w.reg # "NR52"
      BY <2>5
    <3> HIDE DEF w
    <3> QED BY <2>1, <2>2, <3>1 DEF Even, PowerInv, Sequencer
  <2>8. seq'.clock \in {0, 2}
    BY <1>2, <2>4, <2>7
  <2>9. pending'.reg # "NRx4"
    BY <1>1, <1>3 DEF NoOp
  <2>10. ~key1'.double => t' \in {0, 2, 3}
    <3>1. key1'.double <=> key1.double
      BY <1>1, <1>3, SwitchFields
    <3> QED BY <1>1, <2>6, <3>1, SwitchFields
  <2> QED BY <2>6, <2>8, <2>9, <2>10
<1>4. CASE t % 2 = 1
  <2>1. noise' = noise /\ ch.on /\ seq'.clock = seq.clock
    <3>1. CASE seq.enable
      <4>1. OddTick(edge', seq'.div_apu) /\ seq' = Odd(SpeedAfter(op), DivAfter(op))
        BY <1>1, <1>4, <3>1 DEF ApuTick, Tick
      <4>2. seq'.clock = seq.clock
        BY <4>1 DEF Odd, PowerInv, Sequencer
      <4>3. ch.on
        BY <1>2, <4>1, OddTickTurnsOff
      <4> QED BY <4>1, <4>2, <4>3 DEF OddTick
    <3>2. CASE ~seq.enable
      <4>1. ch' = ch /\ noise' = noise /\ seq' = seq
        BY <1>1, <1>4, <3>2 DEF ApuTick, Tick
      <4> QED BY <4>1
    <3> QED BY <1>2, <3>1, <3>2
  <2>2. /\ seq.clock \in {0, 2} /\ wrote = "NRx4" /\ pending.reg # "NRx4"
        /\ ~key1.double => t \in {0, 2, 3}
    BY <1>1, <2>1 DEF TrigInv
  <2>3. ~CpuWrites
    BY <1>1, <1>4, <2>2 DEF CpuWrites
  <2>4. wrote' = "NRx4" /\ pending' = pending
    BY <1>1, <1>4, <2>2, <2>3 DEF May, IsApu
  <2>5. t' \in {0, 2}
    BY <1>1, <1>4, SwitchFields
  <2> QED BY <2>1, <2>2, <2>4, <2>5
<1> QED BY <1>1, <1>3, <1>4

(* The invariant the types rest on. *)
ClockInv == ApuTypeOK /\ PowerInv /\ SwitchInStep /\ PendInv /\ TrigInv

(* The invariant of the clocks and the channel, at reset. *)
LEMMA ClockInit == ApuInit => ClockInv
<1> SUFFICES ASSUME ApuInit PROVE ClockInv
  OBVIOUS
<1>1. program \in Programs /\ program.double \in BOOLEAN /\ program.dividers \subseteq 0 .. DivSize - 1
  BY ApuAssumption DEF ApuInit
<1>2. PowerInv
  BY PowerInit
<1>3. SequencerTypeOK
  <2>1. Half \in Nat /\ Period \in Nat
    BY Sizes
  <2>2. /\ t = 0 /\ div \in 0 .. DivSize - 1 /\ edge = "none"
        /\ key1 = [double |-> program.double, enter |-> 0, block |-> 0]
        /\ since = [step |-> Half, start |-> 0, fresh |-> TRUE]
    BY <1>1 DEF ApuInit, SequencerInit
  <2>3. since \in [step : 0 .. Half, start : 0 .. Period + Slack, fresh : BOOLEAN]
    BY <2>1, <2>2 DEF Slack
  <2>4. key1 \in [double : BOOLEAN, enter : 0 .. 2, block : 0 .. 4]
    BY <1>1, <2>2
  <2> QED BY <1>2, <2>2, <2>3, <2>4 DEF SequencerTypeOK, PowerInv, Sequencer
<1>4. noise \in NoiseState /\ sweep \in SweepState
  BY NoiseStarts, SweepStarts DEF ApuInit
<1>5. SwitchInStep /\ PendInv
  BY DEF ApuInit, SequencerInit, SwitchInStep, PendInv, NoOp
<1>6. TrigInv
  BY DEF ApuInit, NoNoise, TrigInv
<1> QED BY <1>1, <1>2, <1>3, <1>4, <1>5, <1>6 DEF ClockInv, ApuTypeOK, PowerInv, PoweredChannel

(* The noise counters and the sweep, in every step. *)
LEMMA ApuTyped ==
  ASSUME ClockInv, NEW op \in program.ops, ApuTick(op)
  PROVE  noise' \in NoiseState /\ sweep' \in SweepState
<1> DEFINE w == Applied(op)
<1> USE DEF ClockInv, ApuTypeOK
<1>1. w.v \in 0 .. 255
  BY ApuAssumption DEF PowerInv, Applied, NoOp
<1>2. seq \in Sequencer /\ ch.on \in BOOLEAN /\ seq.clock \in 0 .. 3
  BY DEF PowerInv, PoweredChannel, Common, Sequencer
<1>3. CASE t % 2 = 0
  <2> DEFINE clock == IF w.reg = "NR52" /\ w.v >= 128 /\ ~seq.enable THEN 0 ELSE seq.clock
  <2>1. /\ noise' \in {TickNoise(UpdatedNoise(w), clock), UpdatedNoise(w)}
        /\ sweep' = UpdatedSweep(w)
    BY <1>3 DEF ApuTick, EvenTick
  <2>2. clock \in 0 .. 3
    BY <1>2
  <2> HIDE DEF clock, w
  <2>3. UpdatedNoise(w) \in NoiseState
    BY <1>1, <1>2, UpdatedNoiseTyped
  <2>4. TickNoise(UpdatedNoise(w), clock) \in NoiseState
    BY <2>2, <2>3, TickNoiseTyped
  <2>5. UpdatedSweep(w) \in SweepState
    BY <1>1, UpdatedSweepTyped
  <2> QED BY <2>1, <2>3, <2>4, <2>5
<1>4. CASE t % 2 = 1 /\ seq.enable
  <2> DEFINE s == TickReload(TickRecalculation(ch.on, sweep, seq.clock).s)
  <2>1. OddTick(edge', seq'.div_apu)
    BY <1>4 DEF ApuTick
  <2>2. s \in SweepState
    BY TickRecalculationTyped, TickReloadTyped
  <2>3. noise' = noise
    BY <2>1 DEF OddTick
  <2>4. sweep' = s \/ \E on : sweep' = TickSweep(on, s)
    BY <2>1 DEF OddTick
  <2> HIDE DEF s
  <2> QED BY <2>2, <2>3, <2>4, TickSweepTyped
<1>5. CASE t % 2 = 1 /\ ~seq.enable
  BY <1>5 DEF ApuTick
<1>6. t % 2 = 0 \/ t % 2 = 1
  BY DEF PowerInv
<1> QED BY <1>3, <1>4, <1>5, <1>6

(* It is kept by every step. *)
LEMMA ClockStep == ClockInv /\ [ApuNext]_apuVars => ClockInv'
<1> SUFFICES ASSUME ClockInv, [ApuNext]_apuVars PROVE ClockInv'
  OBVIOUS
<1>1. PowerInv'
  BY PowerStep DEF ClockInv
<1>2. CASE UNCHANGED apuVars
  <2>1. ApuTypeOK'
    BY <1>2 DEF apuVars, seqVars, ClockInv, ApuTypeOK, SequencerTypeOK
  <2>2. SwitchInStep' /\ PendInv' /\ TrigInv'
    BY <1>2 DEF apuVars, seqVars, ClockInv, SwitchInStep, PendInv, TrigInv
  <2> QED BY <1>1, <2>1, <2>2 DEF ClockInv
<1>3. ASSUME NEW op \in program.ops, ApuTick(op) PROVE ClockInv'
  <2>1. Tick(op)
    BY <1>3 DEF ApuTick
  <2>2. ApuTypeOK'
    <3>1. SequencerTypeOK'
      BY <2>1, SequencerTyped DEF ClockInv, ApuTypeOK
    <3>2. noise' \in NoiseState /\ sweep' \in SweepState
      BY <1>3, ApuTyped
    <3> QED BY <1>1, <3>1, <3>2 DEF ApuTypeOK, PowerInv, PoweredChannel
  <2>3. SwitchInStep' /\ PendInv'
    BY <2>1, SwitchStep, PendStep DEF ClockInv, ApuTypeOK
  <2>4. TrigInv'
    BY <1>3, TrigStep DEF ClockInv, ApuTypeOK
  <2> QED BY <1>1, <2>2, <2>3, <2>4 DEF ClockInv
<1> QED BY <1>2, <1>3 DEF ApuNext

(* The state of the clocks and of the channel stays in its types. *)
THEOREM ApuTypeCorrect == ApuSpec => []ApuTypeOK
<1>1. ClockInv => ApuTypeOK
  BY DEF ClockInv
<1> QED BY <1>1, ClockInit, ClockStep, PTL DEF ApuSpec

(* The delay of a channel that is triggered again indexes its table. *)
THEOREM RetriggerAlwaysInTable == ApuSpec => RetriggerInTable
<1> DEFINE Safe == \A op \in program.ops :
                     /\ ApuTick(op) /\ seq.enable
                     /\ Applied(op).reg = "NRx4" /\ Triggers(Applied(op).v) /\ program.kind = "ch4"
                     => ~ch.on \/ noise.trigger_delay < 4
<1>1. ClockInv => Safe
  <2> SUFFICES ASSUME ClockInv, NEW op \in program.ops, ApuTick(op),
                      Applied(op).reg = "NRx4", program.kind = "ch4", ch.on
               PROVE  noise.trigger_delay < 4
    OBVIOUS
  <2>1. noise.trigger_delay \in 0 .. 4
    BY DEF ClockInv, ApuTypeOK, NoiseState
  <2>2. SUFFICES ASSUME noise.trigger_delay = 4 PROVE FALSE
    BY <2>1
  <2>3. wrote = "NRx4" /\ pending.reg # "NRx4"
    BY <2>2 DEF ClockInv, TrigInv
  <2>4. op.reg = "NRx4"
    BY <2>3 DEF Applied, NoOp
  <2>5. May(op)
    BY DEF ApuTick, Tick
  <2> QED BY <2>3, <2>4, <2>5 DEF May
<1>2. ClockInv /\ [ApuNext]_apuVars => [Safe]_apuVars
  BY <1>1
<1> HIDE DEF Safe
<1>3. ApuSpec => [][Safe]_apuVars
  BY <1>2, ClockInit, ClockStep, PTL DEF ApuSpec
<1> QED BY <1>3 DEF RetriggerInTable, Safe

(***************************************************************************)
(* The sequencer keeps its time.                                           *)
(***************************************************************************)
(* A quotient of at most 3. *)
LEMMA Quotient ==
  ASSUME NEW b \in Nat \ {0}, NEW d \in Nat, NEW q \in 0 .. 3, q * b <= d, d < q * b + b
  PROVE  d \div b = q
<1>1. d \div b \in Int /\ b * (d \div b) <= d /\ d < b * (d \div b) + b
  OBVIOUS
<1> DEFINE x == d \div b
<1> HIDE DEF x
<1>2. x \in Int /\ b * x <= d /\ d < b * x + b
  BY <1>1 DEF x
<1>3. b * x < b * (q + 1) /\ b * q < b * (x + 1)
  BY <1>2
<1>4. x < q + 1 /\ q < x + 1
  BY <1>2, <1>3
<1> QED BY <1>2, <1>4 DEF x

(* When the APU finds its bit set. *)
BitIn(d, selector) ==
  IF selector = 1 THEN d >= 2 * Bit ELSE (Bit <= d /\ d < 2 * Bit) \/ 3 * Bit <= d

(* The bit is set in those intervals. *)
LEMMA BitWhere ==
  ASSUME NEW d \in 0 .. DivSize - 1, NEW selector \in 0 .. 1
  PROVE  DivBitOf(d, selector) <=> BitIn(d, selector)
<1>1. Bit \in Nat \ {0} /\ d \in Nat /\ d < 4 * Bit /\ 2 * Bit \in Nat \ {0} /\ 2 ^ (DivBit + 1) = 2 * Bit
  BY Sizes
<1>2. CASE selector = 1
  <2>1. DivBitOf(d, selector) <=> (d \div (2 * Bit)) % 2 = 1
    BY <1>1, <1>2 DEF DivBitOf
  <2>2. CASE d >= 2 * Bit
    <3>1. d \div (2 * Bit) = 1
      <4> DEFINE b == 2 * Bit
      <4>1. 1 * b <= d /\ d < 1 * b + b /\ b \in Nat \ {0}
        BY <1>1, <2>2
      <4> HIDE DEF b
      <4>2. d \div b = 1
        BY <1>1, <4>1, Quotient
      <4> QED BY <4>2 DEF b
    <3> QED BY <1>2, <2>1, <2>2, <3>1 DEF BitIn
  <2>3. CASE d < 2 * Bit
    <3>1. d \div (2 * Bit) = 0
      <4> DEFINE b == 2 * Bit
      <4>1. 0 * b <= d /\ d < 0 * b + b /\ b \in Nat \ {0}
        BY <1>1, <2>3
      <4> HIDE DEF b
      <4>2. d \div b = 0
        BY <1>1, <4>1, Quotient
      <4> QED BY <4>2 DEF b
    <3> QED BY <1>1, <1>2, <2>1, <2>3, <3>1 DEF BitIn
  <2> QED BY <1>1, <2>2, <2>3
<1>3. CASE selector = 0
  <2>1. DivBitOf(d, selector) <=> (d \div Bit) % 2 = 1
    <3>1. DivBit + 0 = DivBit
      BY SequencerAssumption
    <3> QED BY <1>3, <3>1 DEF DivBitOf, Bit
  <2>2. ASSUME NEW q \in 0 .. 3, q * Bit <= d, d < q * Bit + Bit
        PROVE  DivBitOf(d, selector) <=> q \in {1, 3}
    <3>1. d \div Bit = q
      BY <1>1, <2>2, Quotient
    <3> QED BY <2>1, <3>1
  <2>3. CASE d < Bit
    BY <1>1, <1>3, <2>2, <2>3 DEF BitIn
  <2>4. CASE Bit <= d /\ d < 2 * Bit
    BY <1>1, <1>3, <2>2, <2>4 DEF BitIn
  <2>5. CASE 2 * Bit <= d /\ d < 3 * Bit
    BY <1>1, <1>3, <2>2, <2>5 DEF BitIn
  <2>6. CASE 3 * Bit <= d
    BY <1>1, <1>3, <2>2, <2>6 DEF BitIn
  <2> QED BY <1>1, <2>3, <2>4, <2>5, <2>6
<1> QED BY <1>2, <1>3

(* T-cycles of the present half or whole of the bit that have passed, and  *)
(* those of a block.                                                       *)
Position ==
  IF key1.double THEN 2 * div + (IF t \in {1, 3} THEN 1 ELSE 0)
  ELSE 4 * (IF div < 2 * Bit THEN div ELSE div - 2 * Bit) + t

Waited ==
  IF key1.double /\ key1.enter > 0
    THEN IF key1.enter = 2 THEN 1 ELSE IF t \in {1, 3} THEN 3 ELSE 2
    ELSE CASE key1.block = 4 -> 1
           [] key1.block = 3 -> t
           [] key1.block \in {1, 2} -> 4 + t
           [] OTHER -> 0

(* The APU watches the bit of the present speed, but in a block. *)
SelectorFollows == key1.block = 0 => seq.selector = IF key1.double THEN 1 ELSE 0

(* It has seen its bit, but for a reset of DIV in this T-cycle and for a   *)
(* start with the bit low (fresh).                                         *)
BitSeen ==
  /\ BitIn(div, seq.selector) => seq.prev
  /\ seq.prev /\ ~BitIn(div, seq.selector) => since.fresh \/ (t \in {1, 3} /\ div = 0)
  /\ since.fresh => seq.prev /\ since.step = Half

(* A half of a period less a few T-cycles lies between a step and the rise *)
(* of the bit, or has passed when it is high.                              *)
HalfPassed ==
  IF seq.prev THEN since.step + 4 >= Half + (IF t = 0 THEN 0 ELSE 1)
  ELSE key1.block = 0 => since.step + (IF key1.double THEN 2 ELSE 4) >= Position

(* The divider is at least as far as the time since the last step or its   *)
(* restart, so the next step cannot be late.                               *)
StartPassed ==
  since.start <= IF key1.block = 0 THEN Position ELSE Period - 2 + Waited

SeqInv == seq.enable => SelectorFollows /\ BitSeen /\ HalfPassed /\ StartPassed

(* An even T-cycle: DIV may be reset, the APU turned on or off. *)
LEMMA EvenFields ==
  ASSUME SequencerTypeOK, NEW op, Tick(op), t \in {0, 2}, seq'.enable
  PROVE  /\ edge' = "none"
         /\ div' = IF op.reg = "DIV" THEN 0 ELSE div
         /\ \/ /\ ~seq.enable /\ seq'.prev /\ seq'.selector = IF key1'.double THEN 1 ELSE 0
               /\ since' = [step |-> Half, start |-> 0, fresh |-> TRUE]
            \/ /\ seq.enable /\ seq'.prev = seq.prev /\ seq'.selector = seq.selector
               /\ since' = [step |-> Later(since.step, Half),
                            start |-> IF op.reg = "DIV" THEN 0 ELSE Later(since.start, Period + Slack),
                            fresh |-> since.fresh]
<1> DEFINE w == Applied(op)
           on == w.reg = "NR52" /\ w.v >= 128 /\ ~seq.enable
<1>1. t % 2 = 0 /\ t # 3 /\ t # 1 /\ seq \in Sequencer /\ since.fresh \in BOOLEAN
  BY DEF SequencerTypeOK, Sequencer
<1>2. /\ seq' = Even(w, SpeedAfter(op).double) /\ key1' = SpeedAfter(op)
      /\ edge' = EdgeAfter(op) /\ since' = SinceAfter(op, w) /\ div' = DivAfter(op)
  BY <1>1 DEF Tick
<1>3. edge' = "none" /\ EdgeAfter(op) = "none"
  BY <1>1, <1>2 DEF EdgeAfter
<1>4. (Restarts(op) <=> op.reg = "DIV") /\ div' = IF op.reg = "DIV" THEN 0 ELSE div
  BY <1>1, <1>2 DEF DivAfter, Restarts
<1>5. since' = [step |-> IF on THEN Half ELSE Later(since.step, Half),
                start |-> IF on \/ op.reg = "DIV" \/ ~seq.enable THEN 0 ELSE Later(since.start, Period + Slack),
                fresh |-> on \/ since.fresh]
  BY <1>1, <1>2, <1>3, <1>4, Zenon DEF SinceAfter
<1>6. seq'.enable = IF w.reg = "NR52" THEN w.v >= 128 ELSE seq.enable
  <2> HIDE DEF w
  <2> QED BY <1>1, <1>2, EvenEnable
<1>7. CASE ~seq.enable
  <2>1. on
    BY <1>6, <1>7
  <2>2. since' = [step |-> Half, start |-> 0, fresh |-> TRUE]
    <3> HIDE DEF on
    <3> QED BY <1>5, <2>1
  <2>3. seq'.prev /\ seq'.selector = IF key1'.double THEN 1 ELSE 0
    <3>1. UpdateNr52(seq, w.v, key1'.double) = TurnedOn(key1'.double) /\ w.reg = "NR52"
      BY <1>7, <2>1 DEF UpdateNr52
    <3> HIDE DEF w
    <3> QED BY <1>2, <3>1 DEF Even, TurnedOn
  <2> QED BY <1>3, <1>4, <1>7, <2>2, <2>3
<1>8. CASE seq.enable
  <2>1. ~on /\ (w.reg = "NR52" => (w.v >= 128) = TRUE)
    BY <1>6, <1>8
  <2>2. seq'.prev = seq.prev /\ seq'.selector = seq.selector
    <3>1. w.reg = "NR52" => UpdateNr52(seq, w.v, key1'.double) = seq
      BY <1>1, <1>8, <2>1 DEF UpdateNr52, Sequencer
    <3> HIDE DEF w, on
    <3> QED BY <1>1, <1>2, <3>1 DEF Even, Sequencer
  <2>3. since' = [step |-> Later(since.step, Half),
                  start |-> IF op.reg = "DIV" THEN 0 ELSE Later(since.start, Period + Slack),
                  fresh |-> since.fresh]
    <3> HIDE DEF on
    <3> QED BY <1>1, <1>5, <1>8, <2>1
  <2> QED BY <1>3, <1>4, <1>8, <2>2, <2>3
<1> QED BY <1>1, <1>7, <1>8 DEF Sequencer

(* An odd T-cycle: the divider ticks, and the APU sees its bit. *)
LEMMA OddFields ==
  ASSUME SequencerTypeOK, NEW op, Tick(op), t \in {1, 3}, seq.enable
  PROVE  /\ seq'.enable
         /\ div' \in 0 .. DivSize - 1 /\ seq'.selector \in 0 .. 1
         /\ div' = LET d == IF op.reg = "DIV" \/ key1.block = 1 THEN 0 ELSE div
                   IN IF (t = 3 \/ key1'.double) /\ key1'.block = 0
                        THEN (IF d = DivSize - 1 THEN 0 ELSE d + 1) ELSE d
         /\ seq'.selector = IF key1'.block = 0 THEN (IF key1'.double THEN 1 ELSE 0) ELSE seq.selector
         /\ seq'.prev <=> BitIn(div', seq'.selector)
         /\ edge' = "falling" <=> seq.prev /\ ~seq'.prev
         /\ ~since'.fresh
         /\ since'.step = IF edge' = "falling" THEN (IF since.fresh THEN Half ELSE 0)
                          ELSE Later(since.step, Half)
         /\ since'.start = IF edge' = "falling" \/ op.reg = "DIV" \/ key1.block = 1 THEN 0
                           ELSE Later(since.start, Period + Slack)
<1>1. t % 2 = 1 /\ seq \in Sequencer /\ since.fresh \in BOOLEAN /\ DivSize \in Nat /\ DivSize > 1
      /\ div \in 0 .. DivSize - 1
  BY Sizes DEF SequencerTypeOK, Sequencer
<1>2. /\ seq' = Odd(SpeedAfter(op), DivAfter(op)) /\ key1' = SpeedAfter(op)
      /\ edge' = EdgeAfter(op) /\ since' = SinceAfter(op, Applied(op)) /\ div' = DivAfter(op)
      /\ May(op)
  BY <1>1 DEF Tick
<1>3. op.reg # "KEY1"
  BY <1>1, <1>2 DEF May, CpuStops
<1>4. Restarts(op) <=> op.reg = "DIV" \/ key1.block = 1
  BY <1>1, <1>3 DEF Restarts, Switched
<1>5. ASSUME NEW d \in 0 .. DivSize - 1
      PROVE  (d + 1) % DivSize = IF d = DivSize - 1 THEN 0 ELSE d + 1
  <2>1. CASE d = DivSize - 1
    BY <1>1, <2>1
  <2>2. CASE d # DivSize - 1
    BY <1>1, <2>2
  <2> QED BY <2>1, <2>2
<1>6. div' = LET d == IF op.reg = "DIV" \/ key1.block = 1 THEN 0 ELSE div
             IN IF (t = 3 \/ key1'.double) /\ key1'.block = 0
                  THEN (IF d = DivSize - 1 THEN 0 ELSE d + 1) ELSE d
  <2> DEFINE d == IF op.reg = "DIV" \/ key1.block = 1 THEN 0 ELSE div
  <2>1. d \in 0 .. DivSize - 1
    BY <1>1
  <2>2. div' = IF (t = 3 \/ (t = 1 /\ key1'.double)) /\ key1'.block = 0 THEN (d + 1) % DivSize ELSE d
    BY <1>2, <1>4 DEF DivAfter
  <2> HIDE DEF d
  <2>3. div' = IF (t = 3 \/ key1'.double) /\ key1'.block = 0
                 THEN (IF d = DivSize - 1 THEN 0 ELSE d + 1) ELSE d
    BY <1>5, <2>1, <2>2
  <2> QED BY <2>3 DEF d
<1>7. div' \in 0 .. DivSize - 1
  BY SequencerTyped DEF SequencerTypeOK
<1>8. seq'.selector = Selector(key1') /\ seq'.prev = DivBitOf(div', seq'.selector) /\ seq'.enable
  BY <1>1, <1>2 DEF Odd, Sequencer
<1>9. seq'.selector \in 0 .. 1
  BY <1>1, <1>8 DEF Selector, Sequencer
<1>10. seq'.prev <=> BitIn(div', seq'.selector)
  BY <1>7, <1>8, <1>9, BitWhere
<1>11. edge' = EdgeOf(seq'.prev)
  BY <1>1, <1>2, <1>8 DEF EdgeAfter
<1>12. edge' = "falling" <=> seq.prev /\ ~seq'.prev
  BY <1>11 DEF EdgeOf
<1>13. since' = [step |-> IF edge' = "falling" /\ since.fresh THEN Half
                          ELSE IF edge' = "falling" THEN 0 ELSE Later(since.step, Half),
                 start |-> IF edge' = "falling" \/ op.reg = "DIV" \/ key1.block = 1 THEN 0
                           ELSE Later(since.start, Period + Slack),
                 fresh |-> FALSE]
  <2> DEFINE on == Applied(op).reg = "NR52" /\ Applied(op).v >= 128 /\ ~seq.enable
             steps == edge' = "falling"
             fresh == on \/ (since.fresh /\ t % 2 = 0)
  <2>1. since' = [step |-> IF on \/ (steps /\ since.fresh) THEN Half
                           ELSE IF steps THEN 0 ELSE Later(since.step, Half),
                  start |-> IF on \/ steps \/ Restarts(op) \/ ~seq.enable THEN 0
                            ELSE Later(since.start, Period + Slack),
                  fresh |-> fresh]
    BY <1>2, Zenon DEF SinceAfter
  <2>2. ~on /\ fresh = FALSE
    BY <1>1
  <2> HIDE DEF on, steps, fresh
  <2>3. since' = [step |-> IF steps /\ since.fresh THEN Half
                           ELSE IF steps THEN 0 ELSE Later(since.step, Half),
                  start |-> IF steps \/ op.reg = "DIV" \/ key1.block = 1 THEN 0
                            ELSE Later(since.start, Period + Slack),
                  fresh |-> FALSE]
    BY <1>4, <2>1, <2>2
  <2> QED BY <2>3 DEF steps
<1>14. seq'.selector = IF key1'.block = 0 THEN (IF key1'.double THEN 1 ELSE 0) ELSE seq.selector
  BY <1>8 DEF Selector
<1> HIDE DEF Half
<1> QED BY <1>6, <1>7, <1>8, <1>9, <1>10, <1>12, <1>13, <1>14

(* A history that counts T-cycles. *)
LEMMA LaterIs ==
  ASSUME NEW cap \in Nat, NEW n \in 0 .. cap
  PROVE  /\ Later(n, cap) \in 0 .. cap /\ Later(n, cap) <= n + 1
         /\ Later(n, cap) = cap \/ Later(n, cap) = n + 1
BY DEF Later

(* The types that what follows needs. *)
LEMMA SinceTyped ==
  ASSUME SequencerTypeOK
  PROVE  /\ Bit \in Nat /\ Bit >= 2 /\ Half = 4 * Bit /\ Period = 8 * Bit /\ DivSize = 4 * Bit /\ Slack = 12
         /\ Half \in Nat /\ Period + Slack \in Nat
         /\ t \in 0 .. 3 /\ div \in 0 .. 4 * Bit - 1
         /\ since.step \in 0 .. Half /\ since.start \in 0 .. Period + Slack /\ since.fresh \in BOOLEAN
         /\ seq.selector \in 0 .. 1 /\ seq.prev \in BOOLEAN /\ seq.enable \in BOOLEAN
BY Sizes DEF SequencerTypeOK, Slack

(* An even T-cycle leaves the bit and lets time pass. *)
LEMMA EvenKeepsTime ==
  ASSUME SequencerTypeOK, SwitchInStep, SeqInv, NEW op, Tick(op), t \in {0, 2}, seq'.enable
  PROVE  (SelectorFollows /\ BitSeen /\ HalfPassed /\ StartPassed)'
<1>1. SwitchInStep' /\ SequencerTypeOK'
  BY SwitchStep, SequencerTyped
<1>2. /\ t' \in {1, 3} /\ t' = t + 1
      /\ op.reg = "KEY1" => /\ key1.enter = 0 /\ key1.block = 0 /\ (t = 2 => key1.double)
                            /\ key1'.double = key1.double /\ key1'.enter = 2
                            /\ key1'.block = IF key1.double THEN 2 ELSE 4
      /\ op.reg # "KEY1" => key1' = key1
  BY SwitchFields
<1>3. CASE ~seq.enable
  <2>1. /\ seq'.prev /\ seq'.selector = IF key1'.double THEN 1 ELSE 0
        /\ since' = [step |-> Half, start |-> 0, fresh |-> TRUE]
    BY <1>3, EvenFields
  <2>2. since'.step = Half /\ since'.start = 0 /\ since'.fresh
    BY <2>1
  <2>3. Position' >= 0 /\ Waited' >= 0 /\ Position' \in Int /\ Waited' \in Int
    BY <1>1, <1>2, SinceTyped DEF Position, Waited, SequencerTypeOK
  <2>4. SelectorFollows' /\ BitSeen'
    BY <2>1, <2>2 DEF SelectorFollows, BitSeen
  <2>5. HalfPassed'
    BY <1>2, <2>1, <2>2, SinceTyped DEF HalfPassed
  <2>6. StartPassed'
    BY <2>2, <2>3, SinceTyped DEF StartPassed
  <2> QED BY <2>4, <2>5, <2>6
<1>4. CASE seq.enable
  <2>1. SelectorFollows /\ BitSeen /\ HalfPassed /\ StartPassed
    BY <1>4 DEF SeqInv
  <2>2. /\ seq'.prev = seq.prev /\ seq'.selector = seq.selector
        /\ div' = IF op.reg = "DIV" THEN 0 ELSE div
        /\ since'.step = Later(since.step, Half)
        /\ since'.start = IF op.reg = "DIV" THEN 0 ELSE Later(since.start, Period + Slack)
        /\ since'.fresh = since.fresh
    BY <1>4, EvenFields
  <2>3. /\ since'.step \in 0 .. Half /\ (since'.step = Half \/ since'.step = since.step + 1)
        /\ since'.start \in 0 .. Period + Slack /\ since'.start <= since.start + 1
        /\ op.reg = "DIV" => since'.start = 0
    <3>1. /\ Later(since.step, Half) \in 0 .. Half
          /\ Later(since.step, Half) = Half \/ Later(since.step, Half) = since.step + 1
      BY LaterIs, SinceTyped
    <3>2. /\ Later(since.start, Period + Slack) \in 0 .. Period + Slack
          /\ Later(since.start, Period + Slack) <= since.start + 1
      BY LaterIs, SinceTyped
    <3>3. 0 \in 0 .. Period + Slack /\ 0 <= since.start + 1
      BY SinceTyped
    <3> QED BY <2>2, <3>1, <3>2, <3>3
  <2>4. SelectorFollows'
    BY <1>2, <2>1, <2>2 DEF SelectorFollows
  <2>5. ~BitIn(0, seq.selector)
    BY SinceTyped DEF BitIn
  <2>6. BitSeen'
    BY <1>2, <2>1, <2>2, <2>3, <2>5, SinceTyped DEF BitSeen
  <2>7. CASE op.reg = "DIV"
    <3>1. key1' = key1 /\ div' = 0 /\ since'.start = 0
      BY <1>2, <2>2, <2>3, <2>7
    <3>2. Position' = IF key1.double THEN 1 ELSE t + 1
      BY <1>2, <3>1, SinceTyped DEF Position
    <3>3. HalfPassed'
      <4>1. CASE seq.prev
        BY <1>2, <2>1, <2>2, <2>3, <4>1, SinceTyped DEF HalfPassed
      <4>2. CASE ~seq.prev
        BY <1>2, <2>1, <2>2, <2>3, <3>1, <3>2, <4>2, SinceTyped DEF HalfPassed
      <4> QED BY <4>1, <4>2
    <3>4. StartPassed'
      <4>1. Waited' >= 0 /\ Position' >= 0 /\ Waited' \in Int /\ Position' \in Int
        BY <1>1, <1>2, SinceTyped DEF Position, Waited, SequencerTypeOK
      <4> QED BY <3>1, <4>1, SinceTyped DEF StartPassed
    <3> QED BY <2>4, <2>6, <3>3, <3>4
  <2>8. CASE op.reg = "KEY1"
    <3>1. key1'.block > 0 /\ key1.block = 0
      BY <1>2, <2>8
    <3>2. HalfPassed'
      BY <1>2, <2>1, <2>2, <2>3, <3>1, SinceTyped DEF HalfPassed
    <3>3. StartPassed'
      <4>1. since.start <= Position
        BY <2>1, <3>1 DEF StartPassed
      <4>2. Position <= Period - (IF key1.double THEN 2 ELSE 4)
        BY <1>2, <2>8, SinceTyped DEF Position
      <4>3. Waited' = 1
        BY <1>2, <2>8 DEF Waited
      <4>4. Position \in Int
        BY SinceTyped DEF Position
      <4> QED BY <2>3, <3>1, <4>1, <4>2, <4>3, <4>4, SinceTyped DEF StartPassed
    <3> QED BY <2>4, <2>6, <3>2, <3>3
  <2>9. CASE op.reg \notin {"DIV", "KEY1"}
    <3>1. key1' = key1 /\ div' = div
      BY <1>2, <2>2, <2>9
    <3>2. Position' = Position + 1 /\ Position \in Int
      BY <1>2, <3>1, SinceTyped DEF Position
    <3>3. HalfPassed'
      <4>1. CASE seq.prev
        BY <1>2, <2>1, <2>2, <2>3, <4>1, SinceTyped DEF HalfPassed
      <4>2. CASE ~seq.prev
        <5>1. ~BitIn(div, seq.selector)
          BY <2>1, <4>2 DEF BitSeen
        <5>2. key1.block = 0 => Position + 1 <= Half
          BY <1>2, <2>1, <5>1, SinceTyped DEF Position, BitIn, SelectorFollows
        <5> QED BY <1>2, <2>1, <2>2, <2>3, <3>1, <3>2, <4>2, <5>2, SinceTyped DEF HalfPassed
      <4> QED BY <4>1, <4>2
    <3>4. StartPassed'
      <4>1. key1.block > 0 => Waited' = Waited + 1 /\ Waited \in Int
        BY <1>1, <1>2, <3>1 DEF Waited, SwitchInStep, SequencerTypeOK
      <4>2. key1.block \in Nat
        BY DEF SequencerTypeOK
      <4> QED BY <2>1, <2>3, <3>1, <3>2, <4>1, <4>2, SinceTyped DEF StartPassed
    <3> QED BY <2>4, <2>6, <3>3, <3>4
  <2> QED BY <2>7, <2>8, <2>9
<1>5. seq.enable \in BOOLEAN
  BY DEF SequencerTypeOK
<1> QED BY <1>3, <1>4, <1>5

(* An odd T-cycle ticks the divider and follows the bit. *)
LEMMA OddKeepsTime ==
  ASSUME SequencerTypeOK, SwitchInStep, SeqInv, NEW op, Tick(op), t \in {1, 3}, seq.enable
  PROVE  /\ (SelectorFollows /\ BitSeen /\ HalfPassed /\ StartPassed)'
         /\ edge' = "falling" => since.step + 3 >= Half
<1> DEFINE restarts == op.reg = "DIV" \/ key1.block = 1
           ticks == (t = 3 \/ key1'.double) /\ key1'.block = 0
<1>1. SwitchInStep' /\ SequencerTypeOK' /\ SelectorFollows /\ BitSeen /\ HalfPassed /\ StartPassed
  BY SwitchStep, SequencerTyped DEF SeqInv
<1>2. /\ t' = IF t = 1 THEN 2 ELSE 0
      /\ key1.double \in BOOLEAN /\ key1.enter \in 0 .. 2 /\ key1.block \in 0 .. 4
      /\ op.reg # "KEY1"
      /\ key1'.double <=> (key1.double # (key1.enter = 1))
      /\ key1'.enter = IF key1.enter = 0 THEN 0 ELSE key1.enter - 1
      /\ key1'.block = IF key1.block = 0 THEN 0 ELSE key1.block - 1
  BY SwitchFields
<1>3. /\ div' \in 0 .. 4 * Bit - 1 /\ seq'.selector \in 0 .. 1
      /\ div' = LET d == IF restarts THEN 0 ELSE div
                IN IF ticks THEN (IF d = 4 * Bit - 1 THEN 0 ELSE d + 1) ELSE d
      /\ seq'.selector = IF key1'.block = 0 THEN (IF key1'.double THEN 1 ELSE 0) ELSE seq.selector
      /\ seq'.prev <=> BitIn(div', seq'.selector)
      /\ edge' = "falling" <=> seq.prev /\ ~seq'.prev
      /\ ~since'.fresh
      /\ since'.step = IF edge' = "falling" THEN (IF since.fresh THEN Half ELSE 0) ELSE Later(since.step, Half)
      /\ since'.start = IF edge' = "falling" \/ restarts THEN 0 ELSE Later(since.start, Period + Slack)
  BY OddFields, SinceTyped
<1>4. /\ Later(since.step, Half) \in 0 .. Half
      /\ Later(since.step, Half) = Half \/ Later(since.step, Half) = since.step + 1
  BY LaterIs, SinceTyped
<1>5. /\ Later(since.start, Period + Slack) \in 0 .. Period + Slack
      /\ Later(since.start, Period + Slack) <= since.start + 1
  BY LaterIs, SinceTyped
(* Only with no block before and after does the bit move by a tick. *)
<1>6. key1.block = 0 => key1.enter = 0 /\ key1'.block = 0 /\ (key1'.double <=> key1.double)
  BY <1>1, <1>2 DEF SwitchInStep
<1>7. restarts => div' \in {0, 1} /\ ~BitIn(div', seq'.selector)
  BY <1>3, SinceTyped DEF BitIn
<1>8. edge' = "falling" => since.step + 3 >= Half
  BY <1>1, <1>3, SinceTyped DEF HalfPassed
<1>9. SelectorFollows'
  BY <1>3 DEF SelectorFollows
<1>10. BitSeen'
  BY <1>3 DEF BitSeen
<1>11. HalfPassed'
  <2>1. CASE seq'.prev /\ seq.prev
    BY <1>1, <1>2, <1>3, <1>4, <2>1, SinceTyped DEF HalfPassed
  <2>2. CASE seq'.prev /\ ~seq.prev
    <3>1. ~restarts /\ ~BitIn(div, seq.selector) /\ BitIn(div', seq'.selector)
      BY <1>1, <1>3, <1>7, <2>2 DEF BitSeen
    <3>2. key1.block = 0
      <4>1. SUFFICES ASSUME key1.block > 0 PROVE FALSE
        BY <1>2
      <4>2. key1'.block > 0
        BY <1>2, <3>1, <4>1
      <4>3. div' = div /\ seq'.selector = seq.selector
        BY <1>3, <3>1, <4>2
      <4> QED BY <3>1, <4>3
    <3>3. seq'.selector = seq.selector /\ seq.selector = IF key1.double THEN 1 ELSE 0
      BY <1>1, <1>3, <1>6, <3>2 DEF SelectorFollows
    <3>4. ticks /\ div' = div + 1
      BY <1>3, <3>1, <3>3, SinceTyped DEF BitIn
    <3>5. IF key1.double THEN div = 2 * Bit - 1 ELSE t = 3 /\ (div = Bit - 1 \/ div = 3 * Bit - 1)
      BY <1>2, <1>6, <3>1, <3>2, <3>3, <3>4, SinceTyped DEF BitIn
    <3>6. Position = 4 * Bit - 1
      BY <3>5, SinceTyped DEF Position
    <3>7. since'.step = Half \/ since'.step = since.step + 1
      BY <1>3, <1>4, <2>2
    <3>8. since.step + (IF key1.double THEN 2 ELSE 4) >= 4 * Bit - 1
      BY <1>1, <2>2, <3>2, <3>6 DEF HalfPassed
    <3>9. IF t' = 0 THEN since'.step + 4 >= Half ELSE since'.step + 4 >= Half + 1
      BY <1>2, <3>5, <3>7, <3>8, SinceTyped
    <3> QED BY <2>2, <3>9, SinceTyped DEF HalfPassed
  <2>3. CASE ~seq'.prev
    <3>1. SUFFICES ASSUME key1'.block = 0
                   PROVE  since'.step + (IF key1'.double THEN 2 ELSE 4) >= Position'
      BY <2>3 DEF HalfPassed
    <3>2. since'.step \in 0 .. Half
      BY <1>3, <1>4, SinceTyped
    <3>3. CASE restarts
      <4>1. Position' <= IF key1'.double THEN 2 ELSE 4
        BY <1>2, <1>3, <3>3, SinceTyped DEF Position
      <4>2. Position' \in Int
        BY <1>2, <1>3, SinceTyped DEF Position
      <4> QED BY <3>2, <4>1, <4>2, SinceTyped
    <3>4. CASE ~restarts
      <4>1. key1.block = 0
        BY <1>2, <3>1, <3>4
      <4>2. /\ seq'.selector = seq.selector /\ seq.selector = IF key1.double THEN 1 ELSE 0
            /\ key1'.double <=> key1.double
        BY <1>1, <1>3, <1>6, <4>1 DEF SelectorFollows
      <4>3. Position' \in Int /\ Position' <= Half
        BY <1>2, <1>3, <2>3, <4>2, SinceTyped DEF Position, BitIn
      <4>4. CASE ~seq.prev
        <5>1. ~BitIn(div, seq.selector) /\ div' # 4 * Bit
          BY <1>1, <1>3, <4>4, SinceTyped DEF BitSeen
        <5>2. Position' <= Position + 1 /\ Position \in Int
          BY <1>2, <1>3, <2>3, <3>4, <4>1, <4>2, <5>1, SinceTyped DEF Position, BitIn
        <5>3. since'.step = Half \/ since'.step = since.step + 1
          BY <1>3, <1>4, <4>4
        <5>4. since.step + (IF key1.double THEN 2 ELSE 4) >= Position
          BY <1>1, <4>1, <4>4 DEF HalfPassed
        <5> QED BY <3>2, <4>2, <4>3, <5>2, <5>3, <5>4, SinceTyped
      <4>5. CASE seq.prev /\ since.fresh
        BY <1>3, <2>3, <4>3, <4>5, SinceTyped
      <4>6. CASE seq.prev /\ ~since.fresh
        <5>1. Position' <= IF key1'.double THEN 2 ELSE 4
          <6>1. CASE BitIn(div, seq.selector)
            <7>1. IF seq.selector = 1 THEN div' = 0 ELSE div' \in {0, 2 * Bit} /\ t = 3
              BY <1>2, <1>3, <2>3, <3>4, <4>2, <6>1, SinceTyped DEF BitIn
            <7> QED BY <1>2, <4>2, <7>1, SinceTyped DEF Position
          <6>2. CASE ~BitIn(div, seq.selector)
            <7>1. div = 0
              BY <1>1, <4>6, <6>2 DEF BitSeen
            <7>2. div' \in {0, 1} /\ (div' = 1 => key1'.double \/ t = 3)
              BY <1>3, <3>4, <7>1, SinceTyped
            <7>3. CASE key1'.double
              <8>1. t' \notin {1, 3}
                BY <1>2
              <8>2. Position' = 2 * div'
                BY <1>3, <7>3, <8>1, SinceTyped DEF Position
              <8>3. Position' = 0 \/ Position' = 2
                <9>1. div' = 0 \/ div' = 1
                  BY <7>2
                <9> QED BY <8>2, <9>1
              <8> QED BY <7>3, <8>3
            <7>4. CASE ~key1'.double
              BY <1>2, <7>2, <7>4, SinceTyped DEF Position
            <7> QED BY <7>3, <7>4
          <6> QED BY <6>1, <6>2
        <5> QED BY <3>2, <4>3, <5>1, SinceTyped
      <4> QED BY <4>4, <4>5, <4>6
    <3> QED BY <3>3, <3>4
  <2> QED BY <2>1, <2>2, <2>3
<1>12. StartPassed'
  <2>1. Position' \in Int /\ Waited' \in Int /\ Position' >= 0 /\ Waited' >= 0
    BY <1>2, <1>3, SinceTyped DEF Position, Waited
  <2>2. CASE edge' = "falling" \/ restarts
    BY <1>3, <2>1, <2>2, SinceTyped DEF StartPassed
  <2>3. CASE ~(edge' = "falling" \/ restarts)
    <3>1. since'.start <= since.start + 1 /\ since'.start \in Int
      BY <1>3, <1>5, <2>3
    <3>2. CASE key1.block = 0
      <4>1. since.start <= Position /\ Position \in Int
        BY <1>1, <3>2, SinceTyped DEF StartPassed, Position
      <4>2. /\ seq'.selector = seq.selector /\ seq.selector = IF key1.double THEN 1 ELSE 0
            /\ key1'.double <=> key1.double
        BY <1>1, <1>3, <1>6, <3>2 DEF SelectorFollows
      <4>3. Position' = Position + 1
        <5>1. seq.prev => seq'.prev
          BY <1>3, <2>3
        <5>2. BitIn(div, seq.selector) => BitIn(div', seq.selector)
          BY <1>1, <1>3, <4>2, <5>1 DEF BitSeen
        <5>3. div' = IF ticks THEN div + 1 ELSE div
          BY <1>3, <2>3, <4>2, <5>2, SinceTyped DEF BitIn
        <5>4. ~key1.double /\ ticks => div + 1 # 2 * Bit
          BY <1>3, <4>2, <5>2, <5>3, SinceTyped DEF BitIn
        <5> QED BY <1>2, <1>3, <1>6, <3>2, <4>2, <5>3, <5>4, SinceTyped DEF Position
      <4> QED BY <1>6, <3>1, <3>2, <4>1, <4>3, SinceTyped DEF StartPassed
    <3>3. CASE key1.block > 0
      <4>1. key1'.block > 0 /\ Waited' = Waited + 1 /\ Waited \in Int
        BY <1>1, <1>2, <2>3, <3>3 DEF Waited, SwitchInStep
      <4>2. since.start <= Period - 2 + Waited
        BY <1>1, <3>3 DEF StartPassed
      <4> QED BY <3>1, <4>1, <4>2, SinceTyped DEF StartPassed
    <3> QED BY <1>2, <3>2, <3>3
  <2> QED BY <2>2, <2>3
<1> QED BY <1>8, <1>9, <1>10, <1>11, <1>12

(* The envelope but for its volume. *)
SameEnvelope(c, d) == c.pace = d.pace /\ c.countdown = d.countdown /\ c.reloaded = d.reloaded

(* A write that touches no envelope leaves it alone. *)
LEMMA EvenEnvelope ==
  ASSUME PoweredChannel(ch), NEW w, ~Touches(w)
  PROVE  SameEnvelope(UpdatedChannel(w), ch)
<1> USE DEF PoweredChannel, Common, SameEnvelope, Touches
<1>1. CASE w.reg = "NRx1"
  BY <1>1 DEF UpdatedChannel, WriteLength
<1>2. CASE w.reg = "NR30"
  BY <1>2 DEF UpdatedChannel, SetDac
<1>3. CASE w.reg = "NR10"
  BY <1>3 DEF UpdatedChannel
<1>4. CASE w.reg \notin {"NRx1", "NR30", "NR10"}
  BY <1>4 DEF UpdatedChannel
<1> QED BY <1>1, <1>2, <1>3, <1>4

(* What an edge of DIV-APU makes of the envelope. *)
LEMMA OddEnvelope ==
  ASSUME PoweredChannel(ch), NEW e, NEW div_apu, OddTick(e, div_apu)
  PROVE  /\ e \notin {"falling", "raising"} \/ ~HasEnvelope => SameEnvelope(ch', ch)
         /\ e = "raising" /\ HasEnvelope =>
              /\ ch'.pace = ch.pace
              /\ ch'.countdown = IF ch.countdown = 0 THEN ch.pace ELSE ch.countdown
              /\ ch'.reloaded <=> ch.reloaded \/ (ch.countdown = 0 /\ ch.pace # 0)
         /\ e = "falling" /\ HasEnvelope =>
              /\ ch'.pace = ch.pace
              /\ ch'.countdown = IF div_apu % 8 = 0 /\ ch'.on /\ ~ch.reloaded THEN (ch.countdown + 7) % 8
                                 ELSE ch.countdown
              /\ ~ch'.reloaded
<1> DEFINE on == TickRecalculation(ch.on, sweep, seq.clock).on
           b == [ch EXCEPT !.on = on]
           c == VolumeHandled(b)
<1>1. on \in BOOLEAN /\ (on => ch.on)
  BY RecalculationTurnsOff DEF PoweredChannel, Common
<1>2. ch' = Edged(c, e, div_apu)
  BY DEF OddTick
<1> HIDE DEF on
<1>3. PoweredChannel(b) /\ SameEnvelope(b, ch)
  BY <1>1 DEF PoweredChannel, Powered, Common, SameEnvelope
<1> HIDE DEF b
<1>4. PoweredChannel(c)
  BY <1>3, EnvelopePowered DEF VolumeHandled
<1>5. SameEnvelope(c, ch)
  BY <1>3 DEF VolumeHandled, HandleVolumeUpdate, SameEnvelope, PoweredChannel, Common
<1> HIDE DEF c
<1> USE DEF SameEnvelope
<1>6. PoweredChannel(LengthEdge(c, div_apu)) /\ SameEnvelope(LengthEdge(c, div_apu), c)
  <2>1. PoweredChannel(LengthEdge(c, div_apu))
    BY <1>4, LengthEdgePowered
  <2>2. SameEnvelope(TickLength(c), c)
    BY <1>4 DEF TickLength, PoweredChannel, Common
  <2> QED BY <2>1, <2>2 DEF LengthEdge, TickEnabledLength
<1>7. CASE e = "falling"
  <2> DEFINE d == LengthEdge(c, div_apu)
  <2>1. d \in Common /\ SameEnvelope(d, ch)
    BY <1>5, <1>6 DEF PoweredChannel
  <2>2. ~HasEnvelope => ch' = d
    BY <1>2, <1>7 DEF Edged
  <2>3. CASE HasEnvelope
    <3> DEFINE x == IF div_apu % 8 = 0 THEN TickVolumeSweep(d) ELSE d
    <3>1. ch' = VolumeSweepReloaded(x)
      BY <1>2, <1>7, <2>3 DEF Edged, EnvelopeEdge
    <3> HIDE DEF d
    <3>2. /\ x.pace = d.pace /\ x.reloaded = d.reloaded /\ x.on = d.on /\ x \in Common
          /\ x.countdown = IF div_apu % 8 = 0 /\ d.on /\ ~d.reloaded THEN (d.countdown + 7) % 8 ELSE d.countdown
      <4>1. (d.countdown + 7) % 8 \in 0 .. 7
        BY <2>1 DEF Common
      <4> QED BY <2>1, <4>1 DEF TickVolumeSweep, Common
    <3> HIDE DEF x
    <3>3. /\ ch'.pace = x.pace /\ ~ch'.reloaded /\ ch'.on = x.on /\ ch'.countdown = x.countdown
      BY <3>1, <3>2 DEF VolumeSweepReloaded, Common
    <3> QED BY <1>7, <2>1, <2>3, <3>2, <3>3
  <2> HIDE DEF d
  <2> QED BY <1>7, <2>1, <2>2, <2>3
<1>8. CASE e = "raising"
  <2>1. ch' = IF HasEnvelope THEN ReloadVolumeSweep(c) ELSE c
    BY <1>2, <1>8 DEF Edged
  <2>2. /\ ReloadVolumeSweep(c).pace = c.pace
        /\ ReloadVolumeSweep(c).countdown = IF c.countdown = 0 THEN c.pace ELSE c.countdown
        /\ ReloadVolumeSweep(c).reloaded <=> c.reloaded \/ (c.countdown = 0 /\ c.pace # 0)
    BY <1>4 DEF ReloadVolumeSweep, PoweredChannel, Common
  <2> QED BY <1>5, <1>8, <2>1, <2>2
<1>9. CASE e \notin {"falling", "raising"}
  BY <1>2, <1>5, <1>9 DEF Edged
<1> QED BY <1>7, <1>8, <1>9

(* The countdown of the envelope is the steps counted since its reload.    *)
EnvInv ==
  gap # Unknown =>
    /\ HasEnvelope /\ ch.on /\ ch.pace > 0 /\ gap \in 0 .. 8 * ch.pace
    /\ gap = 0 => ch.reloaded /\ ch.countdown = ch.pace /\ seq.div_apu % 8 = 0
    /\ gap > 0 => ~ch.reloaded /\ seq.div_apu % 8 = gap % 8 /\ ch.countdown = ch.pace - gap \div 8
    /\ gap = 8 * ch.pace => ~seq.prev

(* DIV-APU wraps at a whole number of eighths. *)
LEMMA Eighths ==
  ASSUME NEW d \in 0 .. MaxSteps - 1
  PROVE  ((d + 1) % MaxSteps) % 8 = (d + 1) % 8
<1>1. MaxSteps \in Nat \ {0} /\ MaxSteps % 8 = 0
  BY SequencerAssumption
<1>2. CASE d = MaxSteps - 1
  BY <1>1, <1>2
<1>3. CASE d # MaxSteps - 1
  <2>1. (d + 1) % MaxSteps = d + 1
    BY <1>1, <1>3
  <2> QED BY <2>1
<1> QED BY <1>2, <1>3

(* The envelope moves with the steps, and is reloaded when they are counted. *)
LEMMA EnvStep ==
  ASSUME ClockInv, EnvInv, NEW op \in program.ops, ApuTick(op)
  PROVE  /\ EnvInv'
         /\ ReloadsEnvelope /\ gap # Unknown /\ gap' # Unknown => gap = 8 * ch.pace
<1> SUFFICES ASSUME gap' # Unknown
             PROVE  /\ HasEnvelope' /\ ch'.on /\ ch'.pace > 0 /\ gap' \in 0 .. 8 * ch'.pace
                    /\ gap' = 0 => ch'.reloaded /\ ch'.countdown = ch'.pace /\ seq'.div_apu % 8 = 0
                    /\ gap' > 0 =>
                         ~ch'.reloaded /\ seq'.div_apu % 8 = gap' % 8 /\ ch'.countdown = ch'.pace - gap' \div 8
                    /\ gap' = 8 * ch'.pace => ~seq'.prev
                    /\ ReloadsEnvelope /\ gap # Unknown => gap = 8 * ch.pace
  BY DEF EnvInv
<1> DEFINE w == Applied(op)
<1>1. /\ PoweredChannel(ch) /\ ch \in Common /\ seq \in Sequencer /\ (ch.on => seq.enable)
      /\ t % 2 = 0 \/ t % 2 = 1
  BY DEF ClockInv, PowerInv, PoweredChannel
<1>2. /\ program' = program /\ (HasEnvelope' <=> HasEnvelope)
      /\ ~Touches(w) /\ ch'.on
      /\ gap' = IF ReloadsEnvelope THEN (IF OutOfPhase THEN Unknown ELSE 0)
                ELSE IF edge' = "falling" /\ gap \in 0 .. 8 * 7 THEN gap + 1 ELSE gap
  BY DEF ApuTick, CountSteps, HasEnvelope
<1>3. /\ ch.pace \in 0 .. 7 /\ ch.countdown \in 0 .. 7 /\ ch.reloaded \in BOOLEAN /\ ch.on \in BOOLEAN
      /\ seq.div_apu \in 0 .. MaxSteps - 1 /\ seq.prev \in BOOLEAN /\ seq.div_apu \in Int /\ Unknown = -1
  BY <1>1 DEF Common, Sequencer, Unknown
<1>4. CASE t % 2 = 0
  <2>1. ch' = UpdatedChannel(w) /\ seq' = Even(w, SpeedAfter(op).double) /\ edge' = "none"
    BY <1>4 DEF ApuTick, Tick, EvenTick, EdgeAfter
  <2>2. SameEnvelope(ch', ch)
    BY <1>1, <1>2, <2>1, EvenEnvelope
  <2>3. seq'.div_apu = seq.div_apu /\ seq'.prev = seq.prev
    <3>1. w.reg # "NR52"
      BY <1>2 DEF Touches
    <3> HIDE DEF w
    <3> QED BY <1>1, <2>1, <3>1 DEF Even, Sequencer
  <2>4. ~ReloadsEnvelope /\ gap' = gap
    BY <1>2, <2>1, <2>2 DEF ReloadsEnvelope, SameEnvelope
  <2> QED BY <1>2, <2>2, <2>3, <2>4 DEF EnvInv, SameEnvelope
<1>5. CASE t % 2 = 1
  <2>1. seq.enable /\ ch.on
    <3>1. CASE seq.enable
      BY <1>1, <1>2, <1>5, <3>1, OddTickTurnsOff DEF ApuTick
    <3>2. CASE ~seq.enable
      BY <1>1, <1>2, <1>5, <3>2 DEF ApuTick
    <3> QED BY <3>1, <3>2
  <2>2. OddTick(edge', seq'.div_apu)
    BY <1>5, <2>1 DEF ApuTick
  <2>3. /\ edge' = EdgeOf(seq'.prev)
        /\ seq'.div_apu = IF edge' = "falling" THEN (seq.div_apu + 1) % MaxSteps ELSE seq.div_apu
        /\ seq'.prev \in BOOLEAN
    <3>1. /\ seq' = Odd(SpeedAfter(op), DivAfter(op))
          /\ edge' = EdgeOf(DivBitOf(DivAfter(op), Selector(SpeedAfter(op))))
      BY <1>5, <2>1 DEF ApuTick, Tick, EdgeAfter
    <3> QED BY <1>1, <3>1 DEF Odd, Sequencer, DivBitOf
  <2>4. edge' = "falling" <=> seq.prev /\ ~seq'.prev
    BY <2>3 DEF EdgeOf
  <2>5. edge' = "raising" => ~seq.prev /\ seq'.prev
    BY <2>3 DEF EdgeOf
  <2>6. CASE ~HasEnvelope
    <3>1. SameEnvelope(ch', ch)
      BY <1>1, <2>2, <2>6, OddEnvelope
    <3>2. ~ReloadsEnvelope
      BY <3>1 DEF ReloadsEnvelope, SameEnvelope
    <3> QED BY <1>2, <1>3, <2>6, <3>2 DEF EnvInv
  <2>7. CASE HasEnvelope /\ edge' \notin {"falling", "raising"}
    <3>1. SameEnvelope(ch', ch)
      BY <1>1, <2>2, <2>7, OddEnvelope
    <3>2. ~ReloadsEnvelope /\ gap' = gap
      BY <1>2, <2>7, <3>1 DEF ReloadsEnvelope, SameEnvelope
    <3>3. seq'.div_apu = seq.div_apu /\ seq'.prev = seq.prev
      BY <1>3, <2>3, <2>7 DEF EdgeOf
    <3> QED BY <1>2, <3>1, <3>2, <3>3 DEF EnvInv, SameEnvelope
  <2>8. CASE HasEnvelope /\ edge' = "raising"
    <3>1. /\ ch'.pace = ch.pace
          /\ ch'.countdown = IF ch.countdown = 0 THEN ch.pace ELSE ch.countdown
          /\ ch'.reloaded <=> ch.reloaded \/ (ch.countdown = 0 /\ ch.pace # 0)
          /\ seq'.div_apu = seq.div_apu
      BY <1>1, <2>2, <2>3, <2>8, OddEnvelope
    <3>2. gap # Unknown /\ ch.countdown = 0 => gap = 8 * ch.pace /\ seq.div_apu % 8 = 0
      <4> SUFFICES ASSUME gap # Unknown, ch.countdown = 0
                   PROVE  gap = 8 * ch.pace /\ seq.div_apu % 8 = 0
        OBVIOUS
      <4>1. gap > 0 /\ gap \in 0 .. 8 * ch.pace /\ gap \div 8 = ch.pace /\ seq.div_apu % 8 = gap % 8
        BY <1>3 DEF EnvInv
      <4> QED BY <1>3, <4>1
    <3>3. CASE ReloadsEnvelope
      <4>1. gap' = 0 /\ ~OutOfPhase
        BY <1>2, <3>3
      <4>2. ch.countdown = 0 /\ ch.pace # 0 /\ ch'.reloaded
        BY <3>1, <3>3 DEF ReloadsEnvelope
      <4>3. seq'.div_apu % 8 = 0
        BY <3>1, <3>2, <4>1, <4>2 DEF OutOfPhase
      <4> QED BY <1>2, <1>3, <2>8, <3>1, <3>2, <4>1, <4>2, <4>3
    <3>4. CASE ~ReloadsEnvelope
      <4>1. gap' = gap /\ gap # Unknown
        BY <1>2, <2>8, <3>4
      <4>2. ch.countdown # 0
        BY <1>3, <3>1, <3>2, <3>4, <4>1 DEF ReloadsEnvelope, EnvInv
      <4>3. gap # 8 * ch.pace
        <5> SUFFICES ASSUME gap = 8 * ch.pace PROVE FALSE
          OBVIOUS
        <5>1. gap > 0 /\ ch.countdown = ch.pace - gap \div 8
          BY <1>3, <4>1 DEF EnvInv
        <5>2. gap \div 8 = ch.pace
          BY <1>3
        <5> QED BY <1>3, <4>2, <5>1, <5>2
      <4>4. ch'.reloaded <=> ch.reloaded
        BY <3>1, <4>2
      <4>5. ch'.countdown = ch.countdown
        BY <3>1, <4>2
      <4> QED BY <1>2, <2>8, <3>1, <3>4, <4>1, <4>3, <4>4, <4>5 DEF EnvInv
    <3> QED BY <3>3, <3>4
  <2>9. CASE HasEnvelope /\ edge' = "falling"
    <3>1. /\ ch'.pace = ch.pace
          /\ ch'.countdown = IF seq'.div_apu % 8 = 0 /\ ~ch.reloaded THEN (ch.countdown + 7) % 8 ELSE ch.countdown
          /\ ~ch'.reloaded
      BY <1>1, <1>2, <2>2, <2>9, OddEnvelope
    <3>2. ~ReloadsEnvelope
      BY <3>1 DEF ReloadsEnvelope
    <3>3. gap # Unknown
      BY <1>2, <1>3, <3>2
    <3>4. /\ ch.pace > 0 /\ gap \in 0 .. 8 * ch.pace /\ gap # 8 * ch.pace /\ gap \in Int
          /\ gap = 0 => ch.reloaded /\ ch.countdown = ch.pace /\ seq.div_apu % 8 = 0
          /\ gap > 0 => ~ch.reloaded /\ seq.div_apu % 8 = gap % 8 /\ ch.countdown = ch.pace - gap \div 8
      BY <1>3, <2>4, <2>9, <3>3 DEF EnvInv
    <3>5. gap' = gap + 1
      BY <1>2, <1>3, <2>9, <3>2, <3>4
    <3>6. seq'.div_apu % 8 = (seq.div_apu + 1) % 8
      BY <1>3, <2>3, <2>9, Eighths
    <3>7. seq'.div_apu % 8 = gap' % 8
      <4>1. seq.div_apu % 8 = gap % 8
        BY <3>4
      <4> QED BY <1>3, <3>4, <3>5, <3>6, <4>1
    <3>8. ch'.countdown = ch'.pace - gap' \div 8
      <4>1. CASE gap = 0
        BY <1>3, <3>1, <3>4, <3>5, <4>1
      <4>2. CASE gap > 0 /\ gap' % 8 # 0
        <5>1. gap' \div 8 = gap \div 8
          BY <3>4, <3>5, <4>2
        <5> QED BY <3>1, <3>4, <3>7, <4>2, <5>1
      <4>3. CASE gap > 0 /\ gap' % 8 = 0
        <5>1. gap' \div 8 = gap \div 8 + 1 /\ ch.countdown > 0
          BY <1>3, <3>4, <3>5, <4>3
        <5>2. ch'.countdown = ch.countdown - 1
          BY <1>3, <3>1, <3>4, <3>7, <4>3, <5>1
        <5> QED BY <1>3, <3>1, <3>4, <4>3, <5>1, <5>2
      <4> QED BY <3>4, <4>1, <4>2, <4>3
    <3> QED BY <1>2, <1>3, <2>4, <2>9, <3>1, <3>2, <3>4, <3>5, <3>7, <3>8
  <2> QED BY <2>6, <2>7, <2>8, <2>9
<1> QED BY <1>1, <1>4, <1>5

(* The invariant StepsKeepTime rests on. *)
TimeInv == ClockInv /\ SeqInv /\ EnvInv

(* The sequencer and the envelope, at reset. *)
LEMMA TimeInit == ApuInit => TimeInv
<1> SUFFICES ASSUME ApuInit PROVE TimeInv
  OBVIOUS
<1>1. ClockInv
  BY ClockInit
<1>2. EnvInv
  BY DEF ApuInit, EnvInv
<1>3. SeqInv
  <2>1. /\ t = 0 /\ key1.enter = 0 /\ key1.block = 0 /\ div \in 0 .. DivSize - 1
        /\ seq.prev /\ seq.selector = IF key1.double THEN 1 ELSE 0
        /\ since.step = Half /\ since.start = 0 /\ since.fresh
    <3>1. div \in 0 .. DivSize - 1
      BY <1>1 DEF ClockInv, ApuTypeOK, SequencerTypeOK
    <3> QED BY <3>1 DEF ApuInit, SequencerInit
  <2>2. Position \in Int /\ Position >= 0
    BY <2>1, Sizes DEF Position
  <2>3. SelectorFollows /\ BitSeen /\ HalfPassed
    BY <2>1, Sizes DEF SelectorFollows, BitSeen, HalfPassed
  <2>4. StartPassed
    BY <2>1, <2>2 DEF StartPassed
  <2> QED BY <2>3, <2>4 DEF SeqInv
<1> QED BY <1>1, <1>2, <1>3 DEF TimeInv

(* A step of the sequencer. *)
LEMMA SeqStep ==
  ASSUME ClockInv, SeqInv, NEW op, Tick(op)
  PROVE  SeqInv' /\ (edge' = "falling" => since.step + 3 >= Half)
<1>1. SequencerTypeOK /\ SwitchInStep /\ (t \in {0, 2} \/ t \in {1, 3}) /\ seq.enable \in BOOLEAN
  BY DEF ClockInv, ApuTypeOK, SequencerTypeOK
<1>2. CASE t \in {0, 2}
  <2>1. edge' = "none"
    BY <1>2 DEF Tick, EdgeAfter
  <2>2. SeqInv'
    BY <1>1, <1>2, EvenKeepsTime DEF SeqInv
  <2> QED BY <2>1, <2>2
<1>3. CASE t \in {1, 3} /\ seq.enable
  BY <1>1, <1>3, OddKeepsTime DEF SeqInv
<1>4. CASE t \in {1, 3} /\ ~seq.enable
  <2>1. edge' = "none"
    BY <1>4 DEF Tick, EdgeAfter
  <2>2. seq' = seq
    BY <1>4 DEF Tick
  <2> QED BY <1>4, <2>1, <2>2 DEF SeqInv
<1> QED BY <1>1, <1>2, <1>3, <1>4

(* It is kept by every step. *)
LEMMA TimeStep == TimeInv /\ [ApuNext]_apuVars => TimeInv'
<1> SUFFICES ASSUME TimeInv, [ApuNext]_apuVars PROVE TimeInv'
  OBVIOUS
<1>1. ClockInv'
  BY ClockStep DEF TimeInv
<1>2. CASE UNCHANGED apuVars
  <2>1. SeqInv'
    BY <1>2 DEF apuVars, seqVars, TimeInv, SeqInv, SelectorFollows, BitSeen, HalfPassed, StartPassed, Position, Waited
  <2>2. EnvInv'
    BY <1>2 DEF apuVars, seqVars, TimeInv, EnvInv, HasEnvelope
  <2> QED BY <1>1, <2>1, <2>2 DEF TimeInv
<1>3. ASSUME NEW op \in program.ops, ApuTick(op) PROVE TimeInv'
  <2>1. Tick(op)
    BY <1>3 DEF ApuTick
  <2>2. SeqInv' /\ EnvInv'
    BY <1>3, <2>1, SeqStep, EnvStep DEF TimeInv
  <2> QED BY <1>1, <2>2 DEF TimeInv
<1> QED BY <1>2, <1>3 DEF ApuNext

(* Steps come in time, and an envelope moves once in as many as it is due. *)
THEOREM StepsAlwaysKeepTime == ApuSpec => StepsKeepTime
<1>1. TimeInv => (seq.enable => since.start < Period + Slack)
  <2> SUFFICES ASSUME TimeInv, seq.enable PROVE since.start < Period + Slack
    OBVIOUS
  <2>1. SequencerTypeOK /\ SwitchInStep /\ StartPassed
    BY DEF TimeInv, ClockInv, ApuTypeOK, SeqInv
  <2>2. CASE key1.block = 0
    <3>1. Position <= Period - 1 /\ Position \in Int
      BY <2>1, SinceTyped DEF Position
    <3> QED BY <2>1, <2>2, <3>1, SinceTyped DEF StartPassed
  <2>3. CASE key1.block # 0
    <3>1. Waited <= 7 /\ Waited \in Int
      BY <2>1, SinceTyped DEF Waited
    <3> QED BY <2>1, <2>3, <3>1, SinceTyped DEF StartPassed
  <2> QED BY <2>2, <2>3
<1>2. TimeInv /\ [ApuNext]_apuVars =>
        [edge' = "falling" => since.step + 3 >= Half]_seqVars
  <2> SUFFICES ASSUME TimeInv, NEW op \in program.ops, ApuTick(op)
               PROVE  edge' = "falling" => since.step + 3 >= Half
    BY DEF ApuNext, apuVars
  <2> QED BY SeqStep DEF TimeInv, ApuTick
<1>3. TimeInv /\ [ApuNext]_apuVars =>
        [ReloadsEnvelope /\ gap # Unknown /\ gap' # Unknown => gap = 8 * ch.pace]_apuVars
  <2> SUFFICES ASSUME TimeInv, NEW op \in program.ops, ApuTick(op)
               PROVE  ReloadsEnvelope /\ gap # Unknown /\ gap' # Unknown => gap = 8 * ch.pace
    BY DEF ApuNext
  <2> QED BY EnvStep DEF TimeInv
<1>4. ApuSpec => [](seq.enable => since.start < Period + Slack)
  BY <1>1, TimeInit, TimeStep, PTL DEF ApuSpec
<1>5. ApuSpec => [][edge' = "falling" => since.step + 3 >= Half]_seqVars
  BY <1>2, TimeInit, TimeStep, PTL DEF ApuSpec
<1>6. ApuSpec => EnvelopeKeepsPace
  BY <1>3, TimeInit, TimeStep, PTL DEF ApuSpec, EnvelopeKeepsPace
<1> QED BY <1>4, <1>5, <1>6 DEF StepsKeepTime, SequencerKeepsTime
=============================================================================
