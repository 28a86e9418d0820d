--------------------------------- MODULE Apu --------------------------------
(***************************************************************************)
(* A channel of the APU (docboy/audio) under its clocks, while a program   *)
(* writes its registers.  The channels share nothing but the clocks, so    *)
(* one of them is modelled at a time: the first has a sweep, the first,    *)
(* second and fourth an envelope, the fourth the noise counters.           *)
(***************************************************************************)
EXTENDS FrameSequencer, SoundChannel, NoiseChannel, PeriodSweep

CONSTANTS Programs  \* channel, speed, dividers at reset, and the writes it does

Kinds == {"ch1", "ch2", "ch3", "ch4"}

ASSUME ApuAssumption ==
  \A p \in Programs :
    /\ p.kind \in Kinds /\ p.double \in BOOLEAN /\ p.dividers \subseteq 0 .. DivSize - 1
    /\ NoOp \in p.ops /\ \A op \in p.ops : op.v \in 0 .. 255

VARIABLES
  program,  \* what is played
  ch,       \* what the channel has in common with the others
  noise, sweep,
  gap       \* history: steps since the envelope was reloaded, if known and undisturbed

apuVars == <<seqVars, program, ch, noise, sweep, gap>>

Unknown == -1

ApuTypeOK ==
  /\ SequencerTypeOK
  /\ program \in Programs
  /\ ch \in Common
  /\ noise \in NoiseState
  /\ sweep \in SweepState

(* Apu::reset: the first channel plays the end of the boot sound.          *)
ApuInit ==
  /\ program \in Programs
  /\ SequencerInit(program.double, program.dividers)
  /\ ch = IF program.kind = "ch1"
          THEN [Silent EXCEPT !.on = TRUE, !.dac = TRUE, !.length_timer = MaxLength,
                              !.initial_volume = VolumeTop - 1, !.pace = 3, !.countdown = 1]
          ELSE Silent
  /\ noise = NoNoise
  /\ sweep = IF program.kind = "ch1"
             THEN [NoSweep EXCEPT !.register = PeriodTop - 1, !.pace_countdown = 5]
             ELSE NoSweep
  /\ gap = Unknown
-----------------------------------------------------------------------------
HasEnvelope == program.kind # "ch3"

(* The updaters of the registers; NRx1 to NRx4 are those of the channel,   *)
(* NR30 switches the DAC of the third.  All but those of the length and    *)
(* NR13 do nothing while the APU is off.                                   *)
UpdatedChannel(w) ==
  CASE w.reg = "NRx1" -> WriteLength(ch, seq.enable, w.v)
    [] w.reg = "NR52" /\ w.v < 128 /\ seq.enable -> SwitchedOff(ch)
    [] w.reg = "NRx2" /\ seq.enable -> WriteEnvelope(ch, program.kind # "ch4", w.v)
    [] w.reg = "NR30" /\ seq.enable -> SetDac(ch, w.v >= 128)
    [] w.reg = "NRx4" /\ seq.enable -> WriteControl(ch, seq.div_apu, w.v)
    [] w.reg = "NR10" /\ seq.enable -> [ch EXCEPT !.on = WriteNr10(ch.on, sweep, seq.clock, w.v).on]
    [] OTHER -> ch

NoiseOff(n) == [n EXCEPT !.clock_shift = 0, !.clock_divider = 0]

UpdatedNoise(w) ==
  LET n == [noise EXCEPT !.ticked = FALSE] IN
  CASE w.reg = "NR52" /\ w.v < 128 /\ seq.enable -> NoiseOff(n)
    [] w.reg = "NR43" /\ seq.enable -> WriteNr43(n, ch.on, seq.clock, w.v)
    [] w.reg = "NRx4" /\ seq.enable /\ Triggers(w.v) /\ program.kind = "ch4" ->
         TriggerNoise(n, WriteControl(ch, seq.div_apu, w.v % 128).on, seq.clock)
    [] OTHER -> n

UpdatedSweep(w) ==
  CASE w.reg = "NR52" /\ w.v < 128 /\ seq.enable -> SweepOff(sweep)
    [] w.reg = "NR10" /\ seq.enable -> WriteNr10(ch.on, sweep, seq.clock, w.v).s
    [] w.reg = "NR13" -> WriteNr13(sweep, seq.enable, w.v)
    [] w.reg = "NRx4" /\ seq.enable /\ program.kind = "ch1" -> WriteNr14(sweep, w.v)
    [] OTHER -> sweep

(* tick_even, after flush_pending_write *)
EvenTick(w) ==
  LET c == UpdatedChannel(w)
      on == (seq.enable \/ (w.reg = "NR52" /\ w.v >= 128)) /\ c.on
      clock == IF w.reg = "NR52" /\ w.v >= 128 /\ ~seq.enable THEN 0 ELSE seq.clock
  IN /\ ch' = c
     /\ noise' = IF on /\ program.kind = "ch4" THEN TickNoise(UpdatedNoise(w), clock) ELSE UpdatedNoise(w)
     /\ sweep' = UpdatedSweep(w)

(* tick_odd, which finds the edge e of DIV-APU *)
VolumeHandled(c) == IF HasEnvelope THEN HandleVolumeUpdate(c) ELSE c

StepsSweep(e, div_apu) == e = "falling" /\ div_apu % 4 = 0

Edged(c, e, div_apu) ==
  CASE e = "falling" -> IF HasEnvelope THEN EnvelopeEdge(LengthEdge(c, div_apu), div_apu) ELSE LengthEdge(c, div_apu)
    [] e = "raising" /\ HasEnvelope -> ReloadVolumeSweep(c)
    [] OTHER -> c

OddTick(e, div_apu) ==
  LET r == TickRecalculation(ch.on, sweep, seq.clock)
      c == Edged(VolumeHandled([ch EXCEPT !.on = r.on]), e, div_apu)
      lengthened == IF e = "falling" THEN LengthEdge([ch EXCEPT !.on = r.on], div_apu).on ELSE r.on
      s == TickReload(r.s)
  IN /\ ch' = c
     /\ sweep' = IF StepsSweep(e, div_apu) THEN TickSweep(lengthened, s) ELSE s
     /\ UNCHANGED noise

Touches(w) == w.reg \in {"NRx2", "NRx4", "NR52"}

ReloadsEnvelope == ~ch.reloaded /\ ch'.reloaded

(* The envelope counts every eighth step.  One that was flat (pace 0) is   *)
(* reloaded after whichever step finds it with a pace: its first period is *)
(* a part of one, and steps are counted from its end.                      *)
OutOfPhase == gap = Unknown /\ seq'.div_apu % 8 # 0

CountSteps(op) ==
  gap' = IF Touches(op) \/ Touches(Applied(op)) \/ ~ch'.on THEN Unknown
         ELSE IF ReloadsEnvelope THEN IF OutOfPhase THEN Unknown ELSE 0
         ELSE IF edge' = "falling" /\ gap \in 0 .. 8 * 7 THEN gap + 1
         ELSE gap

ApuTick(op) ==
  /\ Tick(op)
  /\ CASE t % 2 = 0 -> EvenTick(Applied(op))
       [] t % 2 = 1 /\ seq.enable -> OddTick(edge', seq'.div_apu)
       [] OTHER -> UNCHANGED <<ch, noise, sweep>>
  /\ CountSteps(op)
  /\ UNCHANGED program

ApuNext == \E op \in program.ops : ApuTick(op)

(* The core ticks the APU in every T-cycle it is not stopped. *)
ApuSpec == ApuInit /\ [][ApuNext]_apuVars /\ WF_apuVars(ApuNext)
-----------------------------------------------------------------------------
(* The assertions of the compute_chN_digital_output, and more: whatever    *)
(* registers are written and whenever the APU is turned off, a channel     *)
(* that sounds has its DAC on and some length left to sound.               *)
SoundingIsPowered == ch.on => seq.enable /\ ch.dac /\ ch.length_timer > 0

(* However the clocks are bent by DIV and the speed, the envelope of a     *)
(* channel that sounds and is not written moves once in 8 steps times its  *)
(* pace, no step more or less, from its first eighth step on.              *)
EnvelopeKeepsPace ==
  [][ReloadsEnvelope /\ gap # Unknown /\ gap' # Unknown => gap = 8 * ch.pace]_apuVars

(* Steps come in time, and as many as an envelope is due.                  *)
StepsKeepTime == SequencerKeepsTime /\ EnvelopeKeepsPace

(* "ASSERT(ch4.trigger_delay < retrigger_delays.size())": two triggers are *)
(* never so close that the first delay is still 4.                         *)
RetriggerInTable ==
  [][\A op \in program.ops :
       /\ ApuTick(op) /\ seq.enable
       /\ Applied(op).reg = "NRx4" /\ Triggers(Applied(op).v) /\ program.kind = "ch4"
       => ~ch.on \/ noise.trigger_delay < 4]_apuVars

=============================================================================
