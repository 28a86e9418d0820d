------------------------------ MODULE SerialLink -----------------------------
(***************************************************************************)
(* Two consoles joined by the serial cable (docboy/serial), each the       *)
(* ISerialEndpoint of the other.  A machine cycle of a console is at most  *)
(* one access of its CPU, then the tick of its divider and of its serial   *)
(* port; the frontend runs whole cycles of one console, then of the other, *)
(* so a master clocks the shift register of a slave between two cycles of  *)
(* the slave.                                                              *)
(***************************************************************************)
EXTENDS Naturals

CONSTANTS
  A, B,      \* the two consoles
  Width,     \* bits of SB
  SlowHalf,  \* machine cycles between two changes of DIV16[7]
  Loads,     \* the bytes a CPU writes to SB
  Speeds,    \* the clock speeds a CPU selects in SC
  NoTurn, Garbled  \* stand for the absence of a console, of an exchange

Bit == {0, 1}
Byte == [1 .. Width -> Bit]  \* the most significant bit first

ASSUME SerialAssumption ==
  /\ A # B
  /\ Width \in Nat \ {0, 1}
  /\ SlowHalf \in Nat \ {0}
  /\ Loads \subseteq Byte
  /\ Speeds \subseteq BOOLEAN
  /\ NoTurn \notin {A, B}
  /\ Garbled \notin [{A, B} -> Byte]

Consoles == {A, B}
Other(c) == IF c = A THEN B ELSE A

VARIABLES
  sb,               \* SB
  transfer_enable, clock_speed, clock_select,  \* SC
  progress,         \* bits shifted so far
  prev_div_bit, toggle,  \* the master's clock: last level, half of a bit done
  div,              \* machine cycles counted by the divider
  requested,        \* the serial bit of IF
  blocked,          \* IF was written in this machine cycle
  attached,         \* the cable is plugged in
  turn,             \* console in the middle of a machine cycle, or NoTurn
  start             \* history: SB of both when the exchange began, or Garbled

scVars == <<transfer_enable, clock_speed, clock_select>>
masterVars == <<prev_div_bit, toggle>>
vars == <<sb, scVars, progress, masterVars, div, requested, blocked, attached, turn, start>>

TypeOK ==
  /\ sb \in [Consoles -> Byte]
  /\ transfer_enable \in [Consoles -> BOOLEAN]
  /\ clock_speed \in [Consoles -> BOOLEAN]
  /\ clock_select \in [Consoles -> BOOLEAN]
  /\ progress \in [Consoles -> 0 .. Width - 1]
  /\ prev_div_bit \in [Consoles -> BOOLEAN]
  /\ toggle \in [Consoles -> BOOLEAN]
  /\ div \in [Consoles -> 0 .. 2 * SlowHalf - 1]
  /\ requested \in [Consoles -> BOOLEAN]
  /\ blocked \in [Consoles -> BOOLEAN]
  /\ attached \in BOOLEAN
  /\ turn \in Consoles \cup {NoTurn}
  /\ start \in [Consoles -> Byte] \cup {Garbled}

(* The divider's bit that clocks a console's master: DIV16[2] or DIV16[7]. *)
DivBitBeyond(fast, d) == d >= 2 * SlowHalf

DivBit(fast, d) == IF fast THEN d % 2 = 1 ELSE d >= SlowHalf

(* Serial::reset, on consoles whose dividers have counted for a while. *)
Init ==
  /\ sb = [c \in Consoles |-> [i \in 1 .. Width |-> 0]]
  /\ transfer_enable = [c \in Consoles |-> FALSE]
  /\ clock_speed = [c \in Consoles |-> FALSE]
  /\ clock_select = [c \in Consoles |-> FALSE]
  /\ progress = [c \in Consoles |-> 0]
  /\ div \in [Consoles -> 0 .. 2 * SlowHalf - 1]
  /\ prev_div_bit = [c \in Consoles |-> DivBit(FALSE, div[c])]
  /\ toggle = [c \in Consoles |-> FALSE]
  /\ requested = [c \in Consoles |-> FALSE]
  /\ blocked = [c \in Consoles |-> FALSE]
  /\ attached = FALSE
  /\ turn = NoTurn
  /\ start = sb

(* sb << 1 | bit *)
Shifted(byte, bit) == [i \in 1 .. Width |-> IF i < Width THEN byte[i + 1] ELSE bit]

(* The bit a master reads: from the cable, or a floating line. *)
InputBit(c) == IF attached THEN sb[Other(c)][1] ELSE 1

(* The history: a new exchange can begin whenever no port has bits in it.  *)
Track(disturbed) ==
  start' = IF \A c \in Consoles : progress'[c] = 0 THEN sb'
           ELSE IF disturbed THEN Garbled ELSE start

Active(c) == transfer_enable[c] /\ clock_select[c]

(***************************************************************************)
(* The accesses of the CPU, at most one in a machine cycle.                *)
(***************************************************************************)
Access(c) == turn = NoTurn /\ turn' = c

WriteSb(c) ==
  /\ Access(c)
  /\ \E byte \in Loads : sb' = [sb EXCEPT ![c] = byte]
  /\ UNCHANGED <<scVars, progress, masterVars, div, requested, blocked, attached>>
  /\ Track(TRUE)

(* Serial::write_sc: an active master is aborted, half a bit becomes a 1.  *)
AfterAbort(c) == IF Active(c) THEN [progress EXCEPT ![c] = 0] ELSE progress

WriteSc(c) ==
  /\ Access(c)
  /\ \E enable, select \in BOOLEAN, speed \in Speeds :
       /\ transfer_enable' = [transfer_enable EXCEPT ![c] = enable]
       /\ clock_speed' = [clock_speed EXCEPT ![c] = speed]
       /\ clock_select' = [clock_select EXCEPT ![c] = select]
       /\ prev_div_bit' = [prev_div_bit EXCEPT ![c] = DivBit(speed, div[c])]
  /\ sb' = IF Active(c) /\ toggle[c] THEN [sb EXCEPT ![c] = Shifted(@, 1)] ELSE sb
  /\ progress' = AfterAbort(c)
  /\ toggle' = [toggle EXCEPT ![c] = FALSE]
  /\ UNCHANGED <<div, requested, blocked, attached>>
  /\ Track(Active(c))

(* DIV is reset: the master sees the edge this may make at its next tick.  *)
WriteDiv(c) ==
  /\ Access(c)
  /\ div' = [div EXCEPT ![c] = 0]
  /\ UNCHANGED <<sb, scVars, progress, masterVars, requested, blocked, attached, start>>

(* A write of IF also shuts out the serial port until the cycle ends. *)
WriteIF(c) ==
  /\ Access(c)
  /\ \E bit \in BOOLEAN : requested' = [requested EXCEPT ![c] = bit]
  /\ blocked' = [blocked EXCEPT ![c] = TRUE]
  /\ UNCHANGED <<sb, scVars, progress, masterVars, div, attached, start>>

(* The interrupt service clears the request. *)
Acknowledge(c) ==
  /\ Access(c)
  /\ requested[c]
  /\ requested' = [requested EXCEPT ![c] = FALSE]
  /\ UNCHANGED <<sb, scVars, progress, masterVars, div, blocked, attached, start>>

(***************************************************************************)
(* The end of a machine cycle: Timers::tick and Serial::tick.              *)
(***************************************************************************)
NextDiv(c) == IF div[c] = 2 * SlowHalf - 1 THEN 0 ELSE div[c] + 1

FallingEdge(c) == Active(c) /\ prev_div_bit[c] /\ ~DivBit(clock_speed[c], NextDiv(c))

(* serial_write_bit, of the master and of its endpoint. *)
ShiftingOwn(c) == {c}
Shifting(c) == IF attached THEN Consoles ELSE {c}

FinishedOffByOne(d) == progress[d] = Width
Finished(d) == progress[d] = Width - 1

SignalsMaster(d) == Finished(d) /\ clock_select[d] /\ ~blocked[d]
Signals(d) == Finished(d) /\ ~blocked[d]

ShiftBits(c) ==
  /\ sb' = [d \in Consoles |->
              IF d = c THEN Shifted(sb[d], InputBit(c))
              ELSE IF d \in Shifting(c) THEN Shifted(sb[d], sb[c][1]) ELSE sb[d]]
  /\ progress' = [d \in Consoles |->
              IF d \notin Shifting(c) THEN progress[d]
              ELSE IF Finished(d) THEN 0 ELSE progress[d] + 1]
  /\ transfer_enable' = [d \in Consoles |->
              transfer_enable[d] /\ ~(d \in Shifting(c) /\ Finished(d))]
  /\ requested' = [d \in Consoles |->
              requested[d] \/ (d \in Shifting(c) /\ Signals(d))]

Tick(c) ==
  /\ turn \in {NoTurn, c}
  /\ turn' = NoTurn
  /\ div' = [div EXCEPT ![c] = NextDiv(c)]
  /\ prev_div_bit' = [prev_div_bit EXCEPT ![c] = DivBit(clock_speed[c], NextDiv(c))]
  /\ toggle' = [toggle EXCEPT ![c] = (@ # FallingEdge(c))]
  /\ IF FallingEdge(c) /\ toggle[c]
       THEN ShiftBits(c) /\ Track(~attached)
       ELSE UNCHANGED <<sb, progress, transfer_enable, requested, start>>
  /\ blocked' = [blocked EXCEPT ![c] = FALSE]
  /\ UNCHANGED <<clock_speed, clock_select, attached>>

(* The frontend plugs or unplugs the cable between two cycles. *)
Plug ==
  /\ turn = NoTurn
  /\ attached' = ~attached
  /\ UNCHANGED <<sb, scVars, progress, masterVars, div, requested, blocked, turn, start>>

Next ==
  \/ \E c \in Consoles :
       WriteSb(c) \/ WriteSc(c) \/ WriteDiv(c) \/ WriteIF(c) \/ Acknowledge(c) \/ Tick(c)
  \/ Plug

Spec == Init /\ [][Next]_vars

(* RunController::frame gives the consoles bursts in turn: the cycle of one *)
(* only delays the other, whose tick is disabled while it lasts.           *)
FairSpec == Spec /\ \A c \in Consoles : SF_vars(Tick(c))

(***************************************************************************)
(* Properties.                                                             *)
(***************************************************************************)

(* An exchange nobody disturbed: both ports hold as many bits of the other *)
(* byte, behind what is left of their own (serial_read_bit before          *)
(* serial_write_bit on both sides, whoever is the master).                 *)
Mix(own, others, k) ==
  [i \in 1 .. Width |-> IF i + k <= Width THEN own[i + k] ELSE others[i + k - Width]]

ExchangeInStep ==
  start # Garbled =>
    \A c \in Consoles : progress[c] = progress[A] /\ sb[c] = Mix(start[c], start[Other(c)], progress[c])

(* So the ports stay in their types, progress included, which both sides   *)
(* shift and a write of SC resets; and an exchange stays in step.          *)
PortsInStep == TypeOK /\ ExchangeInStep

(* An exchange that ends undisturbed has swapped the bytes and closed the  *)
(* transfers of both consoles.                                             *)
BytesSwapped ==
  [][start # Garbled /\ (\A c \in Consoles : progress[c] = Width - 1 /\ progress'[c] = 0)
       => \A c \in Consoles : sb'[c] = start[Other(c)] /\ ~transfer_enable'[c]]_vars

(* A transfer closed by the last bit is signalled to the console's CPU,    *)
(* unless that very CPU wrote IF in the cycle: a slave never misses it.    *)
CompletionSignalled ==
  [][\A c \in Consoles :
       transfer_enable[c] /\ ~transfer_enable'[c] /\ turn' # c
         => requested'[c] \/ (turn = c /\ blocked[c])]_vars

(* An exchange ends on both sides: bytes swapped, and each CPU told.       *)
ExchangeCompletes == BytesSwapped /\ CompletionSignalled

(* A master whose CPU leaves SC and DIV alone closes its transfer,         *)
(* whatever the other console and the cable do.                            *)
MasterFinishes ==
  \A c \in Consoles : <>[][~(WriteSc(c) \/ WriteDiv(c))]_vars => <>[](~Active(c))

=============================================================================
