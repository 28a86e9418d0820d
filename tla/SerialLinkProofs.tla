--------------------------- MODULE SerialLinkProofs --------------------------
(***************************************************************************)
(* What holds of the serial link for bytes of any width and any divider.   *)
(***************************************************************************)
EXTENDS SerialLink, TLAPS

LEMMA ShiftedIsByte ==
  ASSUME NEW byte \in Byte, NEW bit \in Bit
  PROVE  Shifted(byte, bit) \in Byte
BY SerialAssumption DEF Byte, Shifted, Bit

LEMMA NextDivInRange ==
  ASSUME NEW c \in Consoles, TypeOK
  PROVE  NextDiv(c) \in 0 .. 2 * SlowHalf - 1
<1>1. div[c] \in 0 .. 2 * SlowHalf - 1
  BY DEF TypeOK
<1>2. SlowHalf \in Nat \ {0}
  BY SerialAssumption
<1> QED BY <1>1, <1>2 DEF NextDiv

LEMMA DivBitBoolean ==
  ASSUME NEW fast \in BOOLEAN, NEW d \in Nat
  PROVE  DivBit(fast, d) \in BOOLEAN
<1>1. CASE fast = TRUE
  BY <1>1 DEF DivBit
<1>2. CASE fast = FALSE
  BY <1>2 DEF DivBit
<1> QED BY <1>1, <1>2

LEMMA OtherIsConsole ==
  ASSUME NEW c \in Consoles
  PROVE  Other(c) \in Consoles /\ Other(c) # c /\ Other(Other(c)) = c
         /\ Consoles = {c, Other(c)}
BY SerialAssumption DEF Other, Consoles

(* The bits a port shifts in are bits. *)
LEMMA InputIsBit ==
  ASSUME NEW c \in Consoles, TypeOK
  PROVE  InputBit(c) \in Bit /\ sb[c][1] \in Bit
<1>1. 1 \in 1 .. Width
  BY SerialAssumption
<1>2. \A d \in Consoles : sb[d][1] \in Bit
  BY <1>1 DEF TypeOK, Byte
<1> QED BY <1>2, OtherIsConsole DEF InputBit, Bit

(***************************************************************************)
(* Bytes k bits into their exchange: none at 0, one more by a shift on     *)
(* both sides, swapped at Width.                                           *)
(***************************************************************************)
LEMMA MixNone ==
  ASSUME NEW f \in Byte, NEW g \in Byte
  PROVE  Mix(f, g, 0) = f
<1>1. \A i \in 1 .. Width : i + 0 = i /\ i + 0 <= Width
  BY SerialAssumption
<1>2. f = [i \in 1 .. Width |-> f[i]]
  BY DEF Byte
<1> QED BY <1>1, <1>2 DEF Mix

LEMMA MixAll ==
  ASSUME NEW f \in Byte, NEW g \in Byte
  PROVE  Mix(f, g, Width) = g
<1>1. \A i \in 1 .. Width : i + Width - Width = i /\ ~(i + Width <= Width)
  BY SerialAssumption
<1>2. g = [i \in 1 .. Width |-> g[i]]
  BY DEF Byte
<1> QED BY <1>1, <1>2 DEF Mix

LEMMA MixMore ==
  ASSUME NEW f \in Byte, NEW g \in Byte, NEW k \in 0 .. Width - 1
  PROVE  Shifted(Mix(f, g, k), Mix(g, f, k)[1]) = Mix(f, g, k + 1)
<1>0. Width \in Nat /\ k \in Nat
  BY SerialAssumption
<1>1. 1 \in 1 .. Width /\ 1 + k <= Width
  BY SerialAssumption
<1>2. Mix(g, f, k)[1] = g[1 + k]
  BY <1>1 DEF Mix
<1>3. ASSUME NEW i \in 1 .. Width
      PROVE  (IF i < Width THEN Mix(f, g, k)[i + 1] ELSE g[1 + k]) = Mix(f, g, k + 1)[i]
  <2>1. CASE i < Width
    <3>1. i + 1 \in 1 .. Width /\ i + 1 + k = i + (k + 1) /\ i + 1 + k \in Nat
      BY <2>1, SerialAssumption
    <3>2. Mix(f, g, k)[i + 1] =
            IF i + 1 + k <= Width THEN f[i + 1 + k] ELSE g[i + 1 + k - Width]
      BY <3>1 DEF Mix
    <3>3. Mix(f, g, k + 1)[i] =
            IF i + (k + 1) <= Width THEN f[i + (k + 1)] ELSE g[i + (k + 1) - Width]
      BY DEF Mix
    <3>4. Mix(f, g, k)[i + 1] = Mix(f, g, k + 1)[i]
      BY <1>0, <3>1, <3>2, <3>3
    <3> QED BY <2>1, <3>4, Zenon
  <2>2. CASE ~(i < Width)
    <3>1. i = Width /\ ~(i + (k + 1) <= Width) /\ i + (k + 1) - Width = 1 + k
      BY <2>2, SerialAssumption
    <3>2. Mix(f, g, k + 1)[i] = g[i + (k + 1) - Width]
      BY <3>1 DEF Mix
    <3>3. Mix(f, g, k + 1)[i] = g[1 + k]
      BY <3>1, <3>2
    <3> QED BY <2>2, <3>3, Zenon
  <2> QED BY <2>1, <2>2
<1>4. Shifted(Mix(f, g, k), Mix(g, f, k)[1]) =
        [i \in 1 .. Width |-> IF i < Width THEN Mix(f, g, k)[i + 1] ELSE g[1 + k]]
  BY <1>2 DEF Shifted
<1>5. Mix(f, g, k + 1) = [i \in 1 .. Width |-> Mix(f, g, k + 1)[i]]
  BY DEF Mix
<1> QED BY <1>3, <1>4, <1>5

(***************************************************************************)
(* The invariant: types, an exchange in step, and IF blocked only in a     *)
(* console's own machine cycle.                                            *)
(***************************************************************************)
BlockedInTurn == \A c \in Consoles : blocked[c] => turn = c

Inv == TypeOK /\ ExchangeInStep /\ BlockedInTurn

(* A step that keeps the exchange in step, or marks it garbled. *)
LEMMA TrackInStep ==
  ASSUME TypeOK', NEW disturbed \in BOOLEAN, Track(disturbed),
         ~disturbed /\ start # Garbled /\ ~(\A c \in Consoles : progress'[c] = 0) =>
           \A c \in Consoles : /\ progress'[c] = progress'[A]
                               /\ sb'[c] = Mix(start[c], start[Other(c)], progress'[c])
  PROVE  ExchangeInStep'
<1>1. CASE \A c \in Consoles : progress'[c] = 0
  <2>1. start' = sb'
    BY <1>1 DEF Track
  <2>2. ASSUME NEW c \in Consoles
        PROVE  /\ progress'[c] = progress'[A]
               /\ sb'[c] = Mix(start'[c], start'[Other(c)], progress'[c])
    <3>1. progress'[c] = 0 /\ progress'[A] = 0
      BY <1>1 DEF Consoles
    <3>2. sb'[c] \in Byte /\ sb'[Other(c)] \in Byte
      BY OtherIsConsole DEF TypeOK
    <3> QED BY <2>1, <3>1, <3>2, MixNone
  <2> QED BY <2>2 DEF ExchangeInStep
<1>2. CASE ~(\A c \in Consoles : progress'[c] = 0)
  <2>1. start' = IF disturbed THEN Garbled ELSE start
    BY <1>2 DEF Track
  <2> QED BY <1>2, <2>1 DEF ExchangeInStep
<1> QED BY <1>1, <1>2

(* A step that leaves both ports and the history alone. *)
LEMMA SameInStep ==
  ASSUME ExchangeInStep, UNCHANGED <<sb, progress, start>>
  PROVE  ExchangeInStep'
BY DEF ExchangeInStep

LEMMA InitInv == Init => Inv
<1> SUFFICES ASSUME Init PROVE Inv
  OBVIOUS
<1>1. [i \in 1 .. Width |-> 0] \in Byte
  BY DEF Byte, Bit
<1>2. ASSUME NEW c \in Consoles PROVE DivBit(FALSE, div[c]) \in BOOLEAN
  <2>1. div[c] \in Nat
    BY SerialAssumption DEF Init
  <2> QED BY <2>1, DivBitBoolean
<1>3. sb \in [Consoles -> Byte] /\ start = sb
  BY <1>1 DEF Init
<1>4. TypeOK
  <2>1. prev_div_bit \in [Consoles -> BOOLEAN]
    BY <1>2 DEF Init
  <2>2. progress \in [Consoles -> 0 .. Width - 1]
    BY SerialAssumption DEF Init
  <2> QED BY <1>3, <2>1, <2>2 DEF Init, TypeOK
<1>5. ExchangeInStep
  <2>1. ASSUME NEW c \in Consoles
        PROVE  progress[c] = progress[A] /\ sb[c] = Mix(start[c], start[Other(c)], progress[c])
    <3>1. progress[c] = 0 /\ progress[A] = 0
      BY DEF Init, Consoles
    <3>2. sb[c] \in Byte /\ sb[Other(c)] \in Byte
      BY <1>3, OtherIsConsole
    <3> QED BY <1>3, <3>1, <3>2, MixNone
  <2> QED BY <2>1 DEF ExchangeInStep
<1>6. BlockedInTurn
  BY DEF Init, BlockedInTurn
<1> QED BY <1>4, <1>5, <1>6 DEF Inv

(* The accesses of the CPU. *)
LEMMA AccessInv ==
  ASSUME Inv, NEW c \in Consoles,
         WriteDiv(c) \/ WriteIF(c) \/ Acknowledge(c)
  PROVE  Inv'
<1> USE DEF Inv
<1>1. turn' = c /\ turn = NoTurn /\ UNCHANGED <<sb, scVars, progress, masterVars, attached, start>>
  BY DEF WriteDiv, WriteIF, Acknowledge, Access
<1>2. div' \in [Consoles -> 0 .. 2 * SlowHalf - 1]
  BY SerialAssumption DEF WriteDiv, WriteIF, Acknowledge, TypeOK
<1>3. requested' \in [Consoles -> BOOLEAN]
  BY DEF WriteDiv, WriteIF, Acknowledge, TypeOK
<1>4. blocked' \in [Consoles -> BOOLEAN] /\ \A d \in Consoles : blocked'[d] => d = c
  <2>1. \A d \in Consoles : ~blocked[d]
    BY <1>1, SerialAssumption DEF BlockedInTurn, Consoles
  <2> QED BY <2>1 DEF WriteDiv, WriteIF, Acknowledge, TypeOK
<1>5. TypeOK'
  BY <1>1, <1>2, <1>3, <1>4 DEF TypeOK, scVars, masterVars
<1> QED BY <1>1, <1>4, <1>5, SameInStep DEF BlockedInTurn

LEMMA NoneBlocked ==
  ASSUME Inv, turn = NoTurn
  PROVE  \A c \in Consoles : ~blocked[c]
BY SerialAssumption DEF Inv, BlockedInTurn, Consoles

(* The history of a step is a pair of bytes, or garbled. *)
LEMMA TrackType ==
  ASSUME TypeOK, sb' \in [Consoles -> Byte], NEW disturbed \in BOOLEAN, Track(disturbed)
  PROVE  start' \in [Consoles -> Byte] \cup {Garbled}
<1>1. start' \in {sb', Garbled, start}
  BY DEF Track
<1> QED BY <1>1 DEF TypeOK

LEMMA WriteSbInv ==
  ASSUME Inv, NEW c \in Consoles, WriteSb(c)
  PROVE  Inv'
<1> USE DEF Inv
<1>1. sb' \in [Consoles -> Byte]
  BY SerialAssumption DEF WriteSb, TypeOK
<1>2. start' \in [Consoles -> Byte] \cup {Garbled}
  BY <1>1, TrackType DEF WriteSb
<1>3. TypeOK'
  BY <1>1, <1>2 DEF WriteSb, Access, TypeOK, scVars, masterVars
<1>4. ExchangeInStep'
  BY <1>3, TrackInStep DEF WriteSb
<1>5. BlockedInTurn'
  BY NoneBlocked DEF WriteSb, Access, BlockedInTurn
<1> QED BY <1>3, <1>4, <1>5

LEMMA WriteScInv ==
  ASSUME Inv, NEW c \in Consoles, WriteSc(c)
  PROVE  Inv'
<1> USE DEF Inv
<1>1. Shifted(sb[c], 1) \in Byte
  <2>1. sb[c] \in Byte /\ 1 \in Bit
    BY DEF TypeOK, Bit
  <2> QED BY <2>1, ShiftedIsByte
<1>2. sb' \in [Consoles -> Byte]
  BY <1>1 DEF WriteSc, TypeOK
<1>3. progress' \in [Consoles -> 0 .. Width - 1]
  BY SerialAssumption DEF WriteSc, AfterAbort, TypeOK
<1>4. Active(c) \in BOOLEAN
  BY DEF Active, TypeOK
<1>5. start' \in [Consoles -> Byte] \cup {Garbled}
  BY <1>2, <1>4, TrackType DEF WriteSc
<1>6. /\ transfer_enable' \in [Consoles -> BOOLEAN]
      /\ clock_speed' \in [Consoles -> BOOLEAN]
      /\ clock_select' \in [Consoles -> BOOLEAN]
      /\ prev_div_bit' \in [Consoles -> BOOLEAN]
  <2>1. PICK enable \in BOOLEAN, select \in BOOLEAN, speed \in Speeds :
          /\ transfer_enable' = [transfer_enable EXCEPT ![c] = enable]
          /\ clock_speed' = [clock_speed EXCEPT ![c] = speed]
          /\ clock_select' = [clock_select EXCEPT ![c] = select]
          /\ prev_div_bit' = [prev_div_bit EXCEPT ![c] = DivBit(speed, div[c])]
    BY DEF WriteSc
  <2>2. speed \in BOOLEAN /\ div[c] \in Nat
    BY SerialAssumption DEF TypeOK
  <2>3. DivBit(speed, div[c]) \in BOOLEAN
    BY <2>2, DivBitBoolean
  <2> QED BY <2>1, <2>2, <2>3 DEF TypeOK
<1>7. TypeOK'
  BY <1>2, <1>3, <1>5, <1>6 DEF WriteSc, Access, TypeOK
<1>8. ExchangeInStep'
  <2>1. ~Active(c) => sb' = sb /\ progress' = progress
    BY DEF WriteSc, AfterAbort
  <2>2. Track(Active(c))
    BY DEF WriteSc
  <2> QED BY <1>4, <1>7, <2>1, <2>2, TrackInStep DEF ExchangeInStep
<1>9. BlockedInTurn'
  BY NoneBlocked DEF WriteSc, Access, BlockedInTurn
<1> QED BY <1>7, <1>8, <1>9

(***************************************************************************)
(* The shift of one bit.                                                   *)
(***************************************************************************)
LEMMA ShiftType ==
  ASSUME TypeOK, NEW c \in Consoles, ShiftBits(c)
  PROVE  /\ sb' \in [Consoles -> Byte]
         /\ progress' \in [Consoles -> 0 .. Width - 1]
         /\ transfer_enable' \in [Consoles -> BOOLEAN]
         /\ requested' \in [Consoles -> BOOLEAN]
<1>1. ASSUME NEW d \in Consoles
      PROVE  /\ Shifted(sb[d], InputBit(c)) \in Byte
             /\ Shifted(sb[d], sb[c][1]) \in Byte
             /\ sb[d] \in Byte
  BY InputIsBit, ShiftedIsByte DEF TypeOK
<1>2. sb' \in [Consoles -> Byte]
  BY <1>1 DEF ShiftBits
<1>3. ASSUME NEW d \in Consoles
      PROVE  (IF d \notin Shifting(c) THEN progress[d]
              ELSE IF Finished(d) THEN 0 ELSE progress[d] + 1) \in 0 .. Width - 1
  BY SerialAssumption DEF TypeOK, Finished
<1>4. progress' \in [Consoles -> 0 .. Width - 1]
  BY <1>3 DEF ShiftBits
<1>5. transfer_enable' \in [Consoles -> BOOLEAN]
  BY DEF ShiftBits, TypeOK
<1>6. requested' \in [Consoles -> BOOLEAN]
  BY DEF ShiftBits, TypeOK
<1> QED BY <1>2, <1>4, <1>5, <1>6

(* Over the cable both ports shift in the first bit of the other. *)
LEMMA ShiftBoth ==
  ASSUME TypeOK, NEW c \in Consoles, ShiftBits(c), attached, NEW d \in Consoles
  PROVE  /\ sb'[d] = Shifted(sb[d], sb[Other(d)][1])
         /\ progress'[d] = IF Finished(d) THEN 0 ELSE progress[d] + 1
         /\ transfer_enable'[d] <=> (transfer_enable[d] /\ ~Finished(d))
<1>1. Shifting(c) = Consoles /\ InputBit(c) = sb[Other(c)][1]
  BY DEF Shifting, InputBit
<1>2. d # c => c = Other(d)
  BY OtherIsConsole
<1> QED BY <1>1, <1>2 DEF ShiftBits

LEMMA ShiftMixes ==
  ASSUME Inv, start # Garbled, NEW c \in Consoles, ShiftBits(c), attached,
         NEW d \in Consoles
  PROVE  sb'[d] = Mix(start[d], start[Other(d)], progress[A] + 1)
<1> DEFINE e == Other(d)
<1>1. e \in Consoles /\ Other(e) = d
  BY OtherIsConsole
<1>2. start[d] \in Byte /\ start[e] \in Byte
  BY <1>1 DEF Inv, TypeOK
<1>3. /\ sb[d] = Mix(start[d], start[e], progress[A])
      /\ sb[e] = Mix(start[e], start[d], progress[A])
  BY <1>1 DEF Inv, ExchangeInStep
<1>4. progress[A] \in 0 .. Width - 1
  BY DEF Inv, TypeOK, Consoles
<1>5. sb'[d] = Shifted(sb[d], sb[e][1])
  BY ShiftBoth DEF Inv
<1> QED BY <1>2, <1>3, <1>4, <1>5, MixMore

LEMMA TickInv ==
  ASSUME Inv, NEW c \in Consoles, Tick(c)
  PROVE  Inv'
<1> USE DEF Inv
<1>1. /\ div' \in [Consoles -> 0 .. 2 * SlowHalf - 1]
      /\ prev_div_bit' \in [Consoles -> BOOLEAN]
      /\ toggle' \in [Consoles -> BOOLEAN]
      /\ blocked' \in [Consoles -> BOOLEAN]
      /\ UNCHANGED <<clock_speed, clock_select, attached>>
      /\ turn' = NoTurn
  <2>1. NextDiv(c) \in 0 .. 2 * SlowHalf - 1
    BY NextDivInRange
  <2>2. clock_speed[c] \in BOOLEAN /\ NextDiv(c) \in Nat
    BY <2>1, SerialAssumption DEF TypeOK
  <2>3. DivBit(clock_speed[c], NextDiv(c)) \in BOOLEAN
    BY <2>2, DivBitBoolean
  <2>4. FallingEdge(c) \in BOOLEAN
    BY DEF FallingEdge, Active
  <2> QED BY <2>1, <2>3, <2>4 DEF Tick, TypeOK
<1>2. BlockedInTurn'
  BY SerialAssumption DEF Tick, BlockedInTurn, TypeOK, Consoles
<1>3. CASE ShiftBits(c) /\ Track(~attached)
  <2>1. (~attached) \in BOOLEAN
    BY DEF TypeOK
  <2>2. TypeOK'
    BY <1>1, <1>3, <2>1, ShiftType, TrackType DEF TypeOK
  <2>3. ASSUME attached, start # Garbled, ~(\A d \in Consoles : progress'[d] = 0),
               NEW d \in Consoles
        PROVE  progress'[d] = progress[A] + 1
    <3>1. \A e \in Consoles : progress[e] = progress[A]
      BY <2>3 DEF ExchangeInStep
    <3>2. \A e \in Consoles : progress'[e] = IF Finished(e) THEN 0 ELSE progress[e] + 1
      BY <1>3, <2>3, ShiftBoth
    <3>3. progress[A] # Width - 1
      BY <2>3, <3>1, <3>2 DEF Finished
    <3> QED BY <3>1, <3>2, <3>3 DEF Finished
  <2>4. A \in Consoles
    BY DEF Consoles
  <2> QED BY <1>2, <1>3, <2>1, <2>2, <2>3, <2>4, ShiftMixes, TrackInStep
<1>4. CASE UNCHANGED <<sb, progress, transfer_enable, requested, start>>
  <2>1. TypeOK'
    BY <1>1, <1>4 DEF TypeOK
  <2> QED BY <1>2, <1>4, <2>1, SameInStep
<1> QED BY <1>3, <1>4 DEF Tick

LEMMA NextInv ==
  ASSUME Inv, [Next]_vars
  PROVE  Inv'
<1>1. CASE UNCHANGED vars
  <2>1. TypeOK' /\ BlockedInTurn'
    BY <1>1 DEF Inv, TypeOK, BlockedInTurn, vars, scVars, masterVars
  <2> QED BY <1>1, <2>1, SameInStep DEF Inv, vars
<1>2. CASE Plug
  <2>1. TypeOK' /\ BlockedInTurn'
    BY <1>2 DEF Plug, Inv, TypeOK, BlockedInTurn, scVars, masterVars
  <2> QED BY <1>2, <2>1, SameInStep DEF Inv, Plug
<1>3. ASSUME NEW c \in Consoles,
             WriteSb(c) \/ WriteSc(c) \/ WriteDiv(c) \/ WriteIF(c) \/ Acknowledge(c) \/ Tick(c)
      PROVE  Inv'
  BY <1>3, WriteSbInv, WriteScInv, AccessInv, TickInv
<1> QED BY <1>1, <1>2, <1>3 DEF Next

LEMMA InvHolds == Spec => []Inv
BY InitInv, NextInv, PTL DEF Spec

(***************************************************************************)
(* Types hold for every width of SB and every pair of clocks.              *)
(***************************************************************************)
THEOREM SerialTypeCorrect == Spec => []TypeOK
<1>1. Inv => TypeOK
  BY DEF Inv
<1> QED BY <1>1, InvHolds, PTL

(***************************************************************************)
(* serial_read_bit and serial_write_bit keep an undisturbed exchange in    *)
(* step on both sides, whichever of them is the master at each bit, and in *)
(* the range of the bits of a byte.                                        *)
(***************************************************************************)
THEOREM ExchangeAlwaysInStep == Spec => []PortsInStep
<1>1. Inv => PortsInStep
  BY DEF Inv, PortsInStep
<1> QED BY <1>1, InvHolds, PTL

(* Which steps complete a byte on a console. *)
LEMMA OnlyShiftsFinish ==
  ASSUME Inv, Next, \A c \in Consoles : progress[c] = Width - 1 /\ progress'[c] = 0
  PROVE  \E c \in Consoles : ShiftBits(c) /\ attached
<1>1. Width - 1 # 0
  BY SerialAssumption
<1>2. /\ progress \in [Consoles -> 0 .. Width - 1]
      /\ A \in Consoles
  BY DEF Inv, TypeOK, Consoles
<1>3. progress' # progress
  BY <1>1, <1>2
<1>4. PICK c \in Consoles : WriteSc(c) \/ Tick(c)
  BY <1>3 DEF Next, WriteSb, WriteDiv, WriteIF, Acknowledge, Plug
<1>5. Other(c) \in Consoles /\ Other(c) # c
  BY OtherIsConsole
<1>6. progress'[Other(c)] # progress[Other(c)]
  BY <1>1, <1>5
<1>7. ~WriteSc(c)
  BY <1>2, <1>5, <1>6 DEF WriteSc, AfterAbort
<1>8. ShiftBits(c)
  BY <1>4, <1>7, <1>3 DEF Tick
<1>9. Other(c) \in Shifting(c)
  BY <1>5, <1>6, <1>8 DEF ShiftBits
<1> QED BY <1>5, <1>8, <1>9 DEF Shifting

(***************************************************************************)
(* An undisturbed exchange swaps the bytes and closes both transfers.      *)
(***************************************************************************)
THEOREM ByteSwap == Spec => BytesSwapped
<1>1. Inv /\ [Next]_vars =>
        [start # Garbled /\ (\A c \in Consoles : progress[c] = Width - 1 /\ progress'[c] = 0)
           => \A c \in Consoles : sb'[c] = start[Other(c)] /\ ~transfer_enable'[c]]_vars
  <2> SUFFICES ASSUME Inv, Next, start # Garbled,
                      \A c \in Consoles : progress[c] = Width - 1 /\ progress'[c] = 0,
                      NEW d \in Consoles
               PROVE  sb'[d] = start[Other(d)] /\ ~transfer_enable'[d]
    OBVIOUS
  <2>1. PICK c \in Consoles : ShiftBits(c) /\ attached
    BY OnlyShiftsFinish
  <2>2. sb'[d] = Mix(start[d], start[Other(d)], progress[A] + 1)
    BY <2>1, ShiftMixes
  <2>3. progress[A] + 1 = Width
    BY SerialAssumption DEF Consoles
  <2>4. start[d] \in Byte /\ start[Other(d)] \in Byte
    BY OtherIsConsole DEF Inv, TypeOK
  <2>5. sb'[d] = start[Other(d)]
    BY <2>2, <2>3, <2>4, MixAll
  <2>6. ~transfer_enable'[d]
    BY <2>1, ShiftBoth DEF Inv, Finished
  <2> QED BY <2>5, <2>6
<1> QED BY <1>1, InvHolds, PTL DEF Spec, BytesSwapped

(***************************************************************************)
(* A transfer that its last bit closes is signalled to the console's CPU,  *)
(* since only the CPU of the console whose cycle it is can have shut out   *)
(* the serial port.                                                        *)
(***************************************************************************)
THEOREM CompletionAlwaysSignalled == Spec => CompletionSignalled
<1>1. Inv /\ [Next]_vars =>
        [\A c \in Consoles :
           transfer_enable[c] /\ ~transfer_enable'[c] /\ turn' # c
             => requested'[c] \/ (turn = c /\ blocked[c])]_vars
  <2> SUFFICES ASSUME Inv, Next, NEW d \in Consoles,
                      transfer_enable[d], ~transfer_enable'[d], turn' # d
               PROVE  requested'[d] \/ (turn = d /\ blocked[d])
    OBVIOUS
  <2>1. PICK c \in Consoles : WriteSc(c) \/ Tick(c)
    BY DEF Next, WriteSb, WriteDiv, WriteIF, Acknowledge, Plug, scVars
  <2>2. ~WriteSc(c)
    BY DEF WriteSc, Access, Inv, TypeOK
  <2>3. ShiftBits(c)
    BY <2>1, <2>2 DEF Tick
  <2>4. d \in Shifting(c) /\ Finished(d)
    BY <2>3 DEF ShiftBits
  <2>5. CASE blocked[d]
    BY <2>5 DEF Inv, BlockedInTurn
  <2>6. CASE ~blocked[d]
    BY <2>3, <2>4, <2>6 DEF ShiftBits, Signals
  <2> QED BY <2>5, <2>6
<1> QED BY <1>1, InvHolds, PTL DEF Spec, CompletionSignalled

(***************************************************************************)
(* An undisturbed exchange ends with the bytes swapped and both CPUs told. *)
(***************************************************************************)
THEOREM ExchangeAlwaysCompletes == Spec => ExchangeCompletes
<1> QED BY ByteSwap, CompletionAlwaysSignalled DEF ExchangeCompletes

=============================================================================
