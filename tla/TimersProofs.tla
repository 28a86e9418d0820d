---------------------------- MODULE TimersProofs ----------------------------
(***************************************************************************)
(* Proofs about the timer, for every size of its counters, every choice of *)
(* divider bits and both speeds.                                           *)
(***************************************************************************)
EXTENDS Timers, TLAPS

(* A falling edge leaves the latch low, so the step after it sees no edge: *)
(* this is what makes the three invariants of the timer inductive.         *)
IncrementLeavesLatchLow ==
  /\ incs \in 0 .. 1
  /\ turn = "timers" /\ incs = 1 => ~last_div_bit_and_tac_enable

PendingLeavesLatchLow ==
  turn = "cpu" /\ tima_state = Pending => ~last_div_bit_and_tac_enable

ReloadEdgeLeavesLatchLow ==
  tima_state = Reload =>
    \/ tima = tma
    \/ tima = tma + 1 /\ (turn = "cpu" => ~last_div_bit_and_tac_enable)

IInv ==
  /\ TypeOK
  /\ EdgeLatchFresh
  /\ PendingReadsZero
  /\ IncrementLeavesLatchLow
  /\ PendingLeavesLatchLow
  /\ ReloadEdgeLeavesLatchLow

(* The detector's input is a truth value. *)
LEMMA InputType ==
  ASSUME NEW d, NEW tc \in Tac
  PROVE  DivBitAndEnable(d, tc) \in BOOLEAN
BY DEF DivBitAndEnable, TestBit, Tac

(* The divider stays below its size. *)
LEMMA DivStep ==
  ASSUME NEW d \in 0 .. DivSize - 1
  PROVE  (d + 4) % DivSize \in 0 .. DivSize - 1
BY TimersAssumption

LEMMA InitIInv == Init => IInv
<1> SUFFICES ASSUME Init PROVE IInv
  OBVIOUS
<1> USE TimersAssumption DEF Init, ResetInterrupts
<1>1. TypeOK
  <2>1. InterruptsTypeOK /\ UnusedIF \subseteq iflag
    <3>1. iflag = {5, 6, 7, 0} /\ UnusedIF \subseteq iflag
      BY DEF UnusedIF, VBlank
    <3>2. iflag \subseteq 0 .. 7
      BY <3>1
    <3> QED
      BY <3>1, <3>2 DEF InterruptsTypeOK
  <2>2. tac \in Tac
    BY DEF Tac, Selector
  <2>3. /\ div16 \in 0 .. DivSize - 1
        /\ tima \in Byte
        /\ tma \in Byte
        /\ tima_state \in {None, Reload, Pending}
        /\ round \in 0 .. Rounds - 1
        /\ incs \in Nat
    BY DEF Byte, None, Reload, Pending, Rounds
  <2> QED
    BY <2>1, <2>2, <2>3 DEF TypeOK
<1>2. EdgeLatchFresh
  BY DEF EdgeLatchFresh, DivBitAndEnable
<1>3. /\ PendingReadsZero
      /\ IncrementLeavesLatchLow
      /\ PendingLeavesLatchLow
      /\ ReloadEdgeLeavesLatchLow
  BY DEF PendingReadsZero, IncrementLeavesLatchLow, PendingLeavesLatchLow,
         ReloadEdgeLeavesLatchLow, None, Reload, Pending
<1> QED
  BY <1>1, <1>2, <1>3 DEF IInv

(***************************************************************************)
(* What one pass of the edge detector does to the counter, for a counter n *)
(* and a reload state rs as they are when it runs.                         *)
(***************************************************************************)
LEMMA EdgeStep ==
  ASSUME last_div_bit_and_tac_enable \in BOOLEAN, incs \in Nat,
         NEW d \in 0 .. DivSize - 1, NEW tc \in Tac, NEW n \in Byte,
         NEW rs \in {None, Reload, Pending},
         OnFallingEdgeIncTima(d, tc, n, rs)
  PROVE  /\ div16' \in 0 .. DivSize - 1
         /\ tac' \in Tac
         /\ last_div_bit_and_tac_enable' \in BOOLEAN
         /\ EdgeLatchFresh'
         /\ tima' \in Byte
         /\ tima_state' \in {None, Reload, Pending}
         /\ \/ tima' = n /\ tima_state' = rs /\ incs' = IncsSoFar
            \/ /\ last_div_bit_and_tac_enable
               /\ ~last_div_bit_and_tac_enable'
               /\ incs' = IncsSoFar + 1
               /\ \/ tima' = 0 /\ tima_state' = Pending
                  \/ tima' = n + 1 /\ tima_state' = rs
<1> DEFINE level == DivBitAndEnable(d, tc)
<1>1. level \in BOOLEAN
  BY InputType
<1>2. /\ div16' = d
      /\ tac' = tc
      /\ last_div_bit_and_tac_enable' = level
      /\ EdgeLatchFresh'
  BY DEF OnFallingEdgeIncTima, EdgeLatchFresh
<1> HIDE DEF level
<1>3. CASE last_div_bit_and_tac_enable /\ ~level
  <2>1. /\ tima' = IF Overflows(n) THEN 0 ELSE n + 1
        /\ tima_state' = IF Overflows(n) THEN Pending ELSE rs
        /\ incs' = IncsSoFar + 1
    BY <1>3 DEF OnFallingEdgeIncTima, level
  <2> QED
    BY <1>1, <1>2, <1>3, <2>1, TimersAssumption DEF Byte, Overflows
<1>4. CASE ~(last_div_bit_and_tac_enable /\ ~level)
  <2>1. /\ tima' = n
        /\ tima_state' = rs
        /\ incs' = IncsSoFar + 0
    BY <1>4 DEF OnFallingEdgeIncTima, level
  <2> QED
    BY <1>1, <1>2, <2>1 DEF IncsSoFar
<1> QED
  BY <1>3, <1>4

(* The steps of the CPU. *)
LEMMA CpuWritePreserves == IInv /\ CpuWrite => IInv'
<1> SUFFICES ASSUME IInv, CpuWrite PROVE IInv'
  OBVIOUS
<1> USE TimersAssumption
<1> DEFINE Others == /\ ienable' \in SUBSET (0 .. 7)
                     /\ iflag' \subseteq 0 .. 7 /\ UnusedIF \subseteq iflag'
                     /\ block_interrupts' \in BOOLEAN
                     /\ round' \in 0 .. Rounds - 1
                     /\ wrote_if' \in BOOLEAN
<1>1. turn = "cpu" /\ turn' = "timers" /\ IncsSoFar = 0
  BY DEF CpuWrite, IncsSoFar
<1>2. Others
  <2>1. CASE UNCHANGED <<iflag, ienable, block_interrupts>>
    BY <2>1 DEF IInv, TypeOK, InterruptsTypeOK, CpuWrite
  <2>2. CASE \E bits \in {{}, {Timer}} : WriteIF(bits)
    <3>1. iflag' = {5, 6, 7} \/ iflag' = {5, 6, 7, 2}
      BY <2>2 DEF WriteIF, UnusedIF, Timer
    <3>2. iflag' \subseteq 0 .. 7 /\ UnusedIF \subseteq iflag'
      BY <3>1 DEF UnusedIF
    <3> QED
      BY <2>2, <3>2 DEF WriteIF, IInv, TypeOK, InterruptsTypeOK, CpuWrite
  <2> QED
    BY <2>1, <2>2 DEF CpuWrite, WriteDiv, WriteTac, WriteTima, WriteTma, NoTimerWrite
<1> HIDE DEF Others
(* The two writes that reach the edge detector. *)
<1>3. ASSUME NEW d \in 0 .. DivSize - 1, NEW tc \in Tac,
             OnFallingEdgeIncTima(d, tc, tima, tima_state), tma' = tma
      PROVE  IInv'
  <2>1. /\ div16' \in 0 .. DivSize - 1
        /\ tac' \in Tac
        /\ last_div_bit_and_tac_enable' \in BOOLEAN
        /\ EdgeLatchFresh'
        /\ tima' \in Byte
        /\ tima_state' \in {None, Reload, Pending}
        /\ \/ tima' = tima /\ tima_state' = tima_state /\ incs' = 0
           \/ /\ last_div_bit_and_tac_enable
              /\ ~last_div_bit_and_tac_enable'
              /\ incs' = 1
              /\ \/ tima' = 0 /\ tima_state' = Pending
                 \/ tima' = tima + 1 /\ tima_state' = tima_state
    BY <1>1, <1>3, EdgeStep DEF IInv, TypeOK
  <2>2. TypeOK'
    BY <1>1, <1>2, <1>3, <2>1 DEF Others, IInv, TypeOK, InterruptsTypeOK
  <2>3. /\ PendingReadsZero'
        /\ IncrementLeavesLatchLow'
        /\ PendingLeavesLatchLow'
        /\ ReloadEdgeLeavesLatchLow'
    BY <1>1, <1>3, <2>1 DEF IInv, TypeOK, Byte, PendingReadsZero,
       IncrementLeavesLatchLow, PendingLeavesLatchLow, ReloadEdgeLeavesLatchLow,
       None, Reload, Pending
  <2> QED
    BY <2>1, <2>2, <2>3 DEF IInv
(* The writes that leave the edge detector alone. *)
<1>4. ASSUME UNCHANGED <<div16, tac, last_div_bit_and_tac_enable>>, incs' = 0,
             tima' \in Byte, tma' \in Byte,
             tima_state' \in {None, Reload, Pending},
             tima_state' = Pending => tima' = 0,
             tima_state' = Reload => tima' = tma' \/ tima' = tma' + 1
      PROVE  IInv'
  <2>1. TypeOK'
    BY <1>1, <1>2, <1>4 DEF Others, IInv, TypeOK, InterruptsTypeOK
  <2>2. EdgeLatchFresh'
    BY <1>4 DEF IInv, EdgeLatchFresh, DivBitAndEnable
  <2> QED
    BY <1>1, <1>4, <2>1, <2>2 DEF IInv, PendingReadsZero, IncrementLeavesLatchLow,
       PendingLeavesLatchLow, ReloadEdgeLeavesLatchLow
<1>5. CASE WriteDiv
  <2>1. 0 \in 0 .. DivSize - 1 /\ tac \in Tac
    BY DEF IInv, TypeOK
  <2> QED
    BY <1>3, <1>5, <2>1 DEF WriteDiv
<1>6. ASSUME NEW tc \in Tac, WriteTac(tc) PROVE IInv'
  <2>1. div16 \in 0 .. DivSize - 1
    BY DEF IInv, TypeOK
  <2> QED
    BY <1>3, <1>6, <2>1 DEF WriteTac
<1>7. ASSUME NEW value \in Byte, WriteTima(value) PROVE IInv'
  <2> USE DEF IInv, TypeOK, PendingReadsZero, ReloadEdgeLeavesLatchLow,
              None, Reload, Pending
  <2> QED
    BY <1>1, <1>4, <1>7 DEF WriteTima
<1>8. ASSUME NEW value \in Byte, WriteTma(value) PROVE IInv'
  <2> USE DEF IInv, TypeOK, PendingReadsZero, ReloadEdgeLeavesLatchLow,
              None, Reload, Pending
  <2> QED
    BY <1>1, <1>4, <1>8 DEF WriteTma
<1>9. CASE incs' = IncsSoFar /\ UNCHANGED <<tma, timerVars>>
  BY <1>1, <1>4, <1>9 DEF timerVars, IInv, TypeOK, PendingReadsZero,
     ReloadEdgeLeavesLatchLow
<1> QED
  BY <1>5, <1>6, <1>7, <1>8, <1>9 DEF CpuWrite, NoTimerWrite, timerVars

(* The step of the timer. *)
LEMMA TickPreserves == IInv /\ Tick => IInv'
<1> SUFFICES ASSUME IInv, Tick PROVE IInv'
  OBVIOUS
<1> USE TimersAssumption
<1> DEFINE n  == IF tima_state = Pending THEN tma ELSE tima
           rs == IF tima_state = Pending THEN Reload ELSE None
<1>1. turn = "timers" /\ turn' = "cpu" /\ IncsSoFar = incs /\ tma' = tma
  BY DEF Tick, IncsSoFar
<1>2. n \in Byte /\ rs \in {None, Reload, Pending}
  BY DEF IInv, TypeOK
<1>3. OnFallingEdgeIncTima((div16 + 4) % DivSize, tac, n, rs)
  BY DEF Tick
<1>4. /\ n = tma \/ rs = None
      /\ rs # Pending
  BY DEF None, Reload, Pending
<1> HIDE DEF n, rs
<1>5. /\ div16' \in 0 .. DivSize - 1
      /\ tac' \in Tac
      /\ last_div_bit_and_tac_enable' \in BOOLEAN
      /\ EdgeLatchFresh'
      /\ tima' \in Byte
      /\ tima_state' \in {None, Reload, Pending}
      /\ \/ tima' = n /\ tima_state' = rs /\ incs' = incs
         \/ /\ last_div_bit_and_tac_enable
            /\ ~last_div_bit_and_tac_enable'
            /\ incs' = incs + 1
            /\ \/ tima' = 0 /\ tima_state' = Pending
               \/ tima' = n + 1 /\ tima_state' = rs
  <2>1. (div16 + 4) % DivSize \in 0 .. DivSize - 1
    BY DivStep DEF IInv, TypeOK
  <2> QED
    BY <1>1, <1>2, <1>3, <2>1, EdgeStep DEF IInv, TypeOK
<1>6. InterruptsTypeOK' /\ (UnusedIF \subseteq iflag)'
  <2>1. iflag' \in {iflag, iflag \cup {2}}
    BY DEF Tick, Raised, Timer
  <2>2. ienable' = ienable /\ block_interrupts' \in BOOLEAN
    BY DEF Tick, TickT3
  <2> QED
    BY <2>1, <2>2 DEF IInv, TypeOK, InterruptsTypeOK
<1>7. round' \in 0 .. Rounds - 1
  BY DEF Tick, Rounds, IInv, TypeOK
<1>8. TypeOK'
  <2>1. incs' \in Nat
    BY <1>5 DEF IInv, TypeOK
  <2>2. tma' \in Byte /\ wrote_if' \in BOOLEAN
    BY <1>1 DEF IInv, TypeOK, Tick
  <2> QED
    BY <1>1, <1>5, <1>6, <1>7, <2>1, <2>2 DEF TypeOK
<1>9. /\ PendingReadsZero'
      /\ IncrementLeavesLatchLow'
      /\ PendingLeavesLatchLow'
      /\ ReloadEdgeLeavesLatchLow'
  BY <1>1, <1>2, <1>4, <1>5 DEF IInv, TypeOK, Byte, PendingReadsZero,
     IncrementLeavesLatchLow, PendingLeavesLatchLow, ReloadEdgeLeavesLatchLow,
     None, Reload, Pending
<1> QED
  BY <1>5, <1>8, <1>9 DEF IInv

(* The strengthened invariant holds in every reachable state. *)
LEMMA Invariance == Spec => []IInv
<1>1. IInv /\ UNCHANGED vars => IInv'
  BY DEF vars, timerVars, IInv, TypeOK, InterruptsTypeOK, EdgeLatchFresh,
     DivBitAndEnable, PendingReadsZero, IncrementLeavesLatchLow,
     PendingLeavesLatchLow, ReloadEdgeLeavesLatchLow
<1>2. IInv /\ [Next]_vars => IInv'
  BY <1>1, CpuWritePreserves, TickPreserves DEF Next
<1> QED
  BY InitIInv, <1>2, PTL DEF Spec

(* Every register of the timer keeps its width and its state (timers.h). *)
THEOREM TypeCorrect == Spec => []TypeOK
<1>1. IInv => TypeOK
  BY DEF IInv
<1> QED
  BY <1>1, Invariance, PTL

(* The latch of the edge detector is never stale: each of the paths that   *)
(* change the divider or TAC runs the detector.                            *)
THEOREM EdgeLatchIsFresh == Spec => []EdgeLatchFresh
<1>1. IInv => EdgeLatchFresh
  BY DEF IInv
<1> QED
  BY <1>1, Invariance, PTL

(* A glitch of a DIV or TAC write and the tick of the same machine cycle   *)
(* never both advance TIMA.                                                *)
THEOREM NoDoubleIncrement == Spec => []OneIncrementPerCycle
<1>1. IInv => OneIncrementPerCycle
  BY DEF IInv, IncrementLeavesLatchLow, OneIncrementPerCycle
<1> QED
  BY <1>1, Invariance, PTL

(* The two cycles after an overflow are those of the diagram in            *)
(* timers.cpp: TIMA reads 0 in the first and TMA in the second.            *)
THEOREM OverflowDiagram == Spec => []OverflowAsInDiagram
<1>1. IInv => OverflowAsInDiagram
  BY DEF IInv, ReloadEdgeLeavesLatchLow, OverflowAsInDiagram, ReloadMirrorsTma
<1> QED
  BY <1>1, Invariance, PTL

(***************************************************************************)
(* At single speed a reload requests its interrupt unless the CPU writes   *)
(* IF in the very machine cycle of the reload.  (At double speed it does   *)
(* not hold: the block outlives the machine cycle of the write.)           *)
(***************************************************************************)
BlockedOnlyByThisCycle ==
  /\ turn = "cpu" => ~block_interrupts
  /\ block_interrupts => wrote_if

THEOREM RequestLost == ASSUME ~DoubleSpeed PROVE Spec => RequestLostOnlyByIFWrite
<1>1. Init => BlockedOnlyByThisCycle
  BY DEF Init, ResetInterrupts, BlockedOnlyByThisCycle
<1>2. TypeOK /\ BlockedOnlyByThisCycle /\ [Next]_vars => BlockedOnlyByThisCycle'
  <2> SUFFICES ASSUME TypeOK, BlockedOnlyByThisCycle, [Next]_vars
               PROVE  BlockedOnlyByThisCycle'
    OBVIOUS
  <2>1. CASE CpuWrite
    BY <2>1 DEF CpuWrite, WriteDiv, WriteTac, WriteTima, WriteTma, NoTimerWrite,
       WriteIF, BlockedOnlyByThisCycle
  <2>2. CASE Tick
    <3>1. round = Rounds - 1
      BY DEF Rounds, TypeOK
    <3>2. ~block_interrupts'
      BY <2>2, <3>1, Zenon DEF Tick, TickT3
    <3> QED
      BY <3>2 DEF BlockedOnlyByThisCycle
  <2>3. CASE UNCHANGED vars
    BY <2>3 DEF vars, BlockedOnlyByThisCycle
  <2> QED
    BY <2>1, <2>2, <2>3 DEF Next
<1>3. BlockedOnlyByThisCycle
        => (Tick /\ tima_state = Pending => Timer \in iflag' \/ wrote_if)
  BY DEF BlockedOnlyByThisCycle, Tick, Raised
<1> QED
  BY <1>1, <1>2, <1>3, TypeCorrect, PTL DEF Spec, RequestLostOnlyByIFWrite

(* Whatever is written and whenever: the latch is fresh, no edge counts    *)
(* twice, and an overflow takes its two cycles (timers.cpp).               *)
THEOREM TimerAlwaysInStep == Spec => []TimerInStep
<1>1. EdgeLatchFresh /\ OneIncrementPerCycle /\ OverflowAsInDiagram => TimerInStep
  BY DEF TimerInStep
<1> QED
  BY <1>1, EdgeLatchIsFresh, NoDoubleIncrement, OverflowDiagram, PTL

=============================================================================
