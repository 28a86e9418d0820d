---------------------------- MODULE RunLoopProofs ----------------------------
(***************************************************************************)
(* What holds of the frame loops for any burst, any artificial frame and   *)
(* any frame of the PPU; and of the input polling for any range of delays. *)
(***************************************************************************)
EXTENDS RunLoop, InputPolling, TLAPS

(***************************************************************************)
(* The cycles of a frame, measured against the dot counter: the counting   *)
(* loop takes Artificial cycles at most, and from then on each cycle moves *)
(* the PPU by 4 dots towards the next VBlank, but for those it is held.    *)
(***************************************************************************)
InBlank(n, d, h) == 4 * n <= 4 * Artificial + d + h - VisibleDots
BeforeBlank(n, d, h) == 4 * n <= 4 * Artificial + d + h + FrameDots - VisibleDots

RenderedInv ==
  /\ VBlank => InBlank(frame_cycles, dot, held)
  /\ ~VBlank => BeforeBlank(frame_cycles, dot, held)

FrameInv ==
  /\ FrameBounded
  /\ Counting => frame_cycles <= c
  /\ loop = "vblank" => RenderedInv
  /\ loop = "visible" =>
       /\ dot <= VisibleDots + 3
       /\ BeforeBlank(frame_cycles, dot, held)
  /\ loop = "none" /\ ~returned =>
       IF lcd /\ ~stopped THEN RenderedInv ELSE frame_cycles <= cycles_of_artificial_vblank

BurstInv ==
  bursting => /\ burst_cycles <= Burst
              /\ cycle_count <= Burst
              /\ loop # "none" => burst_cycles <= cycle_count

Inv == TypeOK /\ LoopsMatchMachine /\ FrameInv /\ BurstInv

(* A frame of so many dots is over within the cycles of the bound. *)
LEMMA DotsInCycles ==
  ASSUME NEW n \in Nat, NEW h \in Nat, 4 * n <= 4 * Artificial + FrameDots + h + 3
  PROVE  n <= FrameBound(h)
BY RunLoopAssumption DEF FrameBound

LEMMA BoundIsNat ==
  ASSUME NEW h \in 0 .. MaxHeld
  PROVE  FrameBound(h) \in Nat /\ Artificial <= FrameBound(h) /\ FrameBound(h) <= LongestFrame
BY RunLoopAssumption DEF FrameBound, LongestFrame

(* The assumptions, and the cap of the histories. *)
LEMMA Constants ==
  /\ Artificial \in Nat /\ Artificial > 0
  /\ VisibleDots \in Nat /\ 4 <= VisibleDots
  /\ FrameDots \in Nat /\ VisibleDots + 4 <= FrameDots
  /\ MaxHeld \in Nat /\ 0 \in 0 .. MaxHeld
  /\ Modes \subseteq BOOLEAN
  /\ Burst \in Nat /\ CountMod \in Nat /\ Burst + 1 < CountMod
  /\ LongestFrame \in Nat /\ Artificial <= LongestFrame
<1>1. MaxHeld \in Nat
  BY RunLoopAssumption
<1>2. MaxHeld \in 0 .. MaxHeld /\ 0 \in 0 .. MaxHeld
  BY <1>1
<1>3. LongestFrame \in Nat /\ Artificial <= LongestFrame
  BY <1>2, BoundIsNat DEF LongestFrame
<1> QED BY <1>1, <1>2, <1>3, RunLoopAssumption

LEMMA EnableInRange ==
  ASSUME NEW d \in EnableDots
  PROVE  d \in 0 .. FrameDots - 1
BY RunLoopAssumption

(* A frame of no more than the artificial cycles may be at any dot. *)
LEMMA AnyDot ==
  ASSUME NEW n \in Nat, n <= Artificial, NEW d \in Nat, NEW h \in 0 .. MaxHeld
  PROVE  /\ d >= VisibleDots => InBlank(n, d, h)
         /\ BeforeBlank(n, d, h)
         /\ n <= FrameBound(h)
<1>1. n <= FrameBound(h)
  BY Constants, BoundIsNat
<1> QED BY <1>1, Constants DEF InBlank, BeforeBlank

(* A cycle in which the PPU is held for k dots. *)
LEMMA StepInBlank ==
  ASSUME NEW n \in Nat, NEW d \in Nat, d < FrameDots, NEW h \in Nat, NEW k \in 0 .. 4,
         InBlank(n, d, h)
  PROVE  /\ InBlank(n + 1, d + (4 - k), h + k)
         /\ BeforeBlank(n + 1, d + (4 - k) - FrameDots, h + k)
         /\ n + 1 <= FrameBound(h + k)
<1>1. InBlank(n + 1, d + (4 - k), h + k) /\ BeforeBlank(n + 1, d + (4 - k) - FrameDots, h + k)
  BY Constants DEF InBlank, BeforeBlank
<1>2. 4 * (n + 1) <= 4 * Artificial + FrameDots + (h + k) + 3
  BY Constants DEF InBlank
<1>3. n + 1 \in Nat /\ h + k \in Nat
  OBVIOUS
<1> QED BY <1>1, <1>2, <1>3, DotsInCycles

LEMMA StepBeforeBlank ==
  ASSUME NEW n \in Nat, NEW d \in Nat, d < VisibleDots, NEW h \in Nat, NEW k \in 0 .. 4,
         BeforeBlank(n, d, h)
  PROVE  BeforeBlank(n + 1, d + (4 - k), h + k) /\ n + 1 <= FrameBound(h + k)
<1>1. BeforeBlank(n + 1, d + (4 - k), h + k)
  BY Constants DEF BeforeBlank
<1>2. 4 * (n + 1) <= 4 * Artificial + FrameDots + (h + k) + 3
  BY Constants DEF BeforeBlank
<1>3. n + 1 \in Nat /\ h + k \in Nat
  OBVIOUS
<1> QED BY <1>1, <1>2, <1>3, DotsInCycles

(* FrameBounded leaves room for one more cycle to be counted. *)
LEMMA NotCapped ==
  ASSUME TypeOK, FrameBounded
  PROVE  Counted(frame_cycles) = frame_cycles + 1 /\ frame_cycles + 1 \in 0 .. LongestFrame + 1
<1>1. FrameBound(held) \in Nat /\ FrameBound(held) <= LongestFrame
  BY BoundIsNat DEF TypeOK
<1>2. frame_cycles \in Nat /\ frame_cycles <= LongestFrame
  BY <1>1, Constants DEF TypeOK, FrameBounded
<1> QED BY <1>2, Constants DEF Counted

LEMMA CountedInRange ==
  ASSUME TypeOK
  PROVE  /\ Counted(frame_cycles) \in 0 .. LongestFrame + 1
         /\ Counted(burst_cycles) \in 0 .. LongestFrame + 1
BY Constants DEF TypeOK, Counted

LEMMA InitInv == Init => Inv
<1> SUFFICES ASSUME Init PROVE Inv
  OBVIOUS
<1>1. TypeOK
  <2>1. dot \in 0 .. FrameDots - 1
    BY Constants DEF Init
  <2>2. /\ cycles_of_artificial_vblank \in 0 .. Artificial - 1
        /\ c \in 0 .. Artificial
    BY Constants DEF Init
  <2>3. cycle_count \in 0 .. CountMod - 1
    BY Constants DEF Init
  <2>4. /\ frame_cycles \in 0 .. LongestFrame + 1
        /\ burst_cycles \in 0 .. LongestFrame + 1
        /\ held \in 0 .. MaxHeld
    BY Constants DEF Init
  <2> QED BY <2>1, <2>2, <2>3, <2>4 DEF Init, TypeOK
<1>2. LoopsMatchMachine
  BY DEF Init, LoopsMatchMachine
<1>3. FrameInv
  <2>1. 0 <= FrameBound(0)
    BY Constants, BoundIsNat
  <2> QED BY <2>1 DEF Init, FrameInv, FrameBounded, Counting, Uncertain
<1>4. BurstInv
  BY Constants DEF Init, BurstInv
<1> QED BY <1>1, <1>2, <1>3, <1>4 DEF Inv

LEMMA CallInv ==
  ASSUME Inv, Call
  PROVE  Inv'
<1> USE DEF Inv
<1>1. UNCHANGED <<bursting, stopped, lcd, dot, cycles_of_artificial_vblank>>
  BY DEF Call, machine
<1>2. loop' = FirstLoop /\ loop' \in Loops
  BY DEF Call, FirstLoop, RenderLoop, Loops
<1>3. c' \in 0 .. Artificial
  BY Constants DEF Call, StartIndex, TypeOK
<1>4. TypeOK'
  <2>1. cycle_count' \in 0 .. CountMod - 1
    BY Constants DEF Call
  <2>2. /\ frame_cycles' \in 0 .. LongestFrame + 1 /\ burst_cycles' \in 0 .. LongestFrame + 1
        /\ held' \in 0 .. MaxHeld
    BY Constants DEF Call, TypeOK
  <2>3. loop' \in Loops \cup {"none"} /\ returned' \in BOOLEAN
    BY <1>2 DEF Call
  <2> QED BY <1>1, <1>3, <2>1, <2>2, <2>3 DEF TypeOK
<1>5. LoopsMatchMachine'
  BY <1>1, <1>2 DEF LoopsMatchMachine, FirstLoop, RenderLoop, VBlank, TypeOK
<1>6. FrameInv'
  <2>1. CASE stopped \/ ~lcd
    <3>1. loop' \in Uncertain /\ c' = StartIndex
      BY <2>1, <1>2 DEF FirstLoop, Uncertain, Call
    <3>2. frame_cycles' <= c'
      BY <2>1, <3>1 DEF Call, FrameInv, StartIndex, TypeOK
    <3>3. FrameBounded'
      <4>1. Artificial <= FrameBound(held') /\ FrameBound(held') \in Nat
        BY <1>4, BoundIsNat DEF TypeOK
      <4> QED BY <3>2, <1>3, <1>4, <4>1, Constants DEF FrameBounded, TypeOK
    <3> QED BY <3>1, <3>2, <3>3 DEF FrameInv, Counting, Uncertain
  <2>2. CASE ~stopped /\ lcd
    <3>1. loop' = RenderLoop
      BY <2>2, <1>2 DEF FirstLoop
    <3>2. ASSUME frame_cycles' = 0
          PROVE  RenderedInv' /\ FrameBounded'
      <4>1. dot' \in Nat /\ (VBlank' => dot' >= VisibleDots)
        BY <1>4, Constants DEF TypeOK, VBlank
      <4>2. /\ dot' >= VisibleDots => InBlank(0, dot', held')
            /\ BeforeBlank(0, dot', held')
            /\ 0 <= FrameBound(held')
        BY <1>4, <4>1, AnyDot, Constants DEF TypeOK
      <4> QED BY <3>2, <4>1, <4>2 DEF RenderedInv, FrameBounded
    <3>3. ASSUME UNCHANGED <<frame_cycles, held>>, RenderedInv
          PROVE  RenderedInv' /\ FrameBounded'
      BY <1>1, <3>3 DEF RenderedInv, VBlank, FrameInv, FrameBounded
    <3>4. RenderedInv' /\ FrameBounded'
      <4>1. CASE returned \/ ~bursting
        BY <4>1, <3>2 DEF Call
      <4>2. CASE ~(returned \/ ~bursting)
        <5>1. RenderedInv /\ UNCHANGED <<frame_cycles, held>>
          BY <2>2, <4>2 DEF Call, FrameInv
        <5> QED BY <5>1, <3>3
      <4> QED BY <4>1, <4>2
    <3>5. CASE VBlank
      BY <3>1, <3>4, <3>5 DEF FrameInv, RenderLoop, Counting, Uncertain
    <3>6. CASE ~VBlank
      <4>1. loop' = "visible" /\ ~VBlank' /\ lcd'
        BY <1>1, <2>2, <3>1, <3>6 DEF RenderLoop, VBlank
      <4>2. dot' <= VisibleDots + 3
        BY <1>4, <4>1, Constants DEF VBlank, TypeOK
      <4> QED BY <3>4, <4>1, <4>2 DEF RenderedInv, FrameInv, Counting, Uncertain
    <3> QED BY <3>5, <3>6
  <2> QED BY <2>1, <2>2 DEF TypeOK
<1>7. BurstInv'
  BY Constants DEF Call, BurstInv
<1> QED BY <1>4, <1>5, <1>6, <1>7

LEMMA PauseInv ==
  ASSUME Inv, Pause
  PROVE  Inv'
<1> USE DEF Inv
<1>1. /\ UNCHANGED <<bursting, stopped, lcd, dot, frame_cycles, burst_cycles, held>>
      /\ loop' = "none" /\ c' = 0 /\ cycle_count' = 0 /\ returned' = FALSE
  BY DEF Pause, Return, machine
<1>2. cycles_of_artificial_vblank' \in 0 .. Artificial - 1
  BY Constants DEF Pause, Stays, TypeOK, Counting, Uncertain
<1>3. TypeOK'
  <2>1. c' \in 0 .. Artificial /\ cycle_count' \in 0 .. CountMod - 1
    BY <1>1, Constants
  <2> QED BY <1>1, <1>2, <2>1 DEF TypeOK
<1>4. LoopsMatchMachine' /\ BurstInv'
  BY <1>1, Constants DEF LoopsMatchMachine, BurstInv
<1>5. FrameInv'
  <2>1. CASE Counting
    <3>1. c < Artificial /\ frame_cycles <= c /\ cycles_of_artificial_vblank' = c
      BY <2>1 DEF Pause, Stays, Counting, Uncertain, FrameInv
    <3>2. frame_cycles' <= cycles_of_artificial_vblank' /\ frame_cycles <= Artificial
      BY <1>1, <3>1, Constants DEF TypeOK
    <3>3. RenderedInv'
      <4>1. dot' \in Nat /\ frame_cycles' \in Nat /\ (VBlank' => dot' >= VisibleDots)
        BY <1>3, Constants DEF TypeOK, VBlank
      <4> QED BY <1>1, <1>3, <3>2, <4>1, AnyDot DEF RenderedInv, TypeOK
    <3> QED BY <1>1, <3>2, <3>3 DEF FrameInv, FrameBounded, Counting, Uncertain
  <2>2. CASE ~Counting
    <3>1. lcd /\ ~stopped /\ RenderedInv
      BY <2>2, Constants DEF Pause, Stays, Counting, Uncertain, LoopsMatchMachine,
                             FrameInv, RenderedInv, TypeOK
    <3>2. RenderedInv'
      BY <1>1, <3>1 DEF RenderedInv, VBlank
    <3> QED BY <1>1, <3>1, <3>2 DEF FrameInv, FrameBounded, Counting, Uncertain
  <2> QED BY <2>1, <2>2
<1> QED BY <1>3, <1>4, <1>5

(* What the PPU does in a cycle: it is held for k dots of 4. *)
LEMMA RunPpuHolds ==
  ASSUME TypeOK, RunPpu, lcd' \in BOOLEAN
  PROVE  \E k \in 0 .. 4 :
           /\ held' = held + k /\ held' \in 0 .. MaxHeld
           /\ lcd /\ lcd' => dot' = NextDot(4 - k)
           /\ ~(lcd /\ lcd') => k = 0 /\ dot' \in EnableDots \cup {0}
<1>1. held \in 0 .. MaxHeld /\ MaxHeld \in Nat
  BY Constants DEF TypeOK
<1>2. CASE lcd /\ lcd'
  <2>1. PICK k \in HeldDots : held + k <= MaxHeld /\ held' = held + k /\ dot' = NextDot(4 - k)
    BY <1>2 DEF RunPpu
  <2>2. k \in 0 .. 4
    BY DEF HeldDots
  <2> QED BY <1>1, <1>2, <2>1, <2>2
<1>3. CASE ~(lcd /\ lcd')
  <2>1. held' = held /\ dot' \in EnableDots \cup {0}
    BY <1>3 DEF RunPpu
  <2>2. held' = held + 0 /\ 0 \in 0 .. 4
    BY <1>1, <2>1
  <2> QED BY <1>1, <1>3, <2>1, <2>2
<1> QED BY <1>2, <1>3

(* A cycle: the frame is one cycle longer, and the PPU 4 dots further but  *)
(* for those it is held.                                                   *)
LEMMA CycleInv ==
  ASSUME Inv, Cycle
  PROVE  Inv'
<1> USE DEF Inv
<1>1. /\ bursting' = bursting
      /\ stopped' \in BOOLEAN /\ lcd' \in BOOLEAN
  BY DEF Cycle, CoreCycle, TypeOK
<1>2. /\ frame_cycles' = Counted(frame_cycles)
      /\ burst_cycles' = Counted(burst_cycles)
      /\ frame_cycles' = frame_cycles + 1
  BY NotCapped DEF Cycle, CoreCycle, FrameInv
<1>a. PICK k \in 0 .. 4 :
        /\ held' = held + k /\ held' \in 0 .. MaxHeld
        /\ lcd /\ lcd' => dot' = NextDot(4 - k)
        /\ ~(lcd /\ lcd') => k = 0 /\ dot' \in EnableDots \cup {0}
  BY <1>1, RunPpuHolds DEF Cycle, CoreCycle
<1>b. dot' \in 0 .. FrameDots - 1
  <2>1. CASE lcd /\ lcd'
    BY <1>a, <2>1, Constants DEF NextDot, TypeOK
  <2>2. CASE ~(lcd /\ lcd')
    BY <1>a, <2>2, EnableInRange, Constants
  <2> QED BY <2>1, <2>2
<1>3. loop' \in Loops \cup {"none"} /\ returned' \in BOOLEAN
  BY DEF Cycle, Return, TypeOK
<1>4. cycles_of_artificial_vblank' \in 0 .. Artificial - 1
  <2>1. cycles_of_artificial_vblank' \in {0, cycles_of_artificial_vblank}
    BY DEF Cycle
  <2> QED BY <2>1, Constants DEF TypeOK
<1>5. c' \in 0 .. Artificial
  BY Constants DEF Cycle, Return, Stays, TypeOK, Counting, Uncertain
<1>6. cycle_count' \in 0 .. CountMod - 1
  BY Constants DEF Cycle, Return, NextCount, TypeOK
<1>7. TypeOK'
  BY <1>1, <1>2, <1>3, <1>4, <1>5, <1>6, <1>a, <1>b, CountedInRange DEF TypeOK
<1>8. loop # "none"
  BY DEF Cycle, Stays, Counting, Uncertain
<1>9. LoopsMatchMachine'
  BY <1>1, <1>8 DEF Cycle, Leaves, Return, LoopsMatchMachine, TypeOK, Loops
<1>10. BurstInv'
  <2>1. bursting => NextCount = cycle_count + 1 /\ NextCount <= Burst
    <3>1. bursting => cycle_count <= Burst
      BY DEF BurstInv
    <3>2. bursting => NextCount = cycle_count + 1 
      BY <3>1, Constants DEF NextCount, TypeOK
    <3>3. bursting => ~(NextCount > Burst)
      BY DEF Cycle, Spent
    <3> QED BY <3>2, <3>3, Constants DEF TypeOK
  <2>2. burst_cycles' \in Nat /\ burst_cycles' <= burst_cycles + 1
    BY <1>2, Constants DEF Counted, TypeOK
  <2>3. bursting => burst_cycles' <= NextCount
    <3>1. bursting => burst_cycles <= cycle_count
      BY <1>8 DEF BurstInv
    <3>2. burst_cycles <= cycle_count /\ NextCount = cycle_count + 1 => burst_cycles' <= NextCount
      BY <2>2, Constants DEF TypeOK
    <3> QED BY <2>1, <3>1, <3>2
  <2>4. bursting => (loop' = "none" /\ cycle_count' = 0) \/ cycle_count' = NextCount
    BY DEF Cycle, Return
  <2>5. bursting' = bursting
    BY DEF Cycle, CoreCycle
  <2> QED BY <2>1, <2>2, <2>3, <2>4, <2>5, Constants DEF BurstInv, TypeOK
<1>11. CASE Counting
  <2>1. frame_cycles' <= c + 1 /\ c < Artificial
    BY <1>2, <1>11, Constants DEF Cycle, Stays, Counting, Uncertain, FrameInv, TypeOK
  <2>2. FrameBounded'
    <3>1. FrameBound(held') \in Nat /\ Artificial <= FrameBound(held')
      BY <1>a, BoundIsNat
    <3>2. frame_cycles' <= Artificial /\ frame_cycles' \in Nat
      BY <1>2, <2>1, Constants DEF TypeOK
    <3> QED BY <3>1, <3>2, Constants DEF FrameBounded
  <2>3. FrameInv'
    BY <2>1, <2>2, <1>11 DEF Cycle, Return, FrameInv, Counting, Uncertain
  <2> QED BY <2>3, <1>7, <1>9, <1>10
<1>12. CASE loop = "vblank"
  <2>1. VBlank /\ lcd
    BY <1>12 DEF Cycle, Stays, Counting, Uncertain, VBlank
  <2>2. /\ dot \in Nat /\ dot < FrameDots /\ frame_cycles \in Nat
        /\ InBlank(frame_cycles, dot, held)
    BY <1>12, <2>1, Constants DEF FrameInv, RenderedInv, TypeOK
  <2>3. held \in Nat /\ held' = held + k
    BY <1>a, Constants DEF TypeOK
  <2>4. /\ InBlank(frame_cycles + 1, dot + (4 - k), held + k)
        /\ BeforeBlank(frame_cycles + 1, dot + (4 - k) - FrameDots, held + k)
        /\ frame_cycles + 1 <= FrameBound(held + k)
    BY <2>2, <2>3, <1>a, StepInBlank
  <2>5. FrameBounded'
    BY <1>2, <2>3, <2>4 DEF FrameBounded
  <2>6. ~Leaves => RenderedInv'
    <3> SUFFICES ASSUME ~Leaves PROVE RenderedInv'
      OBVIOUS
    <3>1. lcd' /\ dot' = NextDot(4 - k)
      BY <1>12, <2>1, <1>1, <1>a DEF Leaves
    <3>2. dot >= VisibleDots
      BY <2>1 DEF VBlank
    <3>3. CASE dot + (4 - k) < FrameDots
      <4>1. dot' = dot + (4 - k)
        BY <3>1, <3>3 DEF NextDot
      <4>2. VBlank'
        BY <1>a, <2>2, <3>1, <3>2, <4>1, Constants DEF VBlank
      <4> QED BY <1>2, <2>3, <2>4, <4>1, <4>2 DEF RenderedInv
    <3>4. CASE ~(dot + (4 - k) < FrameDots)
      <4>1. dot' = dot + (4 - k) - FrameDots
        BY <3>1, <3>4 DEF NextDot
      <4>2. dot + (4 - k) - FrameDots < VisibleDots /\ dot + (4 - k) - FrameDots \in Nat
        BY <1>a, <2>2, <3>4, Constants
      <4>3. ~VBlank'
        BY <4>1, <4>2, Constants DEF VBlank
      <4> QED BY <1>2, <2>3, <2>4, <4>1, <4>3 DEF RenderedInv
    <3> QED BY <3>3, <3>4
  <2>7. FrameInv'
    BY <2>5, <2>6, <1>12 DEF Cycle, Return, FrameInv, Counting, Uncertain
  <2> QED BY <2>7, <1>7, <1>9, <1>10
<1>13. CASE loop = "visible"
  <2>1. ~VBlank /\ lcd
    BY <1>13 DEF Cycle, Stays, Counting, Uncertain, LoopsMatchMachine
  <2>2. /\ dot \in Nat /\ dot < VisibleDots /\ frame_cycles \in Nat
        /\ BeforeBlank(frame_cycles, dot, held)
    BY <1>13, <2>1, Constants DEF FrameInv, VBlank, TypeOK
  <2>3. held \in Nat /\ held' = held + k
    BY <1>a, Constants DEF TypeOK
  <2>4. /\ BeforeBlank(frame_cycles + 1, dot + (4 - k), held + k)
        /\ frame_cycles + 1 <= FrameBound(held + k)
    BY <2>2, <2>3, <1>a, StepBeforeBlank
  <2>5. FrameBounded'
    BY <1>2, <2>3, <2>4 DEF FrameBounded
  <2>6. ~Leaves => /\ dot' = dot + (4 - k) /\ dot' <= VisibleDots + 3
                   /\ BeforeBlank(frame_cycles', dot', held')
    <3> SUFFICES ASSUME ~Leaves
                 PROVE  /\ dot' = dot + (4 - k) /\ dot' <= VisibleDots + 3
                        /\ BeforeBlank(frame_cycles', dot', held')
      OBVIOUS
    <3>1. lcd' /\ dot' = NextDot(4 - k)
      BY <1>13, <2>1, <1>1, <1>a DEF Leaves
    <3>2. dot' = dot + (4 - k) /\ dot' <= VisibleDots + 3
      BY <1>a, <2>2, <3>1, Constants DEF NextDot
    <3> QED BY <1>2, <2>3, <2>4, <3>2
  <2>7. FrameInv'
    BY <2>5, <2>6, <1>13 DEF Cycle, Return, FrameInv, Counting, Uncertain
  <2> QED BY <2>7, <1>7, <1>9, <1>10
<1> QED BY <1>8, <1>11, <1>12, <1>13 DEF TypeOK, Loops, Counting, Uncertain

LEMMA FinishInv ==
  ASSUME Inv, Finish
  PROVE  Inv'
<1> USE DEF Inv
<1>1. /\ UNCHANGED <<bursting, stopped, lcd, dot, frame_cycles, burst_cycles, held>>
      /\ loop' = "none" /\ c' = 0 /\ cycle_count' = 0 /\ returned' = TRUE
  BY DEF Finish, Return, machine
<1>2. TypeOK'
  <2>1. cycles_of_artificial_vblank' \in {0, cycles_of_artificial_vblank}
    BY DEF Finish
  <2>2. /\ cycles_of_artificial_vblank' \in 0 .. Artificial - 1
        /\ c' \in 0 .. Artificial /\ cycle_count' \in 0 .. CountMod - 1
    BY <1>1, <2>1, Constants DEF TypeOK
  <2> QED BY <1>1, <2>2 DEF TypeOK
<1>3. LoopsMatchMachine' /\ BurstInv'
  BY <1>1, Constants DEF LoopsMatchMachine, BurstInv
<1>4. FrameInv'
  BY <1>1 DEF FrameInv, FrameBounded, Counting, Uncertain
<1> QED BY <1>2, <1>3, <1>4

LEMMA GoOnInv ==
  ASSUME Inv, GoOn
  PROVE  Inv'
<1> USE DEF Inv
<1>1. /\ UNCHANGED <<bursting, stopped, lcd, dot, cycles_of_artificial_vblank, cycle_count,
                     returned, frame_cycles, burst_cycles, held>>
      /\ loop' = RenderLoop /\ c' = 0
  BY DEF GoOn, machine
<1>2. loop' \in {"vblank", "visible"} /\ loop # "none"
  BY <1>1 DEF GoOn, RenderLoop
<1>3. TypeOK'
  BY <1>1, <1>2, Constants DEF TypeOK, Loops
<1>4. lcd /\ ~stopped
  BY DEF GoOn, LoopsMatchMachine
<1>5. LoopsMatchMachine' /\ BurstInv'
  BY <1>1, <1>2, <1>4 DEF LoopsMatchMachine, BurstInv
<1>6. /\ dot \in Nat /\ dot < FrameDots /\ frame_cycles \in Nat
      /\ VBlank <=> dot >= VisibleDots
  BY <1>4, Constants DEF TypeOK, VBlank
<1>7. RenderedInv
  <2>1. CASE loop = "off"
    <3>1. frame_cycles <= Artificial
      BY <2>1, Constants DEF FrameInv, Counting, Uncertain, TypeOK
    <3> QED BY <1>6, <3>1, AnyDot DEF RenderedInv, TypeOK
  <2>2. CASE loop = "vblank"
    BY <2>2 DEF FrameInv
  <2> QED BY <2>1, <2>2 DEF GoOn
<1>8. FrameInv'
  <2>1. ~VBlank => dot <= VisibleDots + 3
    BY <1>6, Constants
  <2> QED BY <1>1, <1>2, <1>7, <2>1
          DEF FrameInv, FrameBounded, RenderedInv, RenderLoop, VBlank,
              Counting, Uncertain
<1> QED BY <1>3, <1>5, <1>8

(* What the frontend does between two calls. *)
LEMMA BetweenInv ==
  ASSUME Inv, Reset \/ LoadState
  PROVE  Inv'
<1> USE DEF Inv
<1>1. /\ loop' = "none" /\ UNCHANGED <<bursting, loop, c, cycle_count, burst_cycles>>
      /\ stopped' \in BOOLEAN /\ lcd' \in BOOLEAN /\ returned' \in BOOLEAN
      /\ held' = 0
  BY DEF Reset, LoadState, ResetMachine
<1>2. dot' \in 0 .. FrameDots - 1
  BY Constants DEF Reset, LoadState, ResetMachine
<1>3. cycles_of_artificial_vblank' \in 0 .. Artificial - 1
  BY DEF Reset, LoadState, TypeOK
<1>4. frame_cycles' \in 0 .. Artificial - 1
  BY <1>3, Constants DEF Reset, LoadState
<1>5. TypeOK'
  <2>1. frame_cycles' \in 0 .. LongestFrame + 1 /\ held' \in 0 .. MaxHeld
    BY <1>1, <1>4, Constants
  <2> QED BY <1>1, <1>2, <1>3, <2>1 DEF TypeOK
<1>6. LoopsMatchMachine' /\ BurstInv'
  BY <1>1 DEF LoopsMatchMachine, BurstInv
<1>7. RenderedInv'
  <2>1. frame_cycles' \in Nat /\ frame_cycles' <= Artificial
    BY <1>4, Constants
  <2>2. dot' \in Nat /\ (VBlank' => dot' >= VisibleDots)
    BY <1>2, Constants DEF VBlank
  <2>3. held' \in 0 .. MaxHeld
    BY <1>1, Constants
  <2> QED BY <2>1, <2>2, <2>3, AnyDot DEF RenderedInv
<1>8. FrameBounded'
  <2>1. FrameBound(held') \in Nat /\ Artificial <= FrameBound(held')
    BY <1>1, Constants, BoundIsNat
  <2> QED BY <1>4, <2>1, Constants DEF FrameBounded
<1>9. ~returned' => frame_cycles' <= cycles_of_artificial_vblank'
  BY <1>3, Constants DEF Reset, LoadState
<1>10. FrameInv'
  BY <1>1, <1>7, <1>8, <1>9 DEF FrameInv, Counting, Uncertain
<1> QED BY <1>5, <1>6, <1>10

LEMMA NextInv ==
  ASSUME Inv, [Next]_vars
  PROVE  Inv'
<1>1. CASE UNCHANGED vars
  BY <1>1 DEF Inv, TypeOK, LoopsMatchMachine, FrameInv, FrameBounded, BurstInv,
              RenderedInv, VBlank, Counting, Uncertain, vars, machine
<1> QED BY <1>1, CallInv, PauseInv, CycleInv, FinishInv, GoOnInv, BetweenInv DEF Next, Step

LEMMA InvHolds == Spec => []Inv
BY InitInv, NextInv, PTL DEF Spec

(***************************************************************************)
(* Core::frame and run_for_cycles never stall the frontend: a frame is     *)
(* over within the artificial cycles, one frame of the PPU and the dots    *)
(* the PPU was held, whatever the program does with LCDC and STOP.         *)
(***************************************************************************)
THEOREM FrameAlwaysBounded == Spec => []FrameBounded
<1>1. Inv => FrameBounded
  BY DEF Inv, FrameInv
<1> QED BY <1>1, InvHolds, PTL

(***************************************************************************)
(* run_for_cycles keeps to its burst, as long as the burst is shorter than *)
(* cycle_count can count.                                                  *)
(***************************************************************************)
THEOREM BurstAlwaysBounded == Spec => []BurstBounded
<1>1. BurstInv => BurstBounded
  BY DEF BurstInv, BurstBounded
<1>2. Inv => BurstBounded
  BY <1>1 DEF Inv
<1> QED BY <1>2, InvHolds, PTL

(***************************************************************************)
(* The assertions about STOP and LCDC between the loops hold.              *)
(***************************************************************************)
THEOREM LoopAssertionsHold == Spec => []LoopsMatchMachine
<1>1. Inv => LoopsMatchMachine
  BY DEF Inv
<1> QED BY <1>1, InvHolds, PTL

(***************************************************************************)
(* frame() and run_for_cycles keep to their cycles, the dots in which the  *)
(* PPU is held aside.                                                      *)
(***************************************************************************)
THEOREM RunsAlwaysBounded == Spec => []RunsBounded
<1>1. FrameBounded /\ BurstBounded => RunsBounded
  BY DEF RunsBounded
<1> QED BY <1>1, FrameAlwaysBounded, BurstAlwaysBounded, PTL

(***************************************************************************)
(* The counting loop of frame() starts from 0 with the frame, so that its  *)
(* index never runs ahead of the cycles of the frame.                      *)
(***************************************************************************)
WholeInv == ~bursting /\ Counting => c <= frame_cycles

LEMMA WholeStep ==
  ASSUME Inv, WholeInv, [Next]_vars
  PROVE  WholeInv'
<1> SUFFICES ASSUME ~bursting', Counting' PROVE c' <= frame_cycles'
  BY DEF WholeInv
<1>1. bursting' = bursting
  BY DEF Next, Step, Call, Pause, Cycle, CoreCycle, Finish, GoOn, Reset, LoadState, vars
<1>2. loop' # "none" /\ loop' \notin {"vblank", "visible"}
  BY DEF Counting, Uncertain
<1>3. CASE Call
  BY <1>1, <1>3 DEF Call, StartIndex, Counting, Uncertain
<1>4. CASE Cycle
  <2>1. ~Leaves
    BY <1>2, <1>4 DEF Cycle, Return
  <2>2. loop' = loop /\ c' = IF Counting THEN c + 1 ELSE c
    BY <1>4, <2>1 DEF Cycle
  <2>3. Counting
    BY <2>2 DEF Counting
  <2>4. c' = c + 1 /\ c <= frame_cycles
    BY <1>1, <2>2, <2>3 DEF WholeInv
  <2>5. frame_cycles' = frame_cycles + 1
    BY <1>4, NotCapped DEF Inv, FrameInv, Cycle, CoreCycle
  <2> QED BY <2>4, <2>5, Constants DEF Inv, TypeOK
<1>5. CASE Pause \/ Finish \/ GoOn \/ Reset \/ LoadState
  BY <1>2, <1>5 DEF Pause, Finish, GoOn, Return, RenderLoop, Reset, LoadState
<1>6. CASE UNCHANGED vars
  BY <1>6 DEF vars, WholeInv, Counting
<1> QED BY <1>3, <1>4, <1>5, <1>6 DEF Next, Step

(* A frame without bursts that its counting loop ends was run for all the  *)
(* artificial cycles, through resets and loaded states.                    *)
THEOREM FramesAlwaysWhole == Spec => WholeWithoutBursts
<1>1. Init => WholeInv
  BY DEF Init, WholeInv, Counting, Uncertain
<1>2. Spec => []WholeInv
  BY <1>1, WholeStep, InvHolds, PTL DEF Spec
<1>3. ASSUME Inv, WholeInv, [Next]_vars
      PROVE  [~bursting /\ Counting /\ ~Stays /\ returned' => frame_cycles >= Artificial]_vars
  <2> SUFFICES ASSUME ~bursting, Counting, ~Stays PROVE frame_cycles >= Artificial
    OBVIOUS
  <2>1. ~(c < Artificial)
    BY DEF Stays
  <2>2. c <= frame_cycles
    BY <1>3 DEF WholeInv
  <2>3. c \in Nat /\ frame_cycles \in Nat /\ Artificial \in Nat
    BY <1>3, Constants DEF Inv, TypeOK
  <2> QED BY <2>1, <2>2, <2>3
<1> QED BY <1>2, <1>3, InvHolds, PTL DEF Spec, WholeWithoutBursts

(***************************************************************************)
(* No poll is ever missed, whatever is reset, saved and loaded: the        *)
(* equality test of handle_input is enough.                                *)
(***************************************************************************)
THEOREM PollAlwaysAhead == PollSpec => [](PollTypeOK /\ PollAhead)
<1> USE PollingAssumption DEF Tick, PollTick
<1>1. PollInit => PollTypeOK /\ PollAhead
  BY DEF PollInit, PollTypeOK, PollAhead
<1>2. PollTypeOK /\ PollAhead /\ [PollNext]_pollVars => PollTypeOK' /\ PollAhead'
  <2> SUFFICES ASSUME PollTypeOK, PollAhead, [PollNext]_pollVars
               PROVE  PollTypeOK' /\ PollAhead'
    OBVIOUS
  <2> USE DEF PollTypeOK, PollAhead
  <2>1. CASE PollCycle
    <3>1. CASE ticks = next_input_polling_ticks
      BY <2>1, <3>1 DEF PollCycle, HandleInput, Delays
    <3>2. CASE ticks # next_input_polling_ticks
      BY <2>1, <3>2 DEF PollCycle, HandleInput
    <3> QED BY <3>1, <3>2
  <2>2. CASE ResetTicks
    BY <2>2 DEF ResetTicks
  <2>3. CASE SavePoll
    BY <2>3 DEF SavePoll
  <2>4. CASE LoadPoll
    BY <2>4 DEF LoadPoll
  <2>5. CASE UNCHANGED pollVars
    BY <2>5 DEF pollVars
  <2> QED BY <2>1, <2>2, <2>3, <2>4, <2>5 DEF PollNext
<1> QED BY <1>1, <1>2, PTL DEF PollSpec

=============================================================================
