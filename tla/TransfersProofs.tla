-------------------------- MODULE TransfersProofs --------------------------
(***************************************************************************)
(* Proofs about the transfers, for every size of OAM and of a chunk, every *)
(* number of chunks, length of an instruction and place of the source.     *)
(***************************************************************************)
EXTENDS Transfers, TLAPS

(***************************************************************************)
(* Where the T-cycle stands.                                               *)
(***************************************************************************)
Double == clock = "double"
CpuDone == stage \notin {"cpu", "write"}
PpuDone == stage \in {"copy", "state", "request", "phase", "dma"}
StateDone == stage \in {"request", "phase", "dma"}
PhaseDone == PhaseDue /\ stage = "dma"
MicroopT == Position = 0

StageFits ==
  /\ stage = "write" => Double /\ Even /\ ~active
  /\ stage = "request" => Even
  /\ stage = "phase" => PhaseDue

(***************************************************************************)
(* The CPU: when its accesses are under way.  It is held at a fetch.       *)
(***************************************************************************)
WritePending ==
  IF Double THEN stage = "write"
  ELSE (MicroopT /\ stage # "cpu") \/ (Position = 1 /\ stage = "cpu")

ReadPending ==
  IF Double THEN (Even /\ stage # "cpu") \/ (~Even /\ stage = "cpu")
  ELSE (MicroopT /\ stage # "cpu") \/ Position \in {1, 2} \/ (Position = 3 /\ stage = "cpu")

CpuInv ==
  /\ fetching <=> microops = 0
  /\ halted \/ active => fetching
  /\ io.op = "W" => WritePending /\ ~fetching /\ ~active
  /\ io.op = "R" /\ InStep => ReadPending /\ ~active
  /\ io.at = "HDMA5" => hdma5_written
  /\ last_halted # halted => MicroopT /\ ~StateDone /\ ~active

(***************************************************************************)
(* The holding of the CPU and of the buses.                                *)
(***************************************************************************)
Waiting == hdma_state \in {"Requested", "Pending", "Ready"}
Late == hdma_state = "Paused" /\ active

Holding ==
  /\ hdma_state = "Transferring" => active /\ ~unblock
  /\ hdma_state = "Paused" => hdma_mode = "HBlank"
  /\ Waiting => ~active
  /\ Late => unblock
  /\ unblock => active /\ hdma_state \in {"None", "Paused"}
  /\ count_requested =>
       /\ PhaseDue /\ stage \in {"state", "phase"}
       /\ active
       /\ hdma_state \in {"None", "Paused", "Transferring"}

Acquired ==
  /\ "Hdma" \in oam_acquirers <=> hdma_state = "Transferring"
  /\ "Hdma" \in vram_acquirers <=> hdma_state = "Transferring"
  /\ "Dma" \in oam_acquirers <=> DmaIsActive

(* A byte takes two T-cycles, so that a chunk ends in the second of them,  *)
(* and in one that ends a machine cycle.                                   *)
EvenLeft == remaining_bytes % 2 = 0

BytesInStep ==
  /\ dma_state = "Flush" => MoreBytes
  /\ hdma_state # "None" => remaining_bytes > 0
  /\ hdma_state # "None" /\ hdma_state # "Transferring" => EvenLeft
  /\ hdma_state = "Transferring" /\ ~Double =>
       (EvenLeft <=> \/ t = 0
                     \/ t = 1 /\ stage \in {"cpu", "ppu", "copy"}
                     \/ t = 3 /\ stage \in {"state", "phase", "dma"})

(***************************************************************************)
(* A transfer at once holds the CPU before its next instruction.           *)
(***************************************************************************)

(* The micro-operation of the machine cycle that the next tick_phase ends. *)
MicroopDone ==
  /\ ~PhaseDone
  /\ ~(MicroopT /\ stage = "cpu")
  /\ clock = "behind" => t \in {2, 3}

OnceInv ==
  Waiting /\ hdma_mode = "GeneralPurpose" =>
    /\ io.at # "HDMA5"
    /\ ~fetching => hdma5_written
    /\ fetching => MicroopDone
    /\ hdma_state = "Requested" =>
         /\ ~fetching
         /\ IF Double THEN Even /\ CpuDone /\ stage # "dma"
            ELSE \/ Position = 1 /\ stage # "cpu"
                 \/ Position = 2 /\ stage # "dma"
    /\ hdma_state = "Pending" =>
         /\ fetching => MicroopT /\ stage \notin {"cpu", "dma"}
         /\ \/ Double
            \/ Position = 2 /\ stage = "dma"
            \/ Position = 3
            \/ Position = 0 /\ stage # "dma"

(***************************************************************************)
(* A chunk asked for in HBlank is over before another one can be: Left     *)
(* bounds the T-cycles until the CPU is back, Now the T-cycles the PPU has *)
(* spent in a mode that ends in HBlank.                                    *)
(***************************************************************************)
Period == IF Double THEN 2 ELSE 4

PhaseIn ==
  IF Double THEN IF Even THEN 1 ELSE IF PhaseDone THEN 2 ELSE 0
  ELSE IF PhaseDone THEN 4 ELSE 3 - t

RequestsLeft ==
  IF Double THEN IF (Even /\ stage # "dma") \/ PhaseDone THEN 1 ELSE 0
  ELSE IF PhaseDone \/ (t = 0 /\ stage # "dma") THEN 2
  ELSE IF t \in {0, 1} \/ (t = 2 /\ stage # "dma") THEN 1 ELSE 0

ReadyInTime ==
  \/ hdma_state = "Ready"
  \/ hdma_state = "Pending" /\ RequestsLeft >= 1
  \/ hdma_state = "Requested" /\ RequestsLeft = 2

PhasesMissed ==
  IF ~ReadyInTime
    THEN MaxMicroops + IF Double /\ hdma_state = "Requested" /\ RequestsLeft = 0 THEN 2 ELSE 1
  ELSE IF ~MicroopDone THEN MaxMicroops - microops
  ELSE IF fetching THEN 0 ELSE MaxMicroops - microops + 1

ByteIn ==
  IF Even THEN 1 ELSE IF stage \in {"cpu", "ppu", "copy"} THEN 0 ELSE 2

BytesOfChunk == (remaining_bytes - 1) % ChunkSize  \* after the next one

Left ==
  IF Waiting THEN PhaseIn + Period * PhasesMissed + 2 * ChunkSize + Period
  ELSE IF hdma_state = "Transferring" THEN ByteIn + 2 * BytesOfChunk + Period
  ELSE IF count_requested THEN Period ELSE PhaseIn

LongMode == mode \in {"transfer", "vblank"}

Now ==
  IF LongMode THEN 4 * age + IF t = 3 /\ PpuDone THEN 0 ELSE t + 1
  ELSE t + 1

Busy == hdma_mode = "HBlank" /\ (Waiting \/ hdma_state = "Transferring" \/ Late)

InTime == Busy => Now + Left <= 4 * MinCycles

(***************************************************************************)
(* What the VRAM DMA takes for HBlank rises, while the CPU is held, only   *)
(* with the PPU's, or with an OAM DMA that begins in the first T-cycles.   *)
(***************************************************************************)
CountdownInv ==
  /\ countdown > 2 =>
       IF Double THEN (countdown = 3 /\ ~Even) \/ (countdown = 4 /\ Even /\ CpuDone)
       ELSE \/ Position = 1 /\ stage # "cpu"
            \/ Position = 2 /\ countdown = 3
            \/ Position = 3 /\ countdown = 3
  /\ fetching => countdown <= 2
  /\ Double /\ countdown > 0 => (countdown % 2 = 0 <=> Even)
  /\ active =>
       \/ countdown = 0
       \/ hdma_state = "Transferring" /\ PhaseDone
       \/ hdma_state = "Transferring" /\ ~Double /\ t \in {0, 1} /\ countdown = 1

ScanUnderDma == mode = "oam" /\ DmaIsActive

HBlankShown ==
  /\ mode = "hblank" => hblank
  /\ LongMode => ~hblank
  /\ mode = "off" => hblank \/ (stage = "ppu" /\ ~active)
  /\ ~Even \/ PpuDone => (ScanUnderDma => hblank)
  /\ Late => (ScanUnderDma => hblank) /\ countdown = 0

HBlankSeen ==
  /\ stage = "phase" /\ ~halted => last_hblank = hblank
  /\ Busy /\ active /\ ~halted =>
       IF PpuDone /\ ~StateDone THEN (~Even \/ Late) /\ hblank => last_hblank
       ELSE last_hblank = hblank

(***************************************************************************)
(* With the CPU in step, each byte of the OAM DMA is asked for and moved   *)
(* while the VRAM DMA neither takes the buses nor gives them back.         *)
(***************************************************************************)
FlushHalf == IF Double THEN Even ELSE t \in {0, 1}

DmaInStep ==
  InStep =>
    /\ dma_state = "Flush" => FlushHalf
    /\ dma_state = "Prepare" => ~FlushHalf
    /\ countdown > 0 => (countdown % 2 = 0 <=> FlushHalf)

DmaRequests ==
  InStep =>
    /\ \A name \in BusNames :
         /\ DmaPending(bus[name]) =>
              bus[name].address = "Dma" /\ dma_state = "Flush" /\ ~IsOamBlocked
         /\ Read("Dma") \in bus[name].requests => name = "memory" /\ dma_source = "memory"
         /\ Write("Dma") \in bus[name].requests => name = "oam"
    /\ dma_state = "Flush" /\ ~IsOamBlocked =>
         /\ Write("Dma") \in bus["oam"].requests
         /\ dma_source = "memory" => Read("Dma") \in bus["memory"].requests

CpuReadPending ==
  InStep /\ io.op = "R" =>
    /\ Read("Cpu") \in bus[io.at].requests
    /\ bus[io.at].address \notin {"Hdma", "none"}

TransfersInv ==
  /\ TypeOK /\ StageFits /\ CpuInv
  /\ Holding /\ Acquired /\ BytesInStep /\ CountFollowsBytes
  /\ OnceInv /\ InTime
  /\ CountdownInv /\ HBlankShown /\ HBlankSeen
  /\ DmaInStep /\ DmaRequests /\ CpuReadPending

(***************************************************************************)
(* Division, and the chunks left of so many bytes.                         *)
(***************************************************************************)

(* A number is its quotient and its remainder.                             *)
LEMMA DivMod ==
  ASSUME NEW a \in Nat, NEW b \in Nat \ {0}
  PROVE  /\ a \div b \in Nat
         /\ a % b \in 0 .. b - 1
         /\ a = b * (a \div b) + (a % b)
OBVIOUS

(* ... and no other quotient and remainder give it.                        *)
LEMMA DivUnique ==
  ASSUME NEW b \in Nat \ {0}, NEW q \in Nat, NEW m \in 0 .. b - 1
  PROVE  (b * q + m) \div b = q /\ (b * q + m) % b = m
<1> DEFINE p == (b * q + m) \div b
           n == (b * q + m) % b
<1>1. b * q + m \in Nat
  OBVIOUS
<1>2. p \in Nat /\ n \in 0 .. b - 1 /\ b * q + m = b * p + n
  BY <1>1, DivMod
<1> HIDE DEF p, n
<1>3. p = q
  <2>1. CASE p > q
    <3>1. b * (p - q) >= b /\ b * (p - q) = m - n
      BY <1>2, <2>1
    <3> QED BY <1>2, <3>1
  <2>2. CASE p < q
    <3>1. b * (q - p) >= b /\ b * (q - p) = n - m
      BY <1>2, <2>2
    <3> QED BY <1>2, <3>1
  <2> QED BY <1>2, <2>1, <2>2
<1>4. n = m
  BY <1>2, <1>3
<1> QED BY <1>3, <1>4 DEF p, n

Chunks(bytes) == (bytes + ChunkSize - 1) \div ChunkSize

(* Chunks are of an even number of bytes.                                  *)
LEMMA MultiplesAreEven ==
  ASSUME NEW k \in Nat
  PROVE  (ChunkSize * k) % 2 = 0
<1>1. ChunkSize = 2 * (ChunkSize \div 2) /\ ChunkSize \div 2 \in Nat
  BY VramDmaAssumption, DivMod
<1>2. ChunkSize * k = 2 * ((ChunkSize \div 2) * k) + 0 /\ (ChunkSize \div 2) * k \in Nat
  BY <1>1, VramDmaAssumption
<1> QED BY <1>2, DivUnique

(* The last byte of a chunk leaves an even number of bytes.                *)
LEMMA EndIsEven ==
  ASSUME NEW r \in Nat \ {0}, (r - 1) % ChunkSize = 0
  PROVE  (r - 1) % 2 = 0
<1>1. r - 1 \in Nat
  OBVIOUS
<1>2. r - 1 = ChunkSize * ((r - 1) \div ChunkSize) /\ (r - 1) \div ChunkSize \in Nat
  BY <1>1, DivMod, VramDmaAssumption
<1> QED BY <1>2, MultiplesAreEven

(* A byte moved ends a chunk or leaves the number of chunks as it was.     *)
LEMMA ChunksOf ==
  ASSUME NEW r \in Nat \ {0}
  PROVE  /\ Chunks(r) = ((r - 1) \div ChunkSize) + 1
         /\ Chunks(r) \in Nat \ {0}
         /\ (r - 1) % ChunkSize = 0 => Chunks(r - 1) = (r - 1) \div ChunkSize
         /\ (r - 1) % ChunkSize # 0 => /\ Chunks(r - 1) = ((r - 1) \div ChunkSize) + 1
                               /\ (r - 2) % ChunkSize = ((r - 1) % ChunkSize) - 1
<1> DEFINE q == (r - 1) \div ChunkSize
           m == (r - 1) % ChunkSize
<1>1. q \in Nat /\ m \in 0 .. ChunkSize - 1 /\ r - 1 = ChunkSize * q + m
  <2>1. r - 1 \in Nat
    OBVIOUS
  <2> QED BY <2>1, DivMod, VramDmaAssumption
<1> HIDE DEF q, m
<1>2. Chunks(r) = q + 1
  <2>1. r + ChunkSize - 1 = ChunkSize * (q + 1) + m /\ q + 1 \in Nat
    BY <1>1, VramDmaAssumption
  <2> QED BY <1>1, <2>1, DivUnique, VramDmaAssumption DEF Chunks
<1>3. ASSUME m = 0 PROVE Chunks(r - 1) = q
  <2>1. /\ (r - 1) + ChunkSize - 1 = ChunkSize * q + (ChunkSize - 1)
        /\ ChunkSize - 1 \in 0 .. ChunkSize - 1
    BY <1>1, <1>3, VramDmaAssumption
  <2> QED BY <1>1, <2>1, DivUnique, VramDmaAssumption DEF Chunks
<1>4. ASSUME m # 0 PROVE Chunks(r - 1) = q + 1 /\ (r - 2) % ChunkSize = m - 1
  <2>1. /\ (r - 1) + ChunkSize - 1 = ChunkSize * (q + 1) + (m - 1)
        /\ r - 2 = ChunkSize * q + (m - 1)
        /\ m - 1 \in 0 .. ChunkSize - 1 /\ q + 1 \in Nat
    BY <1>1, <1>4, VramDmaAssumption
  <2>2. /\ (ChunkSize * (q + 1) + (m - 1)) \div ChunkSize = q + 1
        /\ (ChunkSize * q + (m - 1)) % ChunkSize = m - 1
    BY <1>1, <2>1, DivUnique, VramDmaAssumption
  <2> QED BY <2>1, <2>2 DEF Chunks
<1> QED BY <1>1, <1>2, <1>3, <1>4 DEF q, m

(* So many whole chunks are so many chunks.                                *)
LEMMA ChunksOfMultiple ==
  ASSUME NEW k \in Nat
  PROVE  Chunks(ChunkSize * k) = k
<1>1. /\ ChunkSize * k + ChunkSize - 1 = ChunkSize * k + (ChunkSize - 1)
      /\ ChunkSize - 1 \in 0 .. ChunkSize - 1
  BY VramDmaAssumption
<1> QED BY <1>1, DivUnique, VramDmaAssumption DEF Chunks

(***************************************************************************)
(* Types.                                                                  *)
(***************************************************************************)
BusesT == [BusNames -> [requests : SUBSET Requests, address : Devices \cup {"none"}]]

(* A request leaves buses.                                                 *)
LEMMA RequestedType ==
  ASSUME NEW buses \in BusesT, NEW place, NEW request \in Requests, NEW dev \in Devices, NEW keeps
  PROVE  Requested(buses, place, request, dev, keeps) \in BusesT
BY DEF Requested, BusesT

(* ... and so does that of a read,                                         *)
LEMMA ReadRequestedType ==
  ASSUME NEW buses \in BusesT, NEW place, NEW dev \in Devices \ {"Ppu"}
  PROVE  ReadRequested(buses, place, dev) \in BusesT
BY RequestedType DEF ReadRequested, Read, Requests

(* ... that of a write,                                                    *)
LEMMA WriteRequestedType ==
  ASSUME NEW buses \in BusesT, NEW place, NEW dev \in Devices \ {"Ppu"}
  PROVE  WriteRequested(buses, place, dev) \in BusesT
BY RequestedType DEF WriteRequested, Write, Requests

(* ... a flush,                                                            *)
LEMMA FlushedType ==
  ASSUME NEW buses \in BusesT, NEW place, NEW request
  PROVE  Flushed(buses, place, request) \in BusesT
BY DEF Flushed, BusesT

(* ... and the scan of the PPU.                                            *)
LEMMA WordRequestedType ==
  ASSUME NEW buses \in BusesT
  PROVE  WordRequested(buses) \in BusesT
BY DEF WordRequested, BusesT, Devices, BusNames

(* No step puts on a bus what is no request and no address of a device.    *)
LEMMA BusesTyped ==
  ASSUME bus \in BusesT, Next
  PROVE  bus' \in BusesT
<1> USE ReadRequestedType, WriteRequestedType, FlushedType, WordRequestedType
<1>0. {"Cpu", "Dma", "Hdma"} \subseteq Devices \ {"Ppu"}
  BY DEF Devices
<1> USE <1>0
<1>1. CASE CpuHeld
  BY <1>1 DEF CpuHeld, busVars
<1>2. CASE CpuMicroop
  BY <1>2 DEF CpuMicroop, SleepOn, Fetch, Access
<1>3. CASE FlushWrite
  BY <1>3 DEF FlushWrite, FlushAt
<1>4. CASE FlushRead
  BY <1>4 DEF FlushRead, FlushAt
<1>5. CASE CpuWaits
  BY <1>5 DEF CpuWaits, busVars
<1>6. CASE PpuTick
  BY <1>6 DEF PpuTick
<1>7. CASE HdmaCopy
  <2>1. CASE Even
    BY <1>7, <2>1 DEF HdmaCopy, TickEven, HdmaReads
  <2>2. CASE ~Even
    <3>1. HdmaMoves \in BusesT
      BY DEF HdmaMoves
    <3> QED BY <1>7, <2>2, <3>1 DEF HdmaCopy, TickOdd
  <2> QED BY <2>1, <2>2
<1>8. CASE HdmaState
  BY <1>8 DEF HdmaState, TickState, busVars
<1>9. CASE HdmaRequest
  BY <1>9 DEF HdmaRequest, TickRequest, busVars
<1>10. CASE HdmaPhase
  BY <1>10 DEF HdmaPhase, TickPhase
<1>11. CASE OamDma
  <2>1. \A source : Prepare(source) \in BusesT
    BY DEF Prepare
  <2>2. Flush \in BusesT
    <3>1. Flushed(bus, dma_source, Read("Dma")) \in BusesT
      OBVIOUS
    <3> QED BY <3>1 DEF Flush
  <2> QED BY <1>11, <2>1, <2>2 DEF OamDma, DmaTick, DmaBegin, DmaPrepare, DmaFlush, DmaIdle, busVars
<1> QED BY <1>1, <1>2, <1>3, <1>4, <1>5, <1>6, <1>7, <1>8, <1>9, <1>10, <1>11 DEF Next

(* tick_phase counts a chunk down, below zero being modulo CountMod.       *)
LEMMA CountedDown ==
  ASSUME NEW c \in 1 .. CountMod - 1
  PROVE  (c + CountMod - 1) % CountMod = c - 1
<1>1. c + CountMod - 1 = CountMod * 1 + (c - 1) /\ c - 1 \in 0 .. CountMod - 1
  BY VramDmaAssumption
<1> QED BY <1>1, DivUnique, VramDmaAssumption

(* write_hdma5 asks for whole chunks.                                      *)
LEMMA BytesOfChunks ==
  ASSUME NEW chunks \in 1 .. MaxChunks
  PROVE  /\ BytesOf(chunks) \in 1 .. ChunkSize * MaxChunks
         /\ BytesOf(chunks) % 2 = 0
         /\ Chunks(BytesOf(chunks)) = chunks
<1>1. ChunkSize * chunks \in 1 .. ChunkSize * MaxChunks
  BY VramDmaAssumption
<1> QED BY <1>1, MultiplesAreEven, ChunksOfMultiple DEF BytesOf

(* The registers are only written. *)
LEMMA RegistersWritten ==
  ASSUME TypeOK, io.at \in Registers
  PROVE  io.op = "W"
BY DEF TypeOK, Ios, IdleIo, BusNames, Registers

(* A chunk ends with an odd byte, at the end of a machine cycle; a transfer *)
(* that goes on has counted it.                                             *)
LEMMA ByteMoved ==
  ASSUME TransfersInv, stage = "copy", ~Even, hdma_state = "Transferring"
  PROVE  /\ remaining_bytes \in Nat \ {0}
         /\ count + 1 = Chunks(remaining_bytes)
         /\ ChunkIsOver =>
              /\ PhaseDue /\ ~EvenLeft /\ (remaining_bytes - 1) % 2 = 0
              /\ Chunks(remaining_bytes - 1) = count
              /\ ~LastByte => count > 0 /\ remaining_bytes > 1
         /\ ~ChunkIsOver =>
              /\ remaining_bytes > 1
              /\ Chunks(remaining_bytes - 1) = Chunks(remaining_bytes)
              /\ (remaining_bytes - 2) % ChunkSize = BytesOfChunk - 1
<1>1. remaining_bytes \in Nat \ {0}
  BY DEF TransfersInv, TypeOK, HdmaTypeOK, BytesInStep
<1>2. count + 1 = Chunks(remaining_bytes) /\ count \in Nat
  BY VramDmaAssumption
  DEF TransfersInv, Holding, CountFollowsBytes, ChunksLeft, Chunks, TypeOK, HdmaTypeOK
<1>3. ASSUME ChunkIsOver
      PROVE  /\ (remaining_bytes - 1) % 2 = 0
             /\ Chunks(remaining_bytes - 1) = count
  BY <1>1, <1>2, <1>3, EndIsEven, ChunksOf, VramDmaAssumption, DivMod DEF ChunkIsOver
<1>4. ASSUME ChunkIsOver
      PROVE  PhaseDue /\ ~EvenLeft
  BY <1>1, <1>3, <1>4 DEF EvenLeft, TransfersInv, TypeOK, BytesInStep, Even, PhaseDue, Double
<1>5. ASSUME ChunkIsOver, ~LastByte
      PROVE  count > 0 /\ remaining_bytes > 1
  <2> DEFINE r == remaining_bytes - 1
  <2>1. r \in Nat \ {0} /\ r - 1 \in Nat
    BY <1>1, <1>5 DEF LastByte
  <2>2. Chunks(r) = count
    BY <1>3, <1>5
  <2> HIDE DEF r
  <2>3. Chunks(r) = ((r - 1) \div ChunkSize) + 1 /\ (r - 1) \div ChunkSize \in Nat
    BY <2>1, ChunksOf, DivMod, VramDmaAssumption
  <2>4. count > 0
    BY <1>2, <2>2, <2>3
  <2> QED BY <1>1, <2>1, <2>4 DEF r
<1>6. ASSUME ~ChunkIsOver
      PROVE  /\ remaining_bytes > 1
             /\ Chunks(remaining_bytes - 1) = Chunks(remaining_bytes)
             /\ (remaining_bytes - 2) % ChunkSize = BytesOfChunk - 1
  <2>1. remaining_bytes # 1
    BY <1>6, VramDmaAssumption DEF ChunkIsOver
  <2> QED BY <1>1, <1>6, <2>1, ChunksOf DEF ChunkIsOver, BytesOfChunk
<1> QED BY <1>1, <1>2, <1>3, <1>4, <1>5, <1>6

(* A transfer that goes on holds the CPU, and a paused one releases it.     *)
LEMMA ChunkEnded ==
  ASSUME TransfersInv, HdmaCopy, ~Even, hdma_state = "Transferring", ChunkIsOver
  PROVE  /\ PhaseDue /\ stage' = "state" /\ count_requested' = TRUE
         /\ hdma_state' \in {"None", "Paused", "Transferring"}
         /\ hdma_state' = "Paused" => unblock' = TRUE /\ hdma_mode = "HBlank"
         /\ hdma_state' = "Transferring" =>
              unblock' = unblock /\ hdma_mode = "GeneralPurpose"
         /\ hdma_state' # "None" =>
              /\ remaining_bytes' = remaining_bytes - 1
              /\ remaining_bytes' > 0 /\ remaining_bytes' % 2 = 0
              /\ Chunks(remaining_bytes') = count
         /\ UNCHANGED <<hdma_mode, active, count, last_hblank, last_halted, clock, t, cpuVars,
                        ppuVars, dmaVars>>
<1>1. /\ stage = "copy" /\ TickOdd /\ stage' = "state"
      /\ UNCHANGED <<clock, t, cpuVars, ppuVars, dmaVars>>
  BY DEF HdmaCopy, GoTo
<1>2. PICK overflow \in BOOLEAN : EndChunk(overflow)
  BY <1>1 DEF TickOdd
<1>3. /\ PhaseDue
      /\ Chunks(remaining_bytes - 1) = count /\ (remaining_bytes - 1) % 2 = 0
      /\ ~LastByte => count > 0 /\ remaining_bytes > 1
  BY <1>1, ByteMoved
<1>4. /\ hdma_state' = AfterChunk(overflow) /\ count_requested' = TRUE
      /\ UNCHANGED <<hdma_mode, active, count, last_hblank, last_halted>>
      /\ unblock' = (unblock \/ Unblocks(overflow))
      /\ remaining_bytes' = IF overflow THEN 0 ELSE remaining_bytes - 1
  BY <1>1, <1>2 DEF EndChunk, TickOdd
<1>5. /\ hdma_mode \in {"HBlank", "GeneralPurpose"} /\ unblock \in BOOLEAN
      /\ remaining_bytes \in Nat /\ count \in Nat
  BY VramDmaAssumption DEF TransfersInv, TypeOK, HdmaTypeOK
<1>6. CASE overflow \/ LastByte
  <2>1. hdma_state' = "None"
    BY <1>4, <1>6 DEF AfterChunk
  <2> QED BY <1>1, <1>3, <1>4, <2>1
<1>7. CASE ~overflow /\ ~LastByte /\ hdma_mode = "HBlank"
  <2>1. hdma_state' = "Paused" /\ unblock' = TRUE /\ remaining_bytes' = remaining_bytes - 1
    BY <1>4, <1>7 DEF AfterChunk, Unblocks
  <2> QED BY <1>1, <1>3, <1>4, <1>5, <1>7, <2>1
<1>8. CASE ~overflow /\ ~LastByte /\ hdma_mode = "GeneralPurpose"
  <2>1. hdma_state' = "Transferring" /\ remaining_bytes' = remaining_bytes - 1
    BY <1>4, <1>8 DEF AfterChunk
  <2>2. ~Unblocks(overflow)
    BY <1>3, <1>5, <1>8 DEF Unblocks
  <2>3. unblock' = unblock
    BY <1>4, <1>5, <2>2
  <2> QED BY <1>1, <1>3, <1>4, <1>5, <1>8, <2>1, <2>3
<1> QED BY <1>5, <1>6, <1>7, <1>8

(* No HBlank begins between the end of a chunk and the return of the CPU.  *)
LEMMA NoResumeWhileHeld ==
  ASSUME TransfersInv, stage = "state", active
  PROVE  ~Resumes(hblank)
BY DEF TransfersInv, CpuInv, Holding, HBlankSeen, Busy, Late, PpuDone, StateDone, Resumes,
       TypeOK, HdmaTypeOK

(* The PPU cannot end a mode before HBlank while the CPU is held for one.  *)
LEMMA LongModeLasts ==
  ASSUME TransfersInv, stage = "ppu", Busy, active, LongMode
  PROVE  age # MinCycles
<1>1. BytesOfChunk \in Nat
  BY VramDmaAssumption DEF BytesOfChunk, TransfersInv, BytesInStep, TypeOK, HdmaTypeOK, Busy,
     Late, Holding
<1>2. t \in 0 .. 3 /\ MinCycles \in Nat /\ age \in Nat
  BY TransfersAssumption DEF TransfersInv, TypeOK
<1>3. Left \in Nat
  BY <1>1, <1>2 DEF Left, TransfersInv, Busy, Waiting, Late, Holding, ByteIn, Period, PhaseIn
<1>4. Now = 4 * age + (t + 1)
  BY <1>2 DEF Now, PpuDone
<1> QED BY <1>2, <1>3, <1>4 DEF TransfersInv, InTime

(* The PPU may only put its own address on the OAM bus.                    *)
LEMMA PpuRequestsNothing ==
  ASSUME BusesTypeOK, NEW name \in BusNames
  PROVE  /\ WordRequested(bus)[name].requests = bus[name].requests
         /\ WordRequested(bus)[name].address \in {bus[name].address, "Ppu"}
         /\ name = "memory" \/ Write("Dma") \in bus[name].requests =>
              WordRequested(bus)[name] = bus[name]
<1> DEFINE Record == [requests : SUBSET Requests, address : Devices \cup {"none"}]
<1>1. bus \in [BusNames -> Record] /\ "oam" \in BusNames
  BY DEF BusesTypeOK, BusNames
<1>2. CASE LeftByPpu(bus["oam"].requests)
  BY <1>2 DEF WordRequested
<1>3. CASE ~LeftByPpu(bus["oam"].requests)
  <2>1. WordRequested(bus) = [bus EXCEPT !["oam"].address = "Ppu"]
    BY <1>3 DEF WordRequested
  <2>2. CASE name = "oam"
    <3>1. Write("Dma") \notin bus["oam"].requests
      BY <1>3 DEF LeftByPpu
    <3>2. WordRequested(bus)["oam"] = [bus["oam"] EXCEPT !.address = "Ppu"]
      BY <1>1, <2>1
    <3>3. bus["oam"] \in Record
      BY <1>1
    <3> QED BY <2>2, <3>1, <3>2, <3>3
  <2>3. CASE name # "oam"
    <3>1. WordRequested(bus)[name] = bus[name] /\ name = "memory"
      BY <1>1, <2>1, <2>3 DEF BusNames
    <3> QED BY <3>1
  <2> QED BY <2>2, <2>3
<1> QED BY <1>2, <1>3

(* A flush leaves other requests, and then the address, alone.             *)
LEMMA FlushLeaves ==
  ASSUME NEW buses, NEW place, NEW request, NEW name \in BusNames,
         NEW other \in buses[name].requests, other # request
  PROVE  /\ other \in Flushed(buses, place, request)[name].requests
         /\ Flushed(buses, place, request)[name].address = buses[name].address
BY DEF Flushed

(* The flush of the OAM DMA leaves the pending read of the CPU alone.      *)
LEMMA FlushOfDma ==
  ASSUME NEW name \in BusNames, Read("Cpu") \in bus[name].requests
  PROVE  /\ Read("Cpu") \in Flush[name].requests
         /\ Flush[name].address = bus[name].address
<1>1. Read("Cpu") # Read("Dma") /\ Read("Cpu") # Write("Dma")
  BY DEF Read, Write
<1> DEFINE first == Flushed(bus, dma_source, Read("Dma"))
<1>2. Read("Cpu") \in first[name].requests /\ first[name].address = bus[name].address
  BY <1>1, FlushLeaves
<1>3. /\ Read("Cpu") \in Flushed(first, "oam", Write("Dma"))[name].requests
      /\ Flushed(first, "oam", Write("Dma"))[name].address = first[name].address
  BY <1>1, <1>2, FlushLeaves
<1> QED BY <1>2, <1>3 DEF Flush

(* The accesses of the CPU,                                                *)
LEMMA IosOf ==
  /\ IdleIo \in Ios
  /\ \A place \in BusNames : [op |-> "R", at |-> place] \in Ios
  /\ \A place \in BusNames \cup Registers : [op |-> "W", at |-> place] \in Ios
BY DEF Ios

(* ... and that it starts no other.                                        *)
LEMMA IoTyped ==
  ASSUME Fetch \/ Access
  PROVE  io' \in Ios
<1>1. CASE Fetch
  BY <1>1, IosOf DEF Fetch
<1>2. CASE Access
  <2>1. (Registers \ IF hdma5_written THEN {"HDMA5"} ELSE {}) \subseteq Registers
    BY Zenon
  <2> QED BY <1>2, <2>1, IosOf DEF Access
<1> QED BY <1>1, <1>2

CoreTypeOK ==
  /\ clock \in Clocks /\ t \in 0 .. 3 /\ stage \in Stages
  /\ fetching \in BOOLEAN /\ halted \in BOOLEAN /\ microops \in 0 .. MaxMicroops
  /\ io \in Ios /\ hdma5_written \in BOOLEAN
  /\ mode \in Modes /\ age \in 0 .. MinCycles /\ hblank \in BOOLEAN

(* No step leaves the type of the OAM DMA (dma.cpp).                       *)
LEMMA DmaTyped ==
  ASSUME TransfersInv, Next
  PROVE  DmaTypeOK'
<1> USE BusesAssumption, TransfersAssumption, VramDmaAssumption, OamDmaAssumption DEF
      TransfersInv, TypeOK, StageFits, GoTo, Position, Double, Even, MicroopT, InStep,
      PhaseDue, CpuDone, PpuDone, StateDone, PhaseDone, cpuVars, ppuVars, busVars,
      dmaVars, hdmaVars, DmaTypeOK, Delay, BytesInStep
<1>1. CASE CpuHeld
  BY <1>1 DEF CpuHeld
<1>2. CASE CpuMicroop
  <2>1. CASE SleepOn
    BY <1>2, <2>1 DEF CpuMicroop, SleepOn, AfterMicroop, WritePosition
  <2>2. CASE Fetch
    BY <1>2, <2>2 DEF CpuMicroop, Fetch, AfterMicroop, WritePosition, IdleIo
  <2>3. CASE Access
    BY <1>2, <2>3 DEF CpuMicroop, Access, AfterMicroop, WritePosition, IdleIo, Registers
  <2> QED BY <1>2, <2>1, <2>2, <2>3 DEF CpuMicroop
<1>3. CASE FlushWrite
  BY <1>3 DEF FlushWrite, WriteDue, WritePosition, IdleIo, StartTransfer, WriteHdma5
<1>4. CASE FlushRead
  BY <1>4 DEF FlushRead, ReadDue, ReadPosition, IdleIo
<1>5. CASE CpuWaits
  BY <1>5 DEF CpuWaits
<1>6. CASE PpuTick
  BY <1>6 DEF PpuTick, AdvanceMode, MayEnd, NextModes
<1>7. CASE HdmaCopy
  <2>1. CASE Even
    BY <1>7, <2>1 DEF HdmaCopy, TickEven
  <2>2. CASE ~Even /\ hdma_state # "Transferring"
    BY <1>7, <2>2 DEF HdmaCopy, TickOdd
  <2>3. CASE ~Even /\ hdma_state = "Transferring" /\ ~ChunkIsOver
    BY <1>7, <2>3 DEF HdmaCopy, TickOdd
  <2>4. CASE ~Even /\ hdma_state = "Transferring" /\ ChunkIsOver
    BY <1>7, <2>4 DEF HdmaCopy, TickOdd, EndChunk, AfterChunk, LastByte, Unblocks
  <2> QED BY <1>7, <2>1, <2>2, <2>3, <2>4
<1>8. CASE HdmaState
  BY <1>8 DEF HdmaState, TickState, Resumes
<1>9. CASE HdmaRequest
  BY <1>9 DEF HdmaRequest, TickRequest
<1>10. CASE HdmaPhase
  <2>1. CASE MayBegin(fetching)
    BY <1>10, <2>1 DEF HdmaPhase, TickPhase, MayBegin, Begin
  <2>2. CASE ~MayBegin(fetching)
    BY <1>10, <2>2 DEF HdmaPhase, TickPhase, MayBegin
  <2> QED BY <1>10, <2>1, <2>2
<1>11. CASE OamDma
  BY <1>11 DEF OamDma, DmaTick, DmaDue, DmaBegin, DmaPrepare, DmaFlush, DmaIdle, Begins,
       MoreBytes
<1> QED BY <1>1, <1>2, <1>3, <1>4, <1>5, <1>6, <1>7, <1>8, <1>9, <1>10, <1>11 DEF Next

(* No step leaves the type of the VRAM DMA (hdma.cpp).                     *)
LEMMA HdmaTyped ==
  ASSUME TransfersInv, Next
  PROVE  HdmaTypeOK'
<1> USE BusesAssumption, TransfersAssumption, VramDmaAssumption, OamDmaAssumption DEF
      TransfersInv, TypeOK, StageFits, GoTo, Position, Double, Even, MicroopT, InStep,
      PhaseDue, CpuDone, PpuDone, StateDone, PhaseDone, cpuVars, ppuVars, busVars,
      dmaVars, hdmaVars, HdmaTypeOK, HdmaStates, Holding, BytesInStep
<1>1. CASE CpuHeld
  BY <1>1 DEF CpuHeld
<1>2. CASE CpuMicroop
  <2>1. CASE SleepOn
    BY <1>2, <2>1 DEF CpuMicroop, SleepOn, AfterMicroop, WritePosition
  <2>2. CASE Fetch
    BY <1>2, <2>2 DEF CpuMicroop, Fetch, AfterMicroop, WritePosition, IdleIo
  <2>3. CASE Access
    BY <1>2, <2>3 DEF CpuMicroop, Access, AfterMicroop, WritePosition, IdleIo, Registers
  <2> QED BY <1>2, <2>1, <2>2, <2>3 DEF CpuMicroop
<1>3. CASE FlushWrite
  BY <1>3, BytesOfChunks DEF FlushWrite, WriteHdma5
<1>4. CASE FlushRead
  BY <1>4 DEF FlushRead, ReadDue, ReadPosition, IdleIo
<1>5. CASE CpuWaits
  BY <1>5 DEF CpuWaits
<1>6. CASE PpuTick
  BY <1>6 DEF PpuTick, AdvanceMode, MayEnd, NextModes
<1>7. CASE HdmaCopy
  <2>1. CASE Even
    BY <1>7, <2>1 DEF HdmaCopy, TickEven
  <2>2. CASE ~Even /\ hdma_state # "Transferring"
    BY <1>7, <2>2 DEF HdmaCopy, TickOdd
  <2>3. CASE ~Even /\ hdma_state = "Transferring" /\ ~ChunkIsOver
    BY <1>7, <2>3 DEF HdmaCopy, TickOdd
  <2>4. CASE ~Even /\ hdma_state = "Transferring" /\ ChunkIsOver
    <3>1. PICK overflow \in BOOLEAN : EndChunk(overflow)
      BY <1>7, <2>4 DEF HdmaCopy, TickOdd
    <3>2. remaining_bytes' \in 0 .. ChunkSize * MaxChunks
      BY <1>7, <2>4, <3>1 DEF EndChunk
    <3>3. hdma_state' \in HdmaStates /\ unblock' \in BOOLEAN /\ count_requested' \in BOOLEAN
      BY <1>7, <2>4, <3>1 DEF EndChunk, AfterChunk, Unblocks
    <3> QED BY <1>7, <2>4, <3>2, <3>3 DEF HdmaCopy, TickOdd
  <2> QED BY <1>7, <2>1, <2>2, <2>3, <2>4
<1>8. CASE HdmaState
  BY <1>8 DEF HdmaState, TickState, Resumes
<1>9. CASE HdmaRequest
  BY <1>9 DEF HdmaRequest, TickRequest
<1>10. CASE HdmaPhase
  <2>1. CASE MayBegin(fetching)
    BY <1>10, <2>1 DEF HdmaPhase, TickPhase, MayBegin, Begin
  <2>2. CASE ~MayBegin(fetching)
    <3>1. (count + CountMod - 1) % CountMod \in 0 .. CountMod - 1
      <4>1. count + CountMod - 1 \in Nat
        OBVIOUS
      <4> QED BY <4>1, DivMod
    <3>2. count' \in 0 .. CountMod - 1
      BY <1>10, <2>2, <3>1 DEF HdmaPhase, TickPhase, MayBegin
    <3>3. active' \in BOOLEAN /\ unblock' \in BOOLEAN /\ count_requested' \in BOOLEAN
      BY <1>10, <2>2 DEF HdmaPhase, TickPhase, MayBegin
    <3> QED BY <1>10, <2>2, <3>2, <3>3 DEF HdmaPhase, TickPhase, MayBegin
  <2> QED BY <1>10, <2>1, <2>2
<1>11. CASE OamDma
  BY <1>11 DEF OamDma, DmaTick, DmaDue, DmaBegin, DmaPrepare, DmaFlush, DmaIdle, Begins,
       MoreBytes
<1> QED BY <1>1, <1>2, <1>3, <1>4, <1>5, <1>6, <1>7, <1>8, <1>9, <1>10, <1>11 DEF Next

(* Only the transfers acquire, each its own buses.                         *)
LEMMA AcquirersTyped ==
  ASSUME TransfersInv, Next
  PROVE  oam_acquirers' \subseteq {"Dma", "Hdma"} /\ vram_acquirers' \subseteq {"Hdma"}
<1> USE BusesAssumption, TransfersAssumption, VramDmaAssumption, OamDmaAssumption DEF
      TransfersInv, TypeOK, StageFits, GoTo, Position, Double, Even, MicroopT, InStep,
      PhaseDue, CpuDone, PpuDone, StateDone, PhaseDone, cpuVars, ppuVars, busVars,
      dmaVars, hdmaVars, BusesTypeOK
<1>1. CASE CpuHeld
  BY <1>1 DEF CpuHeld
<1>2. CASE CpuMicroop
  <2>1. CASE SleepOn
    BY <1>2, <2>1 DEF CpuMicroop, SleepOn, AfterMicroop, WritePosition
  <2>2. CASE Fetch
    BY <1>2, <2>2 DEF CpuMicroop, Fetch, AfterMicroop, WritePosition, IdleIo
  <2>3. CASE Access
    BY <1>2, <2>3 DEF CpuMicroop, Access, AfterMicroop, WritePosition, IdleIo, Registers
  <2> QED BY <1>2, <2>1, <2>2, <2>3 DEF CpuMicroop
<1>3. CASE FlushWrite
  BY <1>3 DEF FlushWrite, WriteDue, WritePosition, IdleIo, StartTransfer, WriteHdma5, Delay
<1>4. CASE FlushRead
  BY <1>4 DEF FlushRead, ReadDue, ReadPosition, IdleIo
<1>5. CASE CpuWaits
  BY <1>5 DEF CpuWaits
<1>6. CASE PpuTick
  BY <1>6 DEF PpuTick, AdvanceMode, MayEnd, NextModes
<1>7. CASE HdmaCopy
  <2>1. CASE Even
    BY <1>7, <2>1 DEF HdmaCopy, TickEven
  <2>2. CASE ~Even /\ hdma_state # "Transferring"
    BY <1>7, <2>2 DEF HdmaCopy, TickOdd
  <2>3. CASE ~Even /\ hdma_state = "Transferring" /\ ~ChunkIsOver
    BY <1>7, <2>3 DEF HdmaCopy, TickOdd
  <2>4. CASE ~Even /\ hdma_state = "Transferring" /\ ChunkIsOver
    BY <1>7, <2>4 DEF HdmaCopy, TickOdd, EndChunk, AfterChunk, LastByte, Unblocks
  <2> QED BY <1>7, <2>1, <2>2, <2>3, <2>4
<1>8. CASE HdmaState
  BY <1>8 DEF HdmaState, TickState, Resumes
<1>9. CASE HdmaRequest
  BY <1>9 DEF HdmaRequest, TickRequest
<1>10. CASE HdmaPhase
  <2>1. CASE MayBegin(fetching)
    BY <1>10, <2>1 DEF HdmaPhase, TickPhase, MayBegin, Begin
  <2>2. CASE ~MayBegin(fetching)
    BY <1>10, <2>2 DEF HdmaPhase, TickPhase, MayBegin
  <2> QED BY <1>10, <2>1, <2>2
<1>11. CASE OamDma
  BY <1>11 DEF OamDma, DmaTick, DmaDue, DmaBegin, DmaPrepare, DmaFlush, DmaIdle, Begins,
       MoreBytes
<1> QED BY <1>1, <1>2, <1>3, <1>4, <1>5, <1>6, <1>7, <1>8, <1>9, <1>10, <1>11 DEF Next

(* No step leaves the type of the schedule, the CPU and the PPU.           *)
LEMMA CoreTyped ==
  ASSUME TransfersInv, Next
  PROVE  CoreTypeOK'
<1> USE BusesAssumption, TransfersAssumption, VramDmaAssumption, OamDmaAssumption, IosOf
      DEF TransfersInv, TypeOK, StageFits, GoTo, Position, Double, Even, MicroopT, InStep,
      PhaseDue, CpuDone, PpuDone, StateDone, PhaseDone, cpuVars, ppuVars, busVars,
      dmaVars, hdmaVars, CoreTypeOK, Stages, Modes
<1>1. CASE CpuHeld
  BY <1>1 DEF CpuHeld
<1>2. CASE CpuMicroop
  <2>1. CASE SleepOn
    BY <1>2, <2>1 DEF CpuMicroop, SleepOn, AfterMicroop, WritePosition
  <2>2. CASE Fetch
    <3>1. halted' \in BOOLEAN
      <4>1. CASE fetching
        BY <2>2, <4>1 DEF Fetch
      <4>2. CASE ~fetching
        BY <2>2, <4>2 DEF Fetch
      <4> QED BY <4>1, <4>2
    <3>2. io' \in Ios
      BY <2>2, IoTyped
    <3>3. fetching' = TRUE /\ hdma5_written' = FALSE /\ microops' = 0
      BY <2>2, Zenon DEF Fetch
    <3>4. stage' \in Stages /\ UNCHANGED <<clock, t, ppuVars>>
      BY <1>2 DEF CpuMicroop, AfterMicroop, WritePosition
    <3>5. 0 \in 0 .. MaxMicroops
      OBVIOUS
    <3>6. clock' \in Clocks /\ t' \in 0 .. 3
      BY <3>4
    <3>7. mode' \in Modes /\ age' \in 0 .. MinCycles /\ hblank' \in BOOLEAN
      BY <3>4
    <3>8. fetching' \in BOOLEAN /\ hdma5_written' \in BOOLEAN /\ microops' \in 0 ..
          MaxMicroops
      BY <3>3, <3>5
    <3> QED BY <3>1, <3>2, <3>4, <3>6, <3>7, <3>8
  <2>3. CASE Access
    <3>1. io' \in Ios
      BY <2>3, IoTyped
    <3>2. hdma5_written' \in BOOLEAN /\ microops' \in 0 .. MaxMicroops
      BY <2>3 DEF Access
    <3> QED BY <1>2, <2>3, <3>1, <3>2 DEF CpuMicroop, Access, AfterMicroop, WritePosition
  <2> QED BY <1>2, <2>1, <2>2, <2>3 DEF CpuMicroop
<1>3. CASE FlushWrite
  BY <1>3 DEF FlushWrite, WriteDue, WritePosition
<1>4. CASE FlushRead
  BY <1>4 DEF FlushRead, ReadDue, ReadPosition
<1>5. CASE CpuWaits
  BY <1>5 DEF CpuWaits
<1>6. CASE PpuTick
  BY <1>6 DEF PpuTick, AdvanceMode, MayEnd, NextModes
<1>7. CASE HdmaCopy
  <2>1. CASE Even
    BY <1>7, <2>1 DEF HdmaCopy, TickEven
  <2>2. CASE ~Even /\ hdma_state # "Transferring"
    BY <1>7, <2>2 DEF HdmaCopy, TickOdd
  <2>3. CASE ~Even /\ hdma_state = "Transferring" /\ ~ChunkIsOver
    BY <1>7, <2>3 DEF HdmaCopy, TickOdd
  <2>4. CASE ~Even /\ hdma_state = "Transferring" /\ ChunkIsOver
    BY <1>7, <2>4 DEF HdmaCopy, TickOdd, EndChunk, AfterChunk, LastByte, Unblocks
  <2> QED BY <1>7, <2>1, <2>2, <2>3, <2>4
<1>8. CASE HdmaState
  BY <1>8 DEF HdmaState, TickState, Resumes
<1>9. CASE HdmaRequest
  BY <1>9 DEF HdmaRequest, TickRequest
<1>10. CASE HdmaPhase
  <2>1. CASE MayBegin(fetching)
    BY <1>10, <2>1 DEF HdmaPhase, TickPhase, MayBegin, Begin
  <2>2. CASE ~MayBegin(fetching)
    BY <1>10, <2>2 DEF HdmaPhase, TickPhase, MayBegin
  <2> QED BY <1>10, <2>1, <2>2
<1>11. CASE OamDma
  BY <1>11 DEF OamDma, DmaTick, DmaDue, DmaBegin, DmaPrepare, DmaFlush, DmaIdle, Begins,
       MoreBytes
<1> QED BY <1>1, <1>2, <1>3, <1>4, <1>5, <1>6, <1>7, <1>8, <1>9, <1>10, <1>11 DEF Next

(* The CPU is held at a fetch and with no access under way.                *)
LEMMA StageKept ==
  ASSUME TransfersInv, Next
  PROVE  StageFits' /\ CpuInv'
<1> USE TransfersAssumption DEF TransfersInv, TypeOK, StageFits, GoTo, Position, Double,
      Even, MicroopT, InStep, PhaseDue, CpuDone, PpuDone, StateDone, PhaseDone, cpuVars,
      ppuVars, busVars, dmaVars, hdmaVars, CpuInv, WritePending, ReadPending, BusNames
<1>1. CASE CpuHeld
  BY <1>1 DEF CpuHeld
<1>2. CASE CpuMicroop
  <2>1. CASE SleepOn
    <3> USE DEF CpuMicroop, SleepOn, AfterMicroop, WritePosition
    <3>1. StageFits'
      BY <1>2, <2>1
    <3>2. (io.at = "HDMA5" => hdma5_written)'
      BY <1>2, <2>1
    <3>3. (last_halted # halted => MicroopT /\ ~StateDone /\ ~active)'
      BY <1>2, <2>1
    <3>4. (io.op = "W" => WritePending /\ ~fetching /\ ~active)'
      BY <1>2, <2>1
    <3>5. (io.op = "R" /\ InStep => ReadPending /\ ~active)'
      BY <1>2, <2>1
    <3> QED BY <1>2, <2>1, <3>1, <3>2, <3>3, <3>4, <3>5
  <2>2. CASE Fetch
    BY <1>2, <2>2 DEF CpuMicroop, Fetch, AfterMicroop, WritePosition, IdleIo
  <2>3. CASE Access
    <3> USE DEF CpuMicroop, Access, AfterMicroop, WritePosition, IdleIo, Registers
    <3>1. StageFits'
      BY <1>2, <2>3
    <3>2. (io.at = "HDMA5" => hdma5_written)'
      BY <1>2, <2>3
    <3>3. (last_halted # halted => MicroopT /\ ~StateDone /\ ~active)'
      BY <1>2, <2>3
    <3>4. (io.op = "W" => WritePending /\ ~fetching /\ ~active)'
      BY <1>2, <2>3
    <3>5. (io.op = "R" /\ InStep => ReadPending /\ ~active)'
      BY <1>2, <2>3
    <3> QED BY <1>2, <2>3, <3>1, <3>2, <3>3, <3>4, <3>5
  <2> QED BY <1>2, <2>1, <2>2, <2>3 DEF CpuMicroop
<1>3. CASE FlushWrite
  BY <1>3 DEF FlushWrite, WriteDue, WritePosition, IdleIo, StartTransfer, WriteHdma5, Delay
<1>4. CASE FlushRead
  BY <1>4 DEF FlushRead, ReadDue, ReadPosition, IdleIo
<1>5. CASE CpuWaits
  BY <1>5 DEF CpuWaits
<1>6. CASE PpuTick
  BY <1>6 DEF PpuTick, AdvanceMode, MayEnd, NextModes
<1>7. CASE HdmaCopy
  <2>1. CASE Even
    BY <1>7, <2>1 DEF HdmaCopy, TickEven
  <2>2. CASE ~Even /\ hdma_state # "Transferring"
    BY <1>7, <2>2 DEF HdmaCopy, TickOdd
  <2>3. CASE ~Even /\ hdma_state = "Transferring" /\ ~ChunkIsOver
    BY <1>7, <2>3 DEF HdmaCopy, TickOdd
  <2>4. CASE ~Even /\ hdma_state = "Transferring" /\ ChunkIsOver
    BY <1>7, <2>4 DEF HdmaCopy, TickOdd, EndChunk, AfterChunk, LastByte, Unblocks
  <2> QED BY <1>7, <2>1, <2>2, <2>3, <2>4
<1>8. CASE HdmaState
  BY <1>8 DEF HdmaState, TickState, Resumes
<1>9. CASE HdmaRequest
  BY <1>9 DEF HdmaRequest, TickRequest
<1>10. CASE HdmaPhase
  <2>1. CASE MayBegin(fetching)
    BY <1>10, <2>1 DEF HdmaPhase, TickPhase, MayBegin, Begin
  <2>2. CASE ~MayBegin(fetching)
    BY <1>10, <2>2 DEF HdmaPhase, TickPhase, MayBegin
  <2> QED BY <1>10, <2>1, <2>2
<1>11. CASE OamDma
  BY <1>11 DEF OamDma, DmaTick, DmaDue, DmaBegin, DmaPrepare, DmaFlush, DmaIdle, Begins,
       MoreBytes
<1> QED BY <1>1, <1>2, <1>3, <1>4, <1>5, <1>6, <1>7, <1>8, <1>9, <1>10, <1>11 DEF Next

(* A transfer under way holds the CPU, and one that has paused lets it     *)
(* go.                                                                     *)
LEMMA HoldingKept ==
  ASSUME TransfersInv, Next
  PROVE  Holding'
<1> USE TransfersAssumption DEF TransfersInv, TypeOK, StageFits, GoTo, Position, Double,
      Even, MicroopT, InStep, PhaseDue, CpuDone, PpuDone, StateDone, PhaseDone, cpuVars,
      ppuVars, busVars, dmaVars, hdmaVars, CpuInv, Holding, Waiting, Late, HdmaTypeOK
<1>1. CASE CpuHeld
  BY <1>1 DEF CpuHeld
<1>2. CASE CpuMicroop
  <2>1. CASE SleepOn
    BY <1>2, <2>1 DEF CpuMicroop, SleepOn, AfterMicroop, WritePosition
  <2>2. CASE Fetch
    BY <1>2, <2>2 DEF CpuMicroop, Fetch, AfterMicroop, WritePosition, IdleIo
  <2>3. CASE Access
    BY <1>2, <2>3 DEF CpuMicroop, Access, AfterMicroop, WritePosition, IdleIo, Registers
  <2> QED BY <1>2, <2>1, <2>2, <2>3 DEF CpuMicroop
<1>3. CASE FlushWrite
  BY <1>3 DEF FlushWrite, WriteDue, WritePosition, IdleIo, StartTransfer, WriteHdma5, Delay
<1>4. CASE FlushRead
  BY <1>4 DEF FlushRead, ReadDue, ReadPosition, IdleIo
<1>5. CASE CpuWaits
  BY <1>5 DEF CpuWaits
<1>6. CASE PpuTick
  BY <1>6 DEF PpuTick, AdvanceMode, MayEnd, NextModes
<1>7. CASE HdmaCopy
  <2>1. CASE Even
    BY <1>7, <2>1 DEF HdmaCopy, TickEven
  <2>2. CASE ~Even /\ hdma_state # "Transferring"
    BY <1>7, <2>2 DEF HdmaCopy, TickOdd
  <2>3. CASE ~Even /\ hdma_state = "Transferring" /\ ~ChunkIsOver
    BY <1>7, <2>3 DEF HdmaCopy, TickOdd
  <2>4. CASE ~Even /\ hdma_state = "Transferring" /\ ChunkIsOver
    <3> USE DEF Holding
    <3>1. (hdma_state = "Transferring" => active /\ ~unblock)'
      BY <1>7, <2>4, ChunkEnded
    <3>2. (hdma_state = "Paused" => hdma_mode = "HBlank")'
      BY <1>7, <2>4, ChunkEnded
    <3>3. (Waiting => ~active)'
      BY <1>7, <2>4, ChunkEnded
    <3>4. (Late => unblock)'
      BY <1>7, <2>4, ChunkEnded
    <3>5. (unblock => active /\ hdma_state \in {"None", "Paused"})'
      BY <1>7, <2>4, ChunkEnded
    <3>6. (count_requested => PhaseDue /\ stage \in {"state", "phase"} /\ active /\
          hdma_state \in {"None", "Paused", "Transferring"})'
      BY <1>7, <2>4, ChunkEnded
    <3> QED BY <1>7, <2>4, <3>1, <3>2, <3>3, <3>4, <3>5, <3>6
  <2> QED BY <1>7, <2>1, <2>2, <2>3, <2>4
<1>8. CASE HdmaState
  BY <1>8, NoResumeWhileHeld DEF HdmaState, TickState, Resumes
<1>9. CASE HdmaRequest
  BY <1>9 DEF HdmaRequest, TickRequest
<1>10. CASE HdmaPhase
  <2>1. CASE MayBegin(fetching)
    BY <1>10, <2>1 DEF HdmaPhase, TickPhase, MayBegin, Begin
  <2>2. CASE ~MayBegin(fetching)
    BY <1>10, <2>2 DEF HdmaPhase, TickPhase, MayBegin
  <2> QED BY <1>10, <2>1, <2>2
<1>11. CASE OamDma
  BY <1>11 DEF OamDma, DmaTick, DmaDue, DmaBegin, DmaPrepare, DmaFlush, DmaIdle, Begins,
       MoreBytes
<1> QED BY <1>1, <1>2, <1>3, <1>4, <1>5, <1>6, <1>7, <1>8, <1>9, <1>10, <1>11 DEF Next

(* The bytes left are in step with the T-cycles.                           *)
LEMMA BytesKept ==
  ASSUME TransfersInv, Next
  PROVE  BytesInStep'
<1> USE TransfersAssumption DEF TransfersInv, TypeOK, StageFits, GoTo, Position, Double,
      Even, MicroopT, InStep, PhaseDue, CpuDone, PpuDone, StateDone, PhaseDone, cpuVars,
      ppuVars, busVars, dmaVars, hdmaVars, CpuInv, Holding, BytesInStep, MoreBytes,
      EvenLeft, DmaTypeOK, HdmaTypeOK
<1>1. CASE CpuHeld
  BY <1>1 DEF CpuHeld
<1>2. CASE CpuMicroop
  <2>1. CASE SleepOn
    BY <1>2, <2>1 DEF CpuMicroop, SleepOn, AfterMicroop, WritePosition
  <2>2. CASE Fetch
    BY <1>2, <2>2 DEF CpuMicroop, Fetch, AfterMicroop, WritePosition, IdleIo
  <2>3. CASE Access
    BY <1>2, <2>3 DEF CpuMicroop, Access, AfterMicroop, WritePosition, IdleIo, Registers
  <2> QED BY <1>2, <2>1, <2>2, <2>3 DEF CpuMicroop
<1>3. CASE FlushWrite
  BY <1>3, BytesOfChunks, SMTT(60) DEF FlushWrite, WriteDue, WritePosition, IdleIo,
       StartTransfer, WriteHdma5, Delay
<1>4. CASE FlushRead
  BY <1>4 DEF FlushRead, ReadDue, ReadPosition, IdleIo
<1>5. CASE CpuWaits
  BY <1>5 DEF CpuWaits
<1>6. CASE PpuTick
  BY <1>6 DEF PpuTick, AdvanceMode, MayEnd, NextModes
<1>7. CASE HdmaCopy
  <2>1. CASE Even
    BY <1>7, <2>1 DEF HdmaCopy, TickEven
  <2>2. CASE ~Even /\ hdma_state # "Transferring"
    BY <1>7, <2>2 DEF HdmaCopy, TickOdd
  <2>3. CASE ~Even /\ hdma_state = "Transferring" /\ ~ChunkIsOver
    <3> USE DEF HdmaCopy, TickOdd
    <3>1. (dma_state = "Flush" => MoreBytes)'
      BY <1>7, <2>3, ByteMoved
    <3>2. (hdma_state # "None" => remaining_bytes > 0)'
      BY <1>7, <2>3, ByteMoved
    <3>3. (hdma_state # "None" /\ hdma_state # "Transferring" => EvenLeft)'
      BY <1>7, <2>3, ByteMoved
    <3>4. (hdma_state = "Transferring" /\ ~Double => (EvenLeft <=> t = 0 \/ (t = 1 /\
          stage \in {"cpu", "ppu", "copy"}) \/ (t = 3 /\ stage \in {"state", "phase",
          "dma"})))'
      BY <1>7, <2>3, ByteMoved
    <3> QED BY <1>7, <2>3, <3>1, <3>2, <3>3, <3>4
  <2>4. CASE ~Even /\ hdma_state = "Transferring" /\ ChunkIsOver
    BY <1>7, <2>4, ChunkEnded
  <2> QED BY <1>7, <2>1, <2>2, <2>3, <2>4
<1>8. CASE HdmaState
  BY <1>8 DEF HdmaState, TickState, Resumes
<1>9. CASE HdmaRequest
  BY <1>9 DEF HdmaRequest, TickRequest
<1>10. CASE HdmaPhase
  <2>1. CASE MayBegin(fetching)
    BY <1>10, <2>1 DEF HdmaPhase, TickPhase, MayBegin, Begin
  <2>2. CASE ~MayBegin(fetching)
    BY <1>10, <2>2 DEF HdmaPhase, TickPhase, MayBegin
  <2> QED BY <1>10, <2>1, <2>2
<1>11. CASE OamDma
  BY <1>11, OamDmaAssumption DEF OamDma, DmaTick, DmaDue, DmaBegin, DmaPrepare, DmaFlush,
       DmaIdle, Begins
<1> QED BY <1>1, <1>2, <1>3, <1>4, <1>5, <1>6, <1>7, <1>8, <1>9, <1>10, <1>11 DEF Next

(* HDMA5 counts the chunks left, but for a chunk that tick_phase has yet   *)
(* to count.                                                               *)
LEMMA CountKept ==
  ASSUME TransfersInv, Next
  PROVE  CountFollowsBytes'
<1>a. /\ ChunksLeft = Chunks(remaining_bytes)
      /\ ChunksLeft' = Chunks(remaining_bytes')
  BY DEF ChunksLeft, Chunks
<1>b. \A chunks \in 1 .. MaxChunks : Chunks(BytesOf(chunks)) = chunks /\ chunks \in Nat
  BY BytesOfChunks
<1>c. remaining_bytes \in Nat \ {0} => Chunks(remaining_bytes) \in Nat \ {0}
  BY ChunksOf
<1>d. count \in 1 .. CountMod - 1 => (count + CountMod - 1) % CountMod = count - 1
  BY CountedDown
<1> USE TransfersAssumption DEF TransfersInv, TypeOK, StageFits, GoTo, Position, Double,
      Even, MicroopT, InStep, PhaseDue, CpuDone, PpuDone, StateDone, PhaseDone, cpuVars,
      ppuVars, busVars, dmaVars, hdmaVars, CountFollowsBytes, Holding, HdmaTypeOK
<1> USE <1>a
<1>1. CASE CpuHeld
  BY <1>1 DEF CpuHeld
<1>2. CASE CpuMicroop
  <2>1. CASE SleepOn
    BY <1>2, <2>1 DEF CpuMicroop, SleepOn, AfterMicroop, WritePosition
  <2>2. CASE Fetch
    BY <1>2, <2>2 DEF CpuMicroop, Fetch, AfterMicroop, WritePosition, IdleIo
  <2>3. CASE Access
    BY <1>2, <2>3 DEF CpuMicroop, Access, AfterMicroop, WritePosition, IdleIo, Registers
  <2> QED BY <1>2, <2>1, <2>2, <2>3 DEF CpuMicroop
<1>3. CASE FlushWrite
  BY <1>3, <1>b, RegistersWritten DEF FlushWrite, WriteDue, WritePosition, WriteHdma5
<1>4. CASE FlushRead
  BY <1>4 DEF FlushRead, ReadDue, ReadPosition, IdleIo
<1>5. CASE CpuWaits
  BY <1>5 DEF CpuWaits
<1>6. CASE PpuTick
  BY <1>6 DEF PpuTick, AdvanceMode, MayEnd, NextModes
<1>7. CASE HdmaCopy
  <2>1. CASE Even
    BY <1>7, <2>1 DEF HdmaCopy, TickEven
  <2>2. CASE ~Even /\ hdma_state # "Transferring"
    BY <1>7, <2>2 DEF HdmaCopy, TickOdd
  <2>3. CASE ~Even /\ hdma_state = "Transferring" /\ ~ChunkIsOver
    BY <1>7, <2>3, ByteMoved DEF HdmaCopy, TickOdd
  <2>4. CASE ~Even /\ hdma_state = "Transferring" /\ ChunkIsOver
    BY <1>7, <2>4, ChunkEnded
  <2> QED BY <1>7, <2>1, <2>2, <2>3, <2>4
<1>8. CASE HdmaState
  BY <1>8 DEF HdmaState, TickState, Resumes
<1>9. CASE HdmaRequest
  BY <1>9 DEF HdmaRequest, TickRequest
<1>10. CASE HdmaPhase
  <2>1. CASE MayBegin(fetching)
    BY <1>10, <2>1 DEF HdmaPhase, TickPhase, MayBegin, Begin
  <2>2. CASE ~MayBegin(fetching)
    BY <1>10, <2>2, <1>c, <1>d DEF HdmaPhase, TickPhase, MayBegin, BytesInStep
  <2> QED BY <1>10, <2>1, <2>2
<1>11. CASE OamDma
  BY <1>11 DEF OamDma, DmaTick, DmaDue, DmaBegin, DmaPrepare, DmaFlush, DmaIdle, Begins,
       MoreBytes
<1> QED BY <1>1, <1>2, <1>3, <1>4, <1>5, <1>6, <1>7, <1>8, <1>9, <1>10, <1>11 DEF Next

(* A transfer at once, asked for by an instruction, is ready at its end.   *)
LEMMA OnceKept ==
  ASSUME TransfersInv, Next
  PROVE  OnceInv'
<1> USE TransfersAssumption DEF TransfersInv, TypeOK, StageFits, GoTo, Position, Double,
      Even, MicroopT, InStep, PhaseDue, CpuDone, PpuDone, StateDone, PhaseDone, cpuVars,
      ppuVars, busVars, dmaVars, hdmaVars, CpuInv, OnceInv, MicroopDone, BusNames,
      Waiting, Holding, HdmaTypeOK
<1>1. CASE CpuHeld
  BY <1>1 DEF CpuHeld
<1>2. CASE CpuMicroop
  <2>1. CASE SleepOn
    BY <1>2, <2>1 DEF CpuMicroop, SleepOn, AfterMicroop, WritePosition
  <2>2. CASE Fetch
    BY <1>2, <2>2 DEF CpuMicroop, Fetch, AfterMicroop, WritePosition, IdleIo
  <2>3. CASE Access
    BY <1>2, <2>3 DEF CpuMicroop, Access, AfterMicroop, WritePosition, IdleIo, Registers
  <2> QED BY <1>2, <2>1, <2>2, <2>3 DEF CpuMicroop
<1>3. CASE FlushWrite
  BY <1>3, RegistersWritten, SMTT(60) DEF FlushWrite, WriteDue, WritePosition, IdleIo,
       StartTransfer, WriteHdma5, Delay, WritePending, Registers
<1>4. CASE FlushRead
  BY <1>4 DEF FlushRead, ReadDue, ReadPosition, IdleIo
<1>5. CASE CpuWaits
  BY <1>5 DEF CpuWaits
<1>6. CASE PpuTick
  BY <1>6 DEF PpuTick, AdvanceMode, MayEnd, NextModes
<1>7. CASE HdmaCopy
  <2>1. CASE Even
    BY <1>7, <2>1 DEF HdmaCopy, TickEven
  <2>2. CASE ~Even /\ hdma_state # "Transferring"
    BY <1>7, <2>2 DEF HdmaCopy, TickOdd
  <2>3. CASE ~Even /\ hdma_state = "Transferring" /\ ~ChunkIsOver
    BY <1>7, <2>3 DEF HdmaCopy, TickOdd
  <2>4. CASE ~Even /\ hdma_state = "Transferring" /\ ChunkIsOver
    BY <1>7, <2>4 DEF HdmaCopy, TickOdd, EndChunk, AfterChunk, LastByte, Unblocks
  <2> QED BY <1>7, <2>1, <2>2, <2>3, <2>4
<1>8. CASE HdmaState
  BY <1>8 DEF HdmaState, TickState, Resumes
<1>9. CASE HdmaRequest
  BY <1>9 DEF HdmaRequest, TickRequest
<1>10. CASE HdmaPhase
  <2>1. CASE MayBegin(fetching)
    BY <1>10, <2>1 DEF HdmaPhase, TickPhase, MayBegin, Begin
  <2>2. CASE ~MayBegin(fetching)
    BY <1>10, <2>2 DEF HdmaPhase, TickPhase, MayBegin
  <2> QED BY <1>10, <2>1, <2>2
<1>11. CASE OamDma
  BY <1>11 DEF OamDma, DmaTick, DmaDue, DmaBegin, DmaPrepare, DmaFlush, DmaIdle, Begins,
       MoreBytes
<1> QED BY <1>1, <1>2, <1>3, <1>4, <1>5, <1>6, <1>7, <1>8, <1>9, <1>10, <1>11 DEF Next

(* A chunk of an HBlank transfer is over before the mode that follows can  *)
(* be.                                                                     *)
LEMMA InTimeKept ==
  ASSUME TransfersInv, Next
  PROVE  InTime'
<1> USE TransfersAssumption, VramDmaAssumption DEF TransfersInv, TypeOK, StageFits, GoTo,
      Position, Double, Even, MicroopT, InStep, PhaseDue, CpuDone, PpuDone, StateDone,
      PhaseDone, cpuVars, ppuVars, busVars, dmaVars, hdmaVars, InTime, Holding, CpuInv,
      LongMode, Now, Left, Busy, Waiting, Late, HdmaTypeOK, Period, PhaseIn, RequestsLeft,
      ReadyInTime, MicroopDone, PhasesMissed, ByteIn, BytesOfChunk
<1>1. CASE CpuHeld
  BY <1>1 DEF CpuHeld
<1>2. CASE CpuMicroop
  <2>1. CASE SleepOn
    BY <1>2, <2>1 DEF CpuMicroop, SleepOn, AfterMicroop, WritePosition
  <2>2. CASE Fetch
    BY <1>2, <2>2 DEF CpuMicroop, Fetch, AfterMicroop, WritePosition, IdleIo
  <2>3. CASE Access
    BY <1>2, <2>3 DEF CpuMicroop, Access, AfterMicroop, WritePosition, IdleIo, Registers
  <2> QED BY <1>2, <2>1, <2>2, <2>3 DEF CpuMicroop
<1>3. CASE FlushWrite
  BY <1>3 DEF FlushWrite, WriteDue, WritePosition, IdleIo, StartTransfer, WriteHdma5,
       Delay, HBlankShown
<1>4. CASE FlushRead
  BY <1>4 DEF FlushRead, ReadDue, ReadPosition, IdleIo
<1>5. CASE CpuWaits
  BY <1>5 DEF CpuWaits
<1>6. CASE PpuTick
  <2>1. Now' <= Now
    BY <1>6 DEF PpuTick, AdvanceMode, MayEnd, NextModes
  <2>2. Left' = Left /\ (Busy' <=> Busy)
    BY <1>6 DEF PpuTick
  <2> HIDE DEF Now, Left, Busy
  <2>3. Now \in Nat /\ Now' \in Nat
    BY <1>6 DEF PpuTick, AdvanceMode, Now
  <2>4. Busy => Left \in Nat
    BY <1>6 DEF PpuTick, Left, Busy, BytesInStep
  <2> QED BY <2>1, <2>2, <2>3, <2>4
<1>7. CASE HdmaCopy
  <2>1. CASE Even
    BY <1>7, <2>1 DEF HdmaCopy, TickEven
  <2>2. CASE ~Even /\ hdma_state # "Transferring"
    BY <1>7, <2>2 DEF HdmaCopy, TickOdd
  <2>3. CASE ~Even /\ hdma_state = "Transferring" /\ ~ChunkIsOver
    <3>1. BytesOfChunk' = BytesOfChunk - 1 /\ BytesOfChunk \in Nat \ {0}
      BY <1>7, <2>3, ByteMoved DEF HdmaCopy, TickOdd
    <3> HIDE DEF BytesOfChunk
    <3> QED BY <1>7, <2>3, <3>1 DEF HdmaCopy, TickOdd
  <2>4. CASE ~Even /\ hdma_state = "Transferring" /\ ChunkIsOver
    BY <1>7, <2>4 DEF HdmaCopy, TickOdd, EndChunk, AfterChunk, LastByte, Unblocks
  <2> QED BY <1>7, <2>1, <2>2, <2>3, <2>4
<1>8. CASE HdmaState
  BY <1>8 DEF HdmaState, TickState, Resumes, HBlankShown
<1>9. CASE HdmaRequest
  BY <1>9 DEF HdmaRequest, TickRequest
<1>10. CASE HdmaPhase
  <2>1. CASE MayBegin(fetching)
    BY <1>10, <2>1 DEF HdmaPhase, TickPhase, MayBegin, Begin
  <2>2. CASE ~MayBegin(fetching)
    BY <1>10, <2>2 DEF HdmaPhase, TickPhase, MayBegin
  <2> QED BY <1>10, <2>1, <2>2
<1>11. CASE OamDma
  BY <1>11 DEF OamDma, DmaTick, DmaDue, DmaBegin, DmaPrepare, DmaFlush, DmaIdle, Begins,
       MoreBytes
<1> QED BY <1>1, <1>2, <1>3, <1>4, <1>5, <1>6, <1>7, <1>8, <1>9, <1>10, <1>11 DEF Next

(* No OAM DMA can begin while a chunk is under way but in its first        *)
(* T-cycles.                                                               *)
LEMMA CountdownKept ==
  ASSUME TransfersInv, Next
  PROVE  CountdownInv'
<1> USE TransfersAssumption DEF TransfersInv, TypeOK, StageFits, GoTo, Position, Double,
      Even, MicroopT, InStep, PhaseDue, CpuDone, PpuDone, StateDone, PhaseDone, cpuVars,
      ppuVars, busVars, dmaVars, hdmaVars, CpuInv, CountdownInv, Holding, DmaTypeOK,
      HdmaTypeOK
<1>1. CASE CpuHeld
  BY <1>1 DEF CpuHeld
<1>2. CASE CpuMicroop
  <2>1. CASE SleepOn
    BY <1>2, <2>1 DEF CpuMicroop, SleepOn, AfterMicroop, WritePosition
  <2>2. CASE Fetch
    BY <1>2, <2>2 DEF CpuMicroop, Fetch, AfterMicroop, WritePosition, IdleIo
  <2>3. CASE Access
    BY <1>2, <2>3 DEF CpuMicroop, Access, AfterMicroop, WritePosition, IdleIo, Registers
  <2> QED BY <1>2, <2>1, <2>2, <2>3 DEF CpuMicroop
<1>3. CASE FlushWrite
  BY <1>3, RegistersWritten, SMTT(60) DEF FlushWrite, WriteDue, WritePosition, IdleIo,
       StartTransfer, WriteHdma5, Delay, WritePending, Registers
<1>4. CASE FlushRead
  BY <1>4 DEF FlushRead, ReadDue, ReadPosition, IdleIo
<1>5. CASE CpuWaits
  BY <1>5 DEF CpuWaits
<1>6. CASE PpuTick
  BY <1>6 DEF PpuTick, AdvanceMode, MayEnd, NextModes
<1>7. CASE HdmaCopy
  <2>1. CASE Even
    BY <1>7, <2>1 DEF HdmaCopy, TickEven
  <2>2. CASE ~Even /\ hdma_state # "Transferring"
    BY <1>7, <2>2 DEF HdmaCopy, TickOdd
  <2>3. CASE ~Even /\ hdma_state = "Transferring" /\ ~ChunkIsOver
    BY <1>7, <2>3 DEF HdmaCopy, TickOdd
  <2>4. CASE ~Even /\ hdma_state = "Transferring" /\ ChunkIsOver
    <3>a. PhaseDue /\ active
      BY <1>7, <2>4, ChunkEnded
    <3>0. countdown = 0
      BY <1>7, <2>4, <3>a DEF HdmaCopy, CountdownInv
    <3> USE DEF HdmaCopy
    <3>1. (countdown > 2 => IF Double THEN (countdown = 3 /\ ~Even) \/ (countdown = 4 /\
          Even /\ CpuDone) ELSE (Position = 1 /\ stage # "cpu") \/ (Position = 2 /\
          countdown = 3) \/ (Position = 3 /\ countdown = 3))'
      BY <1>7, <2>4, <3>0, ChunkEnded
    <3>2. (fetching => countdown <= 2)'
      BY <1>7, <2>4, <3>0, ChunkEnded
    <3>3. (Double /\ countdown > 0 => (countdown % 2 = 0 <=> Even))'
      BY <1>7, <2>4, <3>0, ChunkEnded
    <3>4. (active => countdown = 0 \/ (hdma_state = "Transferring" /\ PhaseDone) \/
          (hdma_state = "Transferring" /\ ~Double /\ t \in {0, 1} /\ countdown = 1))'
      BY <1>7, <2>4, <3>0, ChunkEnded
    <3> QED BY <1>7, <2>4, <3>1, <3>2, <3>3, <3>4
  <2> QED BY <1>7, <2>1, <2>2, <2>3, <2>4
<1>8. CASE HdmaState
  BY <1>8 DEF HdmaState, TickState, Resumes
<1>9. CASE HdmaRequest
  BY <1>9 DEF HdmaRequest, TickRequest
<1>10. CASE HdmaPhase
  <2>1. CASE MayBegin(fetching)
    BY <1>10, <2>1 DEF HdmaPhase, TickPhase, MayBegin, Begin
  <2>2. CASE ~MayBegin(fetching)
    BY <1>10, <2>2 DEF HdmaPhase, TickPhase, MayBegin
  <2> QED BY <1>10, <2>1, <2>2
<1>11. CASE OamDma
  <2> USE DEF OamDma, DmaTick, DmaDue, DmaBegin, DmaPrepare, DmaFlush, DmaIdle, Begins,
        Delay
  <2>1. (countdown > 2 => IF Double THEN (countdown = 3 /\ ~Even) \/ (countdown = 4 /\
        Even /\ CpuDone) ELSE (Position = 1 /\ stage # "cpu") \/ (Position = 2 /\
        countdown = 3) \/ (Position = 3 /\ countdown = 3))'
    BY <1>11
  <2>2. (fetching => countdown <= 2)'
    BY <1>11
  <2>3. (Double /\ countdown > 0 => (countdown % 2 = 0 <=> Even))'
    BY <1>11
  <2>4. (active => countdown = 0 \/ (hdma_state = "Transferring" /\ PhaseDone) \/
        (hdma_state = "Transferring" /\ ~Double /\ t \in {0, 1} /\ countdown = 1))'
    BY <1>11
  <2> QED BY <2>1, <2>2, <2>3, <2>4
<1> QED BY <1>1, <1>2, <1>3, <1>4, <1>5, <1>6, <1>7, <1>8, <1>9, <1>10, <1>11 DEF Next

(* STAT shows HBlank in the modes in which the VRAM DMA may see it.        *)
LEMMA HBlankShownKept ==
  ASSUME TransfersInv, Next
  PROVE  HBlankShown'
<1> USE TransfersAssumption DEF TransfersInv, TypeOK, StageFits, GoTo, Position, Double,
      Even, MicroopT, InStep, PhaseDue, CpuDone, PpuDone, StateDone, PhaseDone, cpuVars,
      ppuVars, busVars, dmaVars, hdmaVars, CpuInv, Holding, HBlankShown, CountdownInv,
      LongMode, ScanUnderDma, DmaIsActive, Late, DmaTypeOK, HdmaTypeOK
<1>1. CASE CpuHeld
  BY <1>1 DEF CpuHeld
<1>2. CASE CpuMicroop
  <2>1. CASE SleepOn
    BY <1>2, <2>1 DEF CpuMicroop, SleepOn, AfterMicroop, WritePosition
  <2>2. CASE Fetch
    BY <1>2, <2>2 DEF CpuMicroop, Fetch, AfterMicroop, WritePosition, IdleIo
  <2>3. CASE Access
    BY <1>2, <2>3 DEF CpuMicroop, Access, AfterMicroop, WritePosition, IdleIo, Registers
  <2> QED BY <1>2, <2>1, <2>2, <2>3 DEF CpuMicroop
<1>3. CASE FlushWrite
  BY <1>3 DEF FlushWrite, WriteDue, WritePosition, IdleIo, StartTransfer, WriteHdma5, Delay
<1>4. CASE FlushRead
  BY <1>4 DEF FlushRead, ReadDue, ReadPosition, IdleIo
<1>5. CASE CpuWaits
  BY <1>5 DEF CpuWaits
<1>6. CASE PpuTick
  BY <1>6 DEF PpuTick, AdvanceMode, MayEnd, NextModes
<1>7. CASE HdmaCopy
  <2>1. CASE Even
    BY <1>7, <2>1 DEF HdmaCopy, TickEven
  <2>2. CASE ~Even /\ hdma_state # "Transferring"
    BY <1>7, <2>2 DEF HdmaCopy, TickOdd
  <2>3. CASE ~Even /\ hdma_state = "Transferring" /\ ~ChunkIsOver
    BY <1>7, <2>3 DEF HdmaCopy, TickOdd
  <2>4. CASE ~Even /\ hdma_state = "Transferring" /\ ChunkIsOver
    <3>a. PhaseDue /\ active
      BY <1>7, <2>4, ChunkEnded
    <3>0. countdown = 0
      BY <1>7, <2>4, <3>a DEF HdmaCopy, CountdownInv
    <3> USE DEF HdmaCopy
    <3>1. (mode = "hblank" => hblank)'
      BY <1>7, <2>4, <3>0, ChunkEnded
    <3>2. (LongMode => ~hblank)'
      BY <1>7, <2>4, <3>0, ChunkEnded
    <3>3. (mode = "off" => hblank \/ (stage = "ppu" /\ ~active))'
      BY <1>7, <2>4, <3>0, ChunkEnded
    <3>4. (~Even \/ PpuDone => (ScanUnderDma => hblank))'
      BY <1>7, <2>4, <3>0, ChunkEnded
    <3>5. (Late => (ScanUnderDma => hblank) /\ countdown = 0)'
      BY <1>7, <2>4, <3>0, ChunkEnded
    <3> QED BY <1>7, <2>4, <3>1, <3>2, <3>3, <3>4, <3>5
  <2> QED BY <1>7, <2>1, <2>2, <2>3, <2>4
<1>8. CASE HdmaState
  BY <1>8 DEF HdmaState, TickState, Resumes
<1>9. CASE HdmaRequest
  BY <1>9 DEF HdmaRequest, TickRequest
<1>10. CASE HdmaPhase
  <2>1. CASE MayBegin(fetching)
    BY <1>10, <2>1 DEF HdmaPhase, TickPhase, MayBegin, Begin
  <2>2. CASE ~MayBegin(fetching)
    BY <1>10, <2>2 DEF HdmaPhase, TickPhase, MayBegin
  <2> QED BY <1>10, <2>1, <2>2
<1>11. CASE OamDma
  BY <1>11 DEF OamDma, DmaTick, DmaDue, DmaBegin, DmaPrepare, DmaFlush, DmaIdle, Begins,
       MoreBytes
<1> QED BY <1>1, <1>2, <1>3, <1>4, <1>5, <1>6, <1>7, <1>8, <1>9, <1>10, <1>11 DEF Next

(* The VRAM DMA has seen what STAT shows while it holds the CPU.           *)
LEMMA HBlankSeenKept ==
  ASSUME TransfersInv, Next
  PROVE  HBlankSeen'
<1> USE TransfersAssumption DEF TransfersInv, TypeOK, StageFits, GoTo, Position, Double,
      Even, MicroopT, InStep, PhaseDue, CpuDone, PpuDone, StateDone, PhaseDone, cpuVars,
      ppuVars, busVars, dmaVars, hdmaVars, CpuInv, Holding, HBlankShown, HBlankSeen,
      CountdownInv, LongMode, ScanUnderDma, DmaIsActive, Busy, Waiting, Late, DmaTypeOK,
      HdmaTypeOK
<1>1. CASE CpuHeld
  BY <1>1 DEF CpuHeld
<1>2. CASE CpuMicroop
  <2>1. CASE SleepOn
    BY <1>2, <2>1 DEF CpuMicroop, SleepOn, AfterMicroop, WritePosition
  <2>2. CASE Fetch
    BY <1>2, <2>2 DEF CpuMicroop, Fetch, AfterMicroop, WritePosition, IdleIo
  <2>3. CASE Access
    BY <1>2, <2>3 DEF CpuMicroop, Access, AfterMicroop, WritePosition, IdleIo, Registers
  <2> QED BY <1>2, <2>1, <2>2, <2>3 DEF CpuMicroop
<1>3. CASE FlushWrite
  BY <1>3 DEF FlushWrite, WriteDue, WritePosition, IdleIo, StartTransfer, WriteHdma5, Delay
<1>4. CASE FlushRead
  BY <1>4 DEF FlushRead, ReadDue, ReadPosition, IdleIo
<1>5. CASE CpuWaits
  BY <1>5 DEF CpuWaits
<1>6. CASE PpuTick
  <2> USE DEF PpuTick, AdvanceMode, MayEnd, NextModes
  <2>1. Busy /\ active /\ ~halted /\ (~Even \/ Late) /\ hblank' => last_hblank
    <3>1. CASE LongMode
      BY <1>6, <3>1, LongModeLasts
    <3>2. CASE ~LongMode
      BY <1>6, <3>2 DEF Modes
    <3> QED BY <3>1, <3>2
  <2> QED BY <1>6, <2>1
<1>7. CASE HdmaCopy
  <2>1. CASE Even
    BY <1>7, <2>1 DEF HdmaCopy, TickEven
  <2>2. CASE ~Even /\ hdma_state # "Transferring"
    BY <1>7, <2>2 DEF HdmaCopy, TickOdd
  <2>3. CASE ~Even /\ hdma_state = "Transferring" /\ ~ChunkIsOver
    BY <1>7, <2>3 DEF HdmaCopy, TickOdd
  <2>4. CASE ~Even /\ hdma_state = "Transferring" /\ ChunkIsOver
    BY <1>7, <2>4 DEF HdmaCopy, TickOdd, EndChunk, AfterChunk, LastByte, Unblocks
  <2> QED BY <1>7, <2>1, <2>2, <2>3, <2>4
<1>8. CASE HdmaState
  BY <1>8 DEF HdmaState, TickState, Resumes
<1>9. CASE HdmaRequest
  BY <1>9 DEF HdmaRequest, TickRequest
<1>10. CASE HdmaPhase
  <2>1. CASE MayBegin(fetching)
    BY <1>10, <2>1 DEF HdmaPhase, TickPhase, MayBegin, Begin
  <2>2. CASE ~MayBegin(fetching)
    BY <1>10, <2>2 DEF HdmaPhase, TickPhase, MayBegin
  <2> QED BY <1>10, <2>1, <2>2
<1>11. CASE OamDma
  BY <1>11 DEF OamDma, DmaTick, DmaDue, DmaBegin, DmaPrepare, DmaFlush, DmaIdle, Begins,
       MoreBytes
<1> QED BY <1>1, <1>2, <1>3, <1>4, <1>5, <1>6, <1>7, <1>8, <1>9, <1>10, <1>11 DEF Next

(* The buses are acquired exactly by the transfers under way.              *)
LEMMA AcquiredKept ==
  ASSUME TransfersInv, Next
  PROVE  Acquired'
<1> USE TransfersAssumption DEF TransfersInv, TypeOK, StageFits, GoTo, Position, Double,
      Even, MicroopT, InStep, PhaseDue, CpuDone, PpuDone, StateDone, PhaseDone, cpuVars,
      ppuVars, busVars, dmaVars, hdmaVars, CpuInv, Holding, Acquired, BytesInStep,
      DmaIsActive, DmaTypeOK, HdmaTypeOK, BusesTypeOK
<1>1. CASE CpuHeld
  BY <1>1 DEF CpuHeld
<1>2. CASE CpuMicroop
  <2>1. CASE SleepOn
    BY <1>2, <2>1 DEF CpuMicroop, SleepOn, AfterMicroop, WritePosition
  <2>2. CASE Fetch
    BY <1>2, <2>2 DEF CpuMicroop, Fetch, AfterMicroop, WritePosition, IdleIo
  <2>3. CASE Access
    BY <1>2, <2>3 DEF CpuMicroop, Access, AfterMicroop, WritePosition, IdleIo, Registers
  <2> QED BY <1>2, <2>1, <2>2, <2>3 DEF CpuMicroop
<1>3. CASE FlushWrite
  BY <1>3 DEF FlushWrite, WriteDue, WritePosition, IdleIo, StartTransfer, WriteHdma5, Delay
<1>4. CASE FlushRead
  BY <1>4 DEF FlushRead, ReadDue, ReadPosition, IdleIo
<1>5. CASE CpuWaits
  BY <1>5 DEF CpuWaits
<1>6. CASE PpuTick
  BY <1>6 DEF PpuTick, AdvanceMode, MayEnd, NextModes
<1>7. CASE HdmaCopy
  <2>1. CASE Even
    BY <1>7, <2>1 DEF HdmaCopy, TickEven
  <2>2. CASE ~Even /\ hdma_state # "Transferring"
    BY <1>7, <2>2 DEF HdmaCopy, TickOdd
  <2>3. CASE ~Even /\ hdma_state = "Transferring" /\ ~ChunkIsOver
    BY <1>7, <2>3 DEF HdmaCopy, TickOdd
  <2>4. CASE ~Even /\ hdma_state = "Transferring" /\ ChunkIsOver
    BY <1>7, <2>4 DEF HdmaCopy, TickOdd, EndChunk, AfterChunk, LastByte, Unblocks
  <2> QED BY <1>7, <2>1, <2>2, <2>3, <2>4
<1>8. CASE HdmaState
  BY <1>8 DEF HdmaState, TickState, Resumes
<1>9. CASE HdmaRequest
  BY <1>9 DEF HdmaRequest, TickRequest
<1>10. CASE HdmaPhase
  <2>1. CASE MayBegin(fetching)
    BY <1>10, <2>1 DEF HdmaPhase, TickPhase, MayBegin, Begin
  <2>2. CASE ~MayBegin(fetching)
    BY <1>10, <2>2 DEF HdmaPhase, TickPhase, MayBegin
  <2> QED BY <1>10, <2>1, <2>2
<1>11. CASE OamDma
  BY <1>11 DEF OamDma, DmaTick, DmaDue, DmaBegin, DmaPrepare, DmaFlush, DmaIdle, Begins,
       MoreBytes
<1> QED BY <1>1, <1>2, <1>3, <1>4, <1>5, <1>6, <1>7, <1>8, <1>9, <1>10, <1>11 DEF Next

(* The OAM DMA asks for bytes and moves them at its places of the machine  *)
(* cycle.                                                                  *)
LEMMA DmaInStepKept ==
  ASSUME TransfersInv, Next
  PROVE  DmaInStep'
<1> USE TransfersAssumption DEF TransfersInv, TypeOK, StageFits, GoTo, Position, Double,
      Even, MicroopT, InStep, PhaseDue, CpuDone, PpuDone, StateDone, PhaseDone, cpuVars,
      ppuVars, busVars, dmaVars, hdmaVars, CpuInv, DmaInStep, FlushHalf, CountdownInv,
      DmaTypeOK, HdmaTypeOK
<1>1. CASE CpuHeld
  BY <1>1 DEF CpuHeld
<1>2. CASE CpuMicroop
  <2>1. CASE SleepOn
    BY <1>2, <2>1 DEF CpuMicroop, SleepOn, AfterMicroop, WritePosition
  <2>2. CASE Fetch
    BY <1>2, <2>2 DEF CpuMicroop, Fetch, AfterMicroop, WritePosition, IdleIo
  <2>3. CASE Access
    BY <1>2, <2>3 DEF CpuMicroop, Access, AfterMicroop, WritePosition, IdleIo, Registers
  <2> QED BY <1>2, <2>1, <2>2, <2>3 DEF CpuMicroop
<1>3. CASE FlushWrite
  BY <1>3 DEF FlushWrite, WriteDue, WritePosition, IdleIo, StartTransfer, WriteHdma5, Delay
<1>4. CASE FlushRead
  BY <1>4 DEF FlushRead, ReadDue, ReadPosition, IdleIo
<1>5. CASE CpuWaits
  BY <1>5 DEF CpuWaits
<1>6. CASE PpuTick
  BY <1>6 DEF PpuTick, AdvanceMode, MayEnd, NextModes
<1>7. CASE HdmaCopy
  <2>1. CASE Even
    BY <1>7, <2>1 DEF HdmaCopy, TickEven
  <2>2. CASE ~Even /\ hdma_state # "Transferring"
    BY <1>7, <2>2 DEF HdmaCopy, TickOdd
  <2>3. CASE ~Even /\ hdma_state = "Transferring" /\ ~ChunkIsOver
    BY <1>7, <2>3 DEF HdmaCopy, TickOdd
  <2>4. CASE ~Even /\ hdma_state = "Transferring" /\ ChunkIsOver
    BY <1>7, <2>4 DEF HdmaCopy, TickOdd, EndChunk, AfterChunk, LastByte, Unblocks
  <2> QED BY <1>7, <2>1, <2>2, <2>3, <2>4
<1>8. CASE HdmaState
  BY <1>8 DEF HdmaState, TickState, Resumes
<1>9. CASE HdmaRequest
  BY <1>9 DEF HdmaRequest, TickRequest
<1>10. CASE HdmaPhase
  <2>1. CASE MayBegin(fetching)
    BY <1>10, <2>1 DEF HdmaPhase, TickPhase, MayBegin, Begin
  <2>2. CASE ~MayBegin(fetching)
    BY <1>10, <2>2 DEF HdmaPhase, TickPhase, MayBegin
  <2> QED BY <1>10, <2>1, <2>2
<1>11. CASE OamDma
  BY <1>11 DEF OamDma, DmaTick, DmaDue, DmaBegin, DmaPrepare, DmaFlush, DmaIdle, Begins,
       Delay
<1> QED BY <1>1, <1>2, <1>3, <1>4, <1>5, <1>6, <1>7, <1>8, <1>9, <1>10, <1>11 DEF Next

(* What the OAM DMA has asked for stays on the buses until it is moved.    *)
LEMMA DmaRequestsKept ==
  ASSUME TransfersInv, Next
  PROVE  DmaRequests'
<1>a. \A name \in BusNames :
        /\ WordRequested(bus)[name].requests = bus[name].requests
        /\ name = "memory" \/ Write("Dma") \in bus[name].requests =>
             WordRequested(bus)[name] = bus[name]
  BY PpuRequestsNothing DEF TransfersInv, TypeOK
<1> USE TransfersAssumption, BusesAssumption DEF TransfersInv, TypeOK, StageFits, GoTo,
      Position, Double, Even, MicroopT, InStep, PhaseDue, CpuDone, PpuDone, StateDone,
      PhaseDone, cpuVars, ppuVars, busVars, dmaVars, hdmaVars, DmaRequests, BusesTypeOK,
      DmaTypeOK, HdmaTypeOK, BusNames, DmaPending, Read, Write, IsOamBlocked, Acquired,
      Holding, DmaInStep, FlushHalf, Requested, Flushed, ReadRequested, WriteRequested,
      KeptFrom, WordRequested, Prepare, Flush, FlushAt, HdmaReads, HdmaMoves, CpuInv,
      Devices, Ios, OddCursor, Delay, CountdownInv
<1>1. CASE CpuHeld
  BY <1>1 DEF CpuHeld
<1>2. CASE CpuMicroop
  <2>1. CASE SleepOn
    BY <1>2, <2>1 DEF CpuMicroop, SleepOn, AfterMicroop, WritePosition
  <2>2. CASE Fetch
    BY <1>2, <2>2 DEF CpuMicroop, Fetch, AfterMicroop, WritePosition, IdleIo
  <2>3. CASE Access
    BY <1>2, <2>3 DEF CpuMicroop, Access, AfterMicroop, WritePosition, IdleIo, Registers
  <2> QED BY <1>2, <2>1, <2>2, <2>3 DEF CpuMicroop
<1>3. CASE FlushWrite
  BY <1>3 DEF FlushWrite, WriteDue, WritePosition, IdleIo, StartTransfer, WriteHdma5
<1>4. CASE FlushRead
  BY <1>4 DEF FlushRead, ReadDue, ReadPosition, IdleIo
<1>5. CASE CpuWaits
  BY <1>5 DEF CpuWaits
<1>6. CASE PpuTick
  <2>1. /\ bus' = bus \/ bus' = WordRequested(bus)
        /\ UNCHANGED <<dma_state, dma_source, oam_acquirers, clock>>
    BY <1>6 DEF PpuTick
  <2>2. ASSUME NEW name \in BusNames
        PROVE  /\ bus'[name].requests = bus[name].requests
               /\ name = "memory" \/ Write("Dma") \in bus[name].requests => bus'[name] =
                     bus[name]
    BY <1>a, <2>1, <2>2
  <2>3. ASSUME NEW name \in BusNames, DmaPending(bus[name]), InStep
        PROVE  bus'[name].address = "Dma"
    BY <2>2, <2>3
  <2> QED BY <2>1, <2>2, <2>3
<1>7. CASE HdmaCopy
  <2>1. CASE Even
    BY <1>7, <2>1 DEF HdmaCopy, TickEven
  <2>2. CASE ~Even /\ hdma_state # "Transferring"
    BY <1>7, <2>2 DEF HdmaCopy, TickOdd
  <2>3. CASE ~Even /\ hdma_state = "Transferring" /\ ~ChunkIsOver
    BY <1>7, <2>3 DEF HdmaCopy, TickOdd
  <2>4. CASE ~Even /\ hdma_state = "Transferring" /\ ChunkIsOver
    <3>1. PhaseDue
      BY <1>7, <2>4, ChunkEnded
    <3> QED BY <1>7, <2>4, <3>1 DEF HdmaCopy, TickOdd, EndChunk
  <2> QED BY <1>7, <2>1, <2>2, <2>3, <2>4
<1>8. CASE HdmaState
  BY <1>8 DEF HdmaState, TickState, Resumes
<1>9. CASE HdmaRequest
  BY <1>9 DEF HdmaRequest, TickRequest
<1>10. CASE HdmaPhase
  <2>1. CASE MayBegin(fetching)
    BY <1>10, <2>1 DEF HdmaPhase, TickPhase, MayBegin, Begin
  <2>2. CASE ~MayBegin(fetching)
    BY <1>10, <2>2 DEF HdmaPhase, TickPhase, MayBegin
  <2> QED BY <1>10, <2>1, <2>2
<1>11. CASE OamDma
  BY <1>11 DEF OamDma, DmaTick, DmaDue, DmaBegin, DmaPrepare, DmaFlush, DmaIdle, Begins,
       MoreBytes
<1> QED BY <1>1, <1>2, <1>3, <1>4, <1>5, <1>6, <1>7, <1>8, <1>9, <1>10, <1>11 DEF Next

(* What the CPU reads stays on its bus until the flush.                    *)
LEMMA CpuReadKept ==
  ASSUME TransfersInv, Next
  PROVE  CpuReadPending'
<1>a. \A name \in BusNames :
        /\ WordRequested(bus)[name].requests = bus[name].requests
        /\ WordRequested(bus)[name].address \in {bus[name].address, "Ppu"}
  BY PpuRequestsNothing DEF TransfersInv, TypeOK
<1>b. \A name \in BusNames : Read("Cpu") \in bus[name].requests =>
        /\ Read("Cpu") \in Flush[name].requests
        /\ Flush[name].address = bus[name].address
  BY FlushOfDma
<1> USE TransfersAssumption, BusesAssumption DEF TransfersInv, TypeOK, StageFits, GoTo,
      Position, Double, Even, MicroopT, InStep, PhaseDue, CpuDone, PpuDone, StateDone,
      PhaseDone, cpuVars, ppuVars, busVars, dmaVars, hdmaVars, CpuReadPending,
      DmaRequests, BusesTypeOK, DmaTypeOK, HdmaTypeOK, BusNames, DmaPending, Read, Write,
      IsOamBlocked, Acquired, Holding, DmaInStep, FlushHalf, Requested, Flushed,
      ReadRequested, WriteRequested, KeptFrom, WordRequested, Prepare, Flush, FlushAt,
      HdmaReads, HdmaMoves, CpuInv, ReadPending, WritePending, Devices, Ios, OddCursor,
      Delay
<1>1. CASE CpuHeld
  BY <1>1 DEF CpuHeld
<1>2. CASE CpuMicroop
  <2>1. CASE SleepOn
    BY <1>2, <2>1 DEF CpuMicroop, SleepOn, AfterMicroop, WritePosition
  <2>2. CASE Fetch
    BY <1>2, <2>2 DEF CpuMicroop, Fetch, AfterMicroop, WritePosition, IdleIo
  <2>3. CASE Access
    BY <1>2, <2>3 DEF CpuMicroop, Access, AfterMicroop, WritePosition, IdleIo, Registers
  <2> QED BY <1>2, <2>1, <2>2, <2>3 DEF CpuMicroop
<1>3. CASE FlushWrite
  BY <1>3 DEF FlushWrite, WriteDue, WritePosition, IdleIo, StartTransfer, WriteHdma5
<1>4. CASE FlushRead
  BY <1>4 DEF FlushRead, ReadDue, ReadPosition, IdleIo
<1>5. CASE CpuWaits
  BY <1>5 DEF CpuWaits
<1>6. CASE PpuTick
  <2>1. /\ bus' = bus \/ bus' = WordRequested(bus)
        /\ io' = io /\ clock' = clock
    BY <1>6 DEF PpuTick
  <2>2. io.op = "R" => io.at \in BusNames
    BY DEF IdleIo
  <2> QED BY <1>a, <2>1, <2>2
<1>7. CASE HdmaCopy
  <2>1. CASE Even
    BY <1>7, <2>1 DEF HdmaCopy, TickEven
  <2>2. CASE ~Even /\ hdma_state # "Transferring"
    BY <1>7, <2>2 DEF HdmaCopy, TickOdd
  <2>3. CASE ~Even /\ hdma_state = "Transferring" /\ ~ChunkIsOver
    BY <1>7, <2>3 DEF HdmaCopy, TickOdd
  <2>4. CASE ~Even /\ hdma_state = "Transferring" /\ ChunkIsOver
    BY <1>7, <2>4 DEF HdmaCopy, TickOdd, EndChunk, AfterChunk, LastByte, Unblocks
  <2> QED BY <1>7, <2>1, <2>2, <2>3, <2>4
<1>8. CASE HdmaState
  BY <1>8 DEF HdmaState, TickState, Resumes
<1>9. CASE HdmaRequest
  BY <1>9 DEF HdmaRequest, TickRequest
<1>10. CASE HdmaPhase
  <2>1. CASE MayBegin(fetching)
    BY <1>10, <2>1 DEF HdmaPhase, TickPhase, MayBegin, Begin
  <2>2. CASE ~MayBegin(fetching)
    BY <1>10, <2>2 DEF HdmaPhase, TickPhase, MayBegin
  <2> QED BY <1>10, <2>1, <2>2
<1>11. CASE OamDma
  <2>1. io' = io /\ clock' = clock
    BY <1>11 DEF OamDma
  <2>2. io.op = "R" => io.at \in BusNames
    BY DEF IdleIo
  <2>3. CASE DmaDue
    <3>1. CASE DmaBegin
      BY <1>11, <2>1, <2>2, <2>3, <3>1 DEF DmaBegin, OamDma, DmaTick
    <3>2. CASE DmaPrepare
      BY SMTT(30), <1>11, <2>1, <2>2, <2>3, <3>2 DEF DmaPrepare, OamDma, DmaTick
    <3>3. CASE DmaFlush
      BY ZenonT(30), <1>11, <1>b, <2>1, <2>2, <2>3, <3>3 DEF DmaFlush, OamDma, DmaTick
    <3>4. CASE DmaIdle
      BY <1>11, <2>1, <2>2, <2>3, <3>4 DEF DmaIdle, OamDma, DmaTick
    <3> QED BY <1>11, <2>3, <3>1, <3>2, <3>3, <3>4 DEF OamDma, DmaTick
  <2>4. CASE ~DmaDue
    BY <1>11, <2>1, <2>2, <2>4 DEF OamDma
  <2> QED BY <2>3, <2>4
<1> QED BY <1>1, <1>2, <1>3, <1>4, <1>5, <1>6, <1>7, <1>8, <1>9, <1>10, <1>11 DEF Next

(***************************************************************************)
(* The invariant.                                                          *)
(***************************************************************************)

(* The machine starts with no transfer.                                    *)
LEMMA InitTransfers == Init => TransfersInv
<1> SUFFICES ASSUME Init PROVE TransfersInv
  OBVIOUS
<1>1. bus \in BusesT
  BY DEF Init, InitBuses, BusesT
<1>2. BusesTypeOK
  BY <1>1 DEF Init, InitBuses, BusesTypeOK, BusesT
<1>3. DmaTypeOK
  BY BusesAssumption, OamDmaAssumption DEF Init, ResetDma, DmaTypeOK, Delay
<1>4. HdmaTypeOK
  <2>1. remaining_bytes = 0 /\ ChunkSize * MaxChunks \in Nat
    BY VramDmaAssumption DEF Init, ResetHdma
  <2>2. count \in 0 .. CountMod - 1
    BY VramDmaAssumption DEF Init, ResetHdma
  <2>3. hdma_source \in Sources
    BY BusesAssumption DEF Init, ResetHdma
  <2>4. remaining_bytes \in 0 .. ChunkSize * MaxChunks
    BY <2>1
  <2> QED BY <2>2, <2>3, <2>4 DEF Init, ResetHdma, HdmaTypeOK, HdmaStates
<1>5. CoreTypeOK
  <2>1. io \in Ios
    BY DEF Init, Ios
  <2>2. microops \in 0 .. MaxMicroops /\ age \in 0 .. MinCycles
    BY TransfersAssumption DEF Init
  <2>3. clock \in Clocks /\ t \in 0 .. 3 /\ stage \in Stages /\ mode \in Modes
    BY DEF Init, Stages, Modes
  <2>4. /\ fetching \in BOOLEAN /\ halted \in BOOLEAN
        /\ hdma5_written \in BOOLEAN /\ hblank \in BOOLEAN
    BY DEF Init
  <2> QED BY <2>1, <2>2, <2>3, <2>4 DEF CoreTypeOK
<1>6. TypeOK
  BY <1>2, <1>3, <1>4, <1>5 DEF TypeOK, CoreTypeOK
<1>7. StageFits
  BY DEF Init, StageFits
<1>8. CpuInv
  <2>1. (fetching <=> microops = 0) /\ (halted \/ active => fetching)
    BY DEF Init, ResetHdma
  <2>2. io.op = "Idle" /\ io.at = "elsewhere"
    BY DEF Init, IdleIo
  <2>3. ~(last_halted # halted)
    BY DEF Init, ResetHdma
  <2> QED BY <2>1, <2>2, <2>3 DEF CpuInv
<1>9. Holding /\ Acquired /\ BytesInStep /\ CountFollowsBytes
  BY DEF Init, InitBuses, ResetDma, ResetHdma, Holding, Acquired, BytesInStep, CountFollowsBytes,
         Waiting, Late, DmaIsActive
<1>10. OnceInv /\ InTime /\ CountdownInv
  BY DEF Init, ResetDma, ResetHdma, OnceInv, InTime, Busy, Waiting, Late, CountdownInv
<1>11. HBlankShown /\ HBlankSeen
  BY DEF Init, ResetDma, ResetHdma, HBlankShown, HBlankSeen, ScanUnderDma, LongMode, Late
<1>12. DmaInStep /\ DmaRequests /\ CpuReadPending
  BY DEF Init, InitBuses, ResetDma, IdleIo, DmaInStep, DmaRequests, CpuReadPending, DmaPending
<1> QED BY <1>6, <1>7, <1>8, <1>9, <1>10, <1>11, <1>12 DEF TransfersInv

(* A step of others leaves the invariant alone.                            *)
LEMMA StutterTransfers == TransfersInv /\ UNCHANGED vars => TransfersInv'
<1> SUFFICES ASSUME TransfersInv, UNCHANGED vars PROVE TransfersInv'
  OBVIOUS
<1> USE DEF TransfersInv, vars, scheduleVars, cpuVars, ppuVars, busVars, dmaVars, hdmaVars
<1>1. TypeOK'
  BY DEF TypeOK, BusesTypeOK, DmaTypeOK, HdmaTypeOK
<1>2. StageFits' /\ CpuInv'
  BY DEF StageFits, CpuInv, Double, Even, PhaseDue, WritePending, ReadPending, MicroopT, Position,
         InStep, StateDone
<1>3. Holding' /\ Acquired' /\ BytesInStep' /\ CountFollowsBytes'
  BY DEF Holding, Acquired, BytesInStep, CountFollowsBytes, Waiting, Late, DmaIsActive, PhaseDue,
         MoreBytes, EvenLeft, Double, ChunksLeft
<1>4. OnceInv'
  BY DEF OnceInv, Waiting, MicroopDone, MicroopT, PhaseDone, PhaseDue, Position, Double, Even,
         CpuDone
<1>5. InTime'
  BY DEF InTime, Busy, Waiting, Late, Now, Left, LongMode, PpuDone, PhaseIn, Period, PhasesMissed,
         ReadyInTime, RequestsLeft, MicroopDone, MicroopT, Position, PhaseDone, PhaseDue, Double,
         Even, ByteIn, BytesOfChunk
<1>6. CountdownInv' /\ HBlankShown' /\ HBlankSeen'
  BY DEF CountdownInv, HBlankShown, HBlankSeen, ScanUnderDma, LongMode, Late, Busy, Waiting,
         DmaIsActive, Position, Double, Even, CpuDone, PpuDone, StateDone, PhaseDone, PhaseDue
<1>7. DmaInStep' /\ DmaRequests' /\ CpuReadPending'
  BY DEF DmaInStep, DmaRequests, CpuReadPending, InStep, FlushHalf, Double, Even, DmaPending,
         IsOamBlocked
<1> QED BY <1>1, <1>2, <1>3, <1>4, <1>5, <1>6, <1>7

(* Every step keeps the invariant.                                         *)
LEMMA StepTransfers == TransfersInv /\ [Next]_vars => TransfersInv'
<1>1. ASSUME TransfersInv, Next PROVE TransfersInv'
  <2>1. bus' \in BusesT
    BY <1>1, BusesTyped DEF TransfersInv, TypeOK, BusesTypeOK, BusesT
  <2>2. CoreTypeOK' /\ DmaTypeOK' /\ HdmaTypeOK'
        /\ oam_acquirers' \subseteq {"Dma", "Hdma"} /\ vram_acquirers' \subseteq {"Hdma"}
    BY <1>1, CoreTyped, DmaTyped, HdmaTyped, AcquirersTyped
  <2>3. TypeOK'
    BY <2>1, <2>2 DEF TypeOK, BusesTypeOK, BusesT, CoreTypeOK
  <2> QED BY <1>1, <2>3, StageKept, HoldingKept, AcquiredKept, BytesKept, CountKept, OnceKept,
             InTimeKept, CountdownKept, HBlankShownKept, HBlankSeenKept, DmaInStepKept,
             DmaRequestsKept, CpuReadKept DEF TransfersInv
<1> QED BY <1>1, StutterTransfers

(* The invariant holds throughout.                                         *)
THEOREM TransfersInvariant == Spec => []TransfersInv
BY InitTransfers, StepTransfers, PTL DEF Spec

(* The buses and the CPU are held exactly while the VRAM DMA moves bytes   *)
(* (Hdma::tick_phase and tick_odd), however long its transfers are.        *)
THEOREM BusesAlwaysHeld == Spec => []BusesHeldInTransfer
<1>1. TransfersInv => BusesHeldInTransfer
  BY DEF TransfersInv, Holding, Acquired, BusesHeldInTransfer
<1> QED BY <1>1, TransfersInvariant, PTL

(* The assertions of Hdma::tick_phase and write_hdma5 hold, HDMA5 counts   *)
(* the bytes moved, and with the CPU in step nobody comes in between the   *)
(* request of a byte and its flush, at any speed and over any instructions. *)
THEOREM BytesAlwaysInOrder == Spec => []BytesInOrder
<1> SUFFICES TransfersInv => BytesInOrder
  BY TransfersInvariant, PTL
<1> SUFFICES ASSUME TransfersInv PROVE BytesInOrder
  OBVIOUS
<1> USE DEF TransfersInv
<1>1. ReleasedBeforeNextChunk
  BY DEF ReleasedBeforeNextChunk, Holding
<1>2. OnlyHBlankInterrupted
  <2>1. WriteDue => ~active
    BY DEF WriteDue, StageFits
  <2> QED BY <2>1 DEF OnlyHBlankInterrupted, OnceInv, Holding, Waiting, TypeOK, HdmaTypeOK,
                      HdmaStates
<1>3. CpuReadUndisturbed
  BY DEF CpuReadUndisturbed, CpuReadPending
<1>4. DmaMovesItsByte
  <2>1. ASSUME InStep, FlushDue
        PROVE  /\ bus["oam"].address = "Dma" /\ Write("Dma") \in bus["oam"].requests
               /\ dma_source = "memory" =>
                    bus["memory"].address = "Dma" /\ Read("Dma") \in bus["memory"].requests
    BY <2>1 DEF FlushDue, DmaRequests, DmaPending, BusNames
  <2>2. ASSUME InStep, NEW name \in BusNames, DmaPending(bus[name])
        PROVE  dma_state = "Flush"
    BY <2>2 DEF DmaRequests
  <2> QED BY <2>1, <2>2 DEF DmaMovesItsByte
<1> QED BY <1>1, <1>2, <1>3, <1>4 DEF BytesInOrder, HdmaAssertions

=============================================================================
