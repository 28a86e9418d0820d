----------------------------- MODULE Transfers -----------------------------
(***************************************************************************)
(* OAM DMA, VRAM DMA, CPU and PPU on their buses, in the order in which    *)
(* Core::tick_t0 to tick_t3 (docboy/core/core.cpp, CGB build) tick them.   *)
(* The CPU runs instructions of any reads and writes; the PPU goes through *)
(* its modes at any pace not faster than its own.                          *)
(***************************************************************************)
EXTENDS OamDma, VramDma

CONSTANTS
  Clocks,      \* how the machine cycles of the CPU may lie in those of the core
  MaxMicroops, \* micro-operations of the longest instruction, but for its fetch
  MinCycles    \* core cycles of the shortest pixel transfer, HBlank or VBlank

(* In step with the core, two T-cycles behind it (as a switch back from    *)
(* double speed may leave it), or at double speed.  A pixel transfer lasts *)
(* long enough for a chunk asked for in HBlank to become ready, to wait    *)
(* for the fetch, and to be over.                                          *)
ASSUME TransfersAssumption ==
  /\ Clocks \subseteq {"single", "behind", "double"}
  /\ MaxMicroops \in Nat \ {0}
  /\ MinCycles \in Nat
  /\ MinCycles >= 3 + MaxMicroops + ChunkSize \div 2

(* An access of the CPU elsewhere, as to a bus of its own, is no access.   *)
IdleIo == [op |-> "Idle", at |-> "elsewhere"]

Registers == {"DMA", "HDMA5", "LCDC"}
Ios ==
  {IdleIo} \cup [op : {"R"}, at : BusNames] \cup [op : {"W"}, at : BusNames \cup Registers]

Modes == {"oam", "transfer", "hblank", "vblank", "off"}
Stages == {"cpu", "write", "ppu", "copy", "state", "request", "phase", "dma"}

VARIABLES
  clock,
  t, stage,               \* T-cycle of the core, and the call that comes next in it
  fetching, halted,       \* of the CPU
  microops,               \* micro-operations since the last fetch
  io,                     \* the access of the CPU under way
  hdma5_written,          \* by this instruction: none writes a byte twice
  mode, age,              \* mode of the PPU, and cycles it has seen end, up to MinCycles
  hblank                  \* stat.mode reads HBlank

scheduleVars == <<clock, t, stage>>
cpuVars == <<fetching, halted, microops, io, hdma5_written>>
ppuVars == <<mode, age, hblank>>
vars == <<scheduleVars, cpuVars, ppuVars, busVars, dmaVars, hdmaVars>>

TypeOK ==
  /\ BusesTypeOK
  /\ DmaTypeOK
  /\ HdmaTypeOK
  /\ clock \in Clocks
  /\ t \in 0 .. 3
  /\ stage \in Stages
  /\ fetching \in BOOLEAN
  /\ halted \in BOOLEAN
  /\ microops \in 0 .. MaxMicroops
  /\ io \in Ios
  /\ hdma5_written \in BOOLEAN
  /\ mode \in Modes
  /\ age \in 0 .. MinCycles
  /\ hblank \in BOOLEAN

(* No transfer is under way at the speed the program has chosen. *)
Init ==
  /\ InitBuses
  /\ ResetDma
  /\ ResetHdma
  /\ clock \in Clocks
  /\ t = 0
  /\ stage = "cpu"
  /\ fetching = FALSE
  /\ halted = FALSE
  /\ microops = 1
  /\ io = IdleIo
  /\ hdma5_written = FALSE
  /\ mode = "vblank"
  /\ age = 0
  /\ hblank = FALSE

(***************************************************************************)
(* The CPU, unless it is held: a micro-operation, then the flush of its    *)
(* write or, in the last T-cycle of its machine cycle, of its read.        *)
(***************************************************************************)
Position ==
  IF clock = "double" THEN t % 2 ELSE IF clock = "behind" THEN (t + 2) % 4 ELSE t

WritePosition == IF clock = "double" THEN 0 ELSE 1
ReadPosition == IF clock = "double" THEN 1 ELSE 3

GoTo(next) == stage' = next /\ UNCHANGED <<clock, t>>

CpuHeld ==
  /\ stage = "cpu" /\ active
  /\ GoTo("ppu")
  /\ UNCHANGED <<cpuVars, ppuVars, busVars, dmaVars, hdmaVars>>

AfterMicroop == IF WritePosition = 0 THEN "write" ELSE "ppu"

(* An interrupt may come at any time, to a halted CPU. *)
SleepOn ==
  /\ halted
  /\ UNCHANGED <<cpuVars, bus>>

Fetch ==
  /\ fetching' = TRUE
  /\ microops' = 0
  /\ hdma5_written' = FALSE
  /\ halted' \in IF fetching THEN BOOLEAN ELSE {FALSE}  \* HALT has no other operation
  /\ \/ io' = IdleIo /\ UNCHANGED bus
     \/ \E place \in BusNames :
          /\ io' = [op |-> "R", at |-> place]
          /\ bus' = ReadRequested(bus, place, "Cpu")

Access ==
  /\ microops < MaxMicroops
  /\ fetching' = FALSE
  /\ microops' = microops + 1
  /\ halted' = FALSE
  /\ \/ io' = IdleIo /\ UNCHANGED bus
     \/ \E place \in BusNames :
          /\ io' = [op |-> "R", at |-> place]
          /\ bus' = ReadRequested(bus, place, "Cpu")
     \/ \E place \in BusNames \cup (Registers \ IF hdma5_written THEN {"HDMA5"} ELSE {}) :
          /\ io' = [op |-> "W", at |-> place]
          /\ bus' = WriteRequested(bus, place, "Cpu")
  /\ hdma5_written' = (hdma5_written \/ io'.at = "HDMA5")

CpuMicroop ==
  /\ stage = "cpu" /\ ~active /\ Position = 0
  /\ SleepOn \/ Fetch \/ Access
  /\ GoTo(AfterMicroop)
  /\ UNCHANGED <<ppuVars, oam_acquirers, vram_acquirers, dmaVars, hdmaVars>>

FlushAt(op) == IF io.op = op THEN Flushed(bus, io.at, <<op, "Cpu">>) ELSE bus

WriteDue == stage = "write" \/ (stage = "cpu" /\ ~active /\ Position = 1 /\ WritePosition = 1)

(* The registers that matter here: DMA, HDMA5, and LCDC to turn the LCD on *)
(* or off.                                                                 *)
FlushWrite ==
  /\ WriteDue
  /\ bus' = FlushAt("W")
  /\ io' = IF io.op = "W" THEN IdleIo ELSE io
  /\ IF io.at = "DMA" THEN StartTransfer ELSE UNCHANGED dmaVars
  /\ IF io.at = "HDMA5"
       THEN \E chunks \in 1 .. MaxChunks, in_hblank_mode \in BOOLEAN :
              WriteHdma5(chunks, in_hblank_mode, hblank)
       ELSE UNCHANGED hdmaVars
  /\ \/ UNCHANGED <<mode, age>>
     \/ io.at = "LCDC" /\ mode # "off" /\ mode' = "off" /\ age' = 0
  /\ GoTo("ppu")
  /\ UNCHANGED <<fetching, halted, microops, hdma5_written, hblank, oam_acquirers, vram_acquirers>>

ReadDue == stage = "cpu" /\ ~active /\ Position = ReadPosition

FlushRead ==
  /\ ReadDue
  /\ bus' = FlushAt("R")
  /\ io' = IF io.op = "R" THEN IdleIo ELSE io
  /\ GoTo("ppu")
  /\ UNCHANGED <<fetching, halted, microops, hdma5_written, ppuVars, oam_acquirers,
                 vram_acquirers, dmaVars, hdmaVars>>

CpuWaits ==
  /\ stage = "cpu" /\ ~active /\ Position = 2
  /\ GoTo("ppu")
  /\ UNCHANGED <<cpuVars, ppuVars, busVars, dmaVars, hdmaVars>>

(***************************************************************************)
(* The PPU.  Its first line after it is turned on shows HBlank up to the   *)
(* pixel transfer, and so does the OAM scan under an OAM DMA.              *)
(***************************************************************************)
NextModes ==
  [oam |-> {"transfer"}, transfer |-> {"hblank"}, hblank |-> {"oam", "vblank"},
   vblank |-> {"oam"}, off |-> {"transfer"}]

MayEnd == mode \in {"transfer", "hblank", "vblank"} => age = MinCycles

AdvanceMode ==
  \/ /\ MayEnd
     /\ mode' \in NextModes[mode]
     /\ age' = 0
  \/ /\ mode' = mode
     /\ age' = IF t = 3 /\ ~MayEnd THEN age + 1 ELSE age

PpuTick ==
  /\ stage = "ppu"
  /\ AdvanceMode
  /\ hblank' = (mode' \in {"hblank", "off"} \/ (mode' = "oam" /\ DmaIsActive))
  /\ \/ UNCHANGED bus
     \/ mode # "off" /\ bus' = WordRequested(bus)
  /\ GoTo("copy")
  /\ UNCHANGED <<cpuVars, oam_acquirers, vram_acquirers, dmaVars, hdmaVars>>

(***************************************************************************)
(* The VRAM DMA ticks before the OAM DMA, in four calls or three.          *)
(***************************************************************************)
Even == t \in {0, 2}
PhaseDue == t = 3 \/ (t = 1 /\ clock = "double")
DmaDue == t \in {1, 3} \/ clock = "double"

HdmaCopy ==
  /\ stage = "copy"
  /\ IF Even THEN TickEven ELSE TickOdd
  /\ GoTo("state")
  /\ UNCHANGED <<cpuVars, ppuVars, dmaVars>>

HdmaState ==
  /\ stage = "state"
  /\ TickState(hblank, halted)
  /\ GoTo(IF Even THEN "request" ELSE IF PhaseDue THEN "phase" ELSE "dma")
  /\ UNCHANGED <<cpuVars, ppuVars, dmaVars>>

HdmaRequest ==
  /\ stage = "request"
  /\ TickRequest
  /\ GoTo("dma")
  /\ UNCHANGED <<cpuVars, ppuVars, dmaVars>>

HdmaPhase ==
  /\ stage = "phase"
  /\ TickPhase(fetching)
  /\ GoTo("dma")
  /\ UNCHANGED <<cpuVars, ppuVars, dmaVars>>

OamDma ==
  /\ stage = "dma"
  /\ IF DmaDue THEN DmaTick ELSE UNCHANGED <<dmaVars, busVars>>
  /\ t' = (t + 1) % 4
  /\ stage' = "cpu"
  /\ UNCHANGED <<clock, cpuVars, ppuVars, hdmaVars>>

Next ==
  \/ CpuHeld
  \/ CpuMicroop
  \/ FlushWrite
  \/ FlushRead
  \/ CpuWaits
  \/ PpuTick
  \/ HdmaCopy
  \/ HdmaState
  \/ HdmaRequest
  \/ HdmaPhase
  \/ OamDma

Spec == Init /\ [][Next]_vars

(* Nothing keeps the core from ticking. *)
FairSpec == Spec /\ WF_vars(Next)

(***************************************************************************)
(* Safety.                                                                 *)
(***************************************************************************)

(* The OAM and VRAM buses are the VRAM DMA's exactly while it moves bytes, *)
(* and the CPU is held then; else the CPU would be locked out of them.     *)
BusesHeldInTransfer ==
  /\ TypeOK
  /\ hdma_state = "Transferring" => active
  /\ "Hdma" \in oam_acquirers <=> hdma_state = "Transferring"
  /\ "Hdma" \in vram_acquirers <=> hdma_state = "Transferring"
  /\ "Dma" \in oam_acquirers <=> DmaIsActive

(* The assertions of tick_phase: a chunk is counted, and the CPU given     *)
(* back, before the transfer can have been asked to go on; and that of     *)
(* write_hdma5: only a transfer by HBlanks can be written over, for the    *)
(* others hold the CPU before it can do so.                                *)
ReleasedBeforeNextChunk ==
  stage = "phase" /\ (count_requested \/ unblock) =>
    /\ active
    /\ hdma_state \in {"None", "Paused"} \/ (hdma_state = "Transferring" /\ count_requested)

OnlyHBlankInterrupted ==
  WriteDue /\ io.at = "HDMA5" /\ hdma_state # "None" => hdma_mode = "HBlank"

HdmaAssertions == ReleasedBeforeNextChunk /\ OnlyHBlankInterrupted

(* HDMA5 reads as many chunks as are left: the count, though updated late, *)
(* follows the bytes.  A transfer at once gives the CPU back by it.        *)
ChunksLeft == (remaining_bytes + ChunkSize - 1) \div ChunkSize

CountFollowsBytes ==
  hdma_state # "None" =>
    count + 1 = ChunksLeft + IF count_requested THEN 1 ELSE 0

(* With the CPU in step: the VRAM DMA never comes in between the request   *)
(* of a read of the CPU and its flush, which would then read elsewhere.    *)
InStep == clock # "behind"

CpuReadUndisturbed ==
  InStep /\ ReadDue /\ io.op = "R" => bus[io.at].address \notin {"Hdma", "none"}

(* With the CPU in step: the OAM DMA moves the byte it has asked for, to   *)
(* where it asked to, and leaves no request on the buses when it is over.  *)
FlushDue ==
  stage = "dma" /\ DmaDue /\ dma_state = "Flush" /\ ~Begins /\ ~IsOamBlocked

DmaMovesItsByte ==
  InStep =>
    /\ FlushDue =>
         /\ bus["oam"].address = "Dma" /\ Write("Dma") \in bus["oam"].requests
         /\ dma_source = "memory" =>
              bus["memory"].address = "Dma" /\ Read("Dma") \in bus["memory"].requests
    /\ \A name \in BusNames : DmaPending(bus[name]) => dma_state = "Flush"

(* Whoever meets on the buses, each gets the byte asked for and HDMA5      *)
(* counts those that were moved.                                           *)
BytesInOrder == HdmaAssertions /\ CountFollowsBytes /\ CpuReadUndisturbed /\ DmaMovesItsByte

(***************************************************************************)
(* Liveness.                                                               *)
(***************************************************************************)

(* The CPU always gets its time back. *)
CpuGivenBack == active ~> ~active

(* A transfer that was asked for begins, unless it is called off. *)
TransferBegins == hdma_state \in {"Requested", "Pending", "Ready"} ~>
                    hdma_state \in {"Transferring", "None"}

(* No transfer waits, and none makes the CPU wait, for ever.               *)
TransfersEnd == CpuGivenBack /\ TransferBegins

=============================================================================
