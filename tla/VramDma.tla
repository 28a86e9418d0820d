------------------------------ MODULE VramDma ------------------------------
(***************************************************************************)
(* The VRAM DMA (docboy/hdma): chunks of bytes, all at once or one per     *)
(* HBlank, with the CPU held from the fetch at the end of an instruction   *)
(* until the chunk is over.  Each function of a T-cycle is an action.      *)
(***************************************************************************)
EXTENDS Buses

CONSTANTS
  ChunkSize,   \* bytes of a chunk
  MaxChunks,   \* chunks of the longest transfer
  CountMod     \* values of remaining_chunks.count

ASSUME VramDmaAssumption ==
  /\ ChunkSize \in Nat \ {0} /\ ChunkSize % 2 = 0
  /\ MaxChunks \in Nat \ {0} /\ CountMod \in Nat /\ MaxChunks < CountMod

HdmaStates == {"None", "Requested", "Pending", "Ready", "Transferring", "Paused"}

VARIABLES
  hdma_state,
  hdma_mode,        \* "HBlank", "GeneralPurpose"
  active,           \* the CPU is held
  hdma_source,      \* by the bus it is on, elsewhere if on none
  remaining_bytes,
  count,            \* remaining_chunks.count
  count_requested,  \* remaining_chunks.state
  unblock,          \* the release of the CPU is scheduled
  conflict,         \* dma_oam_conflict
  last_hblank,      \* last_stat_mode was HBlank
  last_halted

hdmaVars == <<hdma_state, hdma_mode, active, hdma_source, remaining_bytes, count,
              count_requested, unblock, conflict, last_hblank, last_halted>>

HdmaTypeOK ==
  /\ hdma_state \in HdmaStates
  /\ hdma_mode \in {"HBlank", "GeneralPurpose"}
  /\ active \in BOOLEAN
  /\ hdma_source \in Sources
  /\ remaining_bytes \in 0 .. ChunkSize * MaxChunks
  /\ count \in 0 .. CountMod - 1
  /\ count_requested \in BOOLEAN
  /\ unblock \in BOOLEAN
  /\ conflict \in BOOLEAN
  /\ last_hblank \in BOOLEAN
  /\ last_halted \in BOOLEAN

ResetHdma ==
  /\ hdma_state = "None"
  /\ hdma_mode = "GeneralPurpose"
  /\ active = FALSE
  /\ hdma_source = CHOOSE source \in Sources : TRUE
  /\ remaining_bytes = 0
  /\ count = CountMod - 1
  /\ count_requested = FALSE
  /\ unblock = FALSE
  /\ conflict = FALSE
  /\ last_hblank = TRUE
  /\ last_halted = FALSE

(* write_hdma5, given STAT's mode: starts a transfer, or ends one that is  *)
(* not under way, unless HBlank mode is asked for again.                   *)
BytesOf(chunks) == ChunkSize * chunks

WriteHdma5(chunks, in_hblank_mode, hblank) ==
  /\ count' = chunks - 1
  /\ remaining_bytes' = BytesOf(chunks)
  /\ IF hdma_state # "None"
       THEN /\ hdma_state' = IF in_hblank_mode THEN hdma_state ELSE "None"
            /\ UNCHANGED hdma_mode
       ELSE /\ hdma_state' = IF in_hblank_mode /\ ~hblank THEN "Paused" ELSE "Requested"
            /\ hdma_mode' = IF in_hblank_mode THEN "HBlank" ELSE "GeneralPurpose"
  /\ UNCHANGED <<active, hdma_source, count_requested, unblock, conflict,
                 last_hblank, last_halted>>

(* tick_even: the requests of a byte.  With the OAM DMA under way each     *)
(* second byte, at an odd cursor, goes to OAM too.                         *)
OddCursor == remaining_bytes % 2 = 1

HdmaReads == ReadRequested(bus, hdma_source, "Hdma")

TickEven ==
  /\ IF hdma_state = "Transferring"
       THEN /\ conflict' = ("Dma" \in oam_acquirers /\ OddCursor)
            /\ bus' = IF conflict' THEN WriteRequested(HdmaReads, "oam", "Hdma") ELSE HdmaReads
       ELSE UNCHANGED <<conflict, bus>>
  /\ UNCHANGED <<hdma_state, hdma_mode, active, hdma_source, remaining_bytes, count,
                 count_requested, unblock, last_hblank, last_halted, oam_acquirers,
                 vram_acquirers>>

(* tick_odd: a byte is moved.                                              *)
HdmaMoves ==
  LET read == Flushed(bus, hdma_source, Read("Hdma"))
  IN IF conflict THEN Flushed(read, "oam", Write("Hdma")) ELSE read

ChunkIsOver == (remaining_bytes - 1) % ChunkSize = 0
LastByte == remaining_bytes = 1

(* Whether the destination has run over FFFF is any chunk's own choice.    *)
AfterChunk(overflow) ==
  IF LastByte \/ overflow THEN "None"
  ELSE IF hdma_mode = "HBlank" THEN "Paused" ELSE "Transferring"

UnblocksEachChunk(overflow) == TRUE

Unblocks(overflow) == overflow \/ hdma_mode = "HBlank" \/ count = 0

EndChunk(overflow) ==
  /\ remaining_bytes' = IF overflow THEN 0 ELSE remaining_bytes - 1
  /\ hdma_state' = AfterChunk(overflow)
  /\ unblock' = (unblock \/ Unblocks(overflow))
  /\ count_requested' = TRUE
  /\ IF AfterChunk(overflow) = "Transferring"
       THEN UNCHANGED <<oam_acquirers, vram_acquirers>>
       ELSE /\ oam_acquirers' = oam_acquirers \ {"Hdma"}
            /\ vram_acquirers' = vram_acquirers \ {"Hdma"}

TickOdd ==
  /\ IF hdma_state = "Transferring"
       THEN /\ bus' = HdmaMoves
            /\ IF ChunkIsOver
                 THEN \E overflow \in BOOLEAN : EndChunk(overflow)
                 ELSE /\ remaining_bytes' = remaining_bytes - 1
                      /\ UNCHANGED <<hdma_state, unblock, count_requested,
                                     oam_acquirers, vram_acquirers>>
       ELSE UNCHANGED <<bus, remaining_bytes, hdma_state, unblock, count_requested,
                        oam_acquirers, vram_acquirers>>
  /\ UNCHANGED <<hdma_mode, active, hdma_source, count, conflict, last_hblank, last_halted>>

(* tick_state: a paused transfer goes on when HBlank begins, as seen while *)
(* the CPU was not halted.                                                 *)
Resumes(hblank) == hdma_state = "Paused" /\ ~last_hblank /\ hblank /\ ~last_halted

TickState(hblank, halted) ==
  /\ hdma_state' = IF Resumes(hblank) THEN "Requested" ELSE hdma_state
  /\ last_hblank' = IF last_halted THEN last_hblank ELSE hblank
  /\ last_halted' = halted
  /\ UNCHANGED <<hdma_mode, active, hdma_source, remaining_bytes, count, count_requested,
                 unblock, conflict, busVars>>

TickRequest ==
  /\ hdma_state' = IF hdma_state = "Requested" THEN "Pending"
                   ELSE IF hdma_state = "Pending" THEN "Ready" ELSE hdma_state
  /\ UNCHANGED <<hdma_mode, active, hdma_source, remaining_bytes, count, count_requested,
                 unblock, conflict, last_hblank, last_halted, busVars>>

(* tick_phase: takes the CPU at a fetch, counts a chunk, or gives the CPU  *)
(* back.  The chunk may come from anywhere.                                *)
Begin ==
  /\ hdma_state' = "Transferring"
  /\ active' = TRUE
  /\ hdma_source' \in Sources
  /\ oam_acquirers' = oam_acquirers \cup {"Hdma"}
  /\ vram_acquirers' = vram_acquirers \cup {"Hdma"}
  /\ UNCHANGED <<count, count_requested, unblock>>

MayBeginAwake(fetching) == hdma_state = "Ready" /\ fetching /\ ~last_halted

MayBegin(fetching) == hdma_state = "Ready" /\ fetching

TickPhase(fetching) ==
  /\ \/ MayBegin(fetching) /\ Begin
     \/ /\ hdma_state = "Ready" /\ ~MayBegin(fetching)
        /\ UNCHANGED <<hdma_state, active, hdma_source, count, count_requested, unblock,
                       oam_acquirers, vram_acquirers>>
     \/ /\ hdma_state # "Ready"
        /\ count' = IF count_requested THEN (count + CountMod - 1) % CountMod ELSE count
        /\ count_requested' = FALSE
        /\ unblock' = (unblock /\ count_requested)
        /\ active' = (active /\ ~(unblock /\ ~count_requested))
        /\ UNCHANGED <<hdma_state, hdma_source, oam_acquirers, vram_acquirers>>
  /\ UNCHANGED <<hdma_mode, remaining_bytes, conflict, last_hblank, last_halted, bus>>

=============================================================================
