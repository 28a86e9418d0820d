------------------------------- MODULE OamDma -------------------------------
(***************************************************************************)
(* The OAM DMA (docboy/dma): each byte is requested in one tick, from the  *)
(* source and to OAM, and moved in the next.  While the VRAM DMA has the   *)
(* OAM bus, the ticks go by without moving anything.                       *)
(***************************************************************************)
EXTENDS Buses

CONSTANT OamSize  \* bytes of OAM

ASSUME OamDmaAssumption == OamSize \in Nat \ {0}

Delay == 4  \* ticks before a transfer starts

VARIABLES
  countdown,   \* request.countdown
  dma_state,   \* "None", "Prepare", "Flush"
  dma_source,  \* by the bus it is on
  dma_cursor

dmaVars == <<countdown, dma_state, dma_source, dma_cursor>>

DmaTypeOK ==
  /\ countdown \in 0 .. Delay
  /\ dma_state \in {"None", "Prepare", "Flush"}
  /\ dma_source \in Sources
  /\ dma_cursor \in 0 .. OamSize

ResetDma ==
  /\ countdown = 0
  /\ dma_state = "None"
  /\ dma_source = CHOOSE source \in Sources : TRUE
  /\ dma_cursor = 0

DmaIsActive == dma_state # "None"

(* The source asked for here is chosen when the transfer begins.           *)
StartTransfer ==
  /\ countdown' = Delay
  /\ UNCHANGED <<dma_state, dma_source, dma_cursor>>

IsOamBlocked == "Hdma" \in oam_acquirers

(* The byte at the cursor is asked for, unless the OAM is blocked. *)
PrepareBlindly(source) ==
  WriteRequested(ReadRequested(bus, source, "Dma"), "oam", "Dma")

Prepare(source) ==
  IF IsOamBlocked THEN bus
  ELSE WriteRequested(ReadRequested(bus, source, "Dma"), "oam", "Dma")

Flush ==
  IF IsOamBlocked THEN bus
  ELSE Flushed(Flushed(bus, dma_source, Read("Dma")), "oam", Write("Dma"))

Begins == countdown = 1

MoreBytes == dma_cursor < OamSize

(* Dma::tick. *)
DmaBegin ==
  /\ Begins
  /\ oam_acquirers' = oam_acquirers \cup {"Dma"}
  /\ dma_source' \in Sources
  /\ dma_cursor' = 0
  /\ bus' = Prepare(dma_source')
  /\ dma_state' = "Flush"

DmaPrepare ==
  /\ ~Begins /\ dma_state = "Prepare"
  /\ IF MoreBytes
       THEN /\ bus' = Prepare(dma_source)
            /\ dma_state' = "Flush"
            /\ UNCHANGED oam_acquirers
       ELSE /\ oam_acquirers' = oam_acquirers \ {"Dma"}
            /\ dma_state' = "None"
            /\ UNCHANGED bus
  /\ UNCHANGED <<dma_source, dma_cursor>>

DmaFlush ==
  /\ ~Begins /\ dma_state = "Flush"
  /\ bus' = Flush
  /\ dma_cursor' = dma_cursor + 1
  /\ dma_state' = "Prepare"
  /\ UNCHANGED <<oam_acquirers, dma_source>>

DmaIdle ==
  /\ ~Begins /\ dma_state = "None"
  /\ UNCHANGED <<bus, oam_acquirers, dma_state, dma_source, dma_cursor>>

DmaTick ==
  /\ DmaBegin \/ DmaPrepare \/ DmaFlush \/ DmaIdle
  /\ countdown' = IF countdown = 0 THEN 0 ELSE countdown - 1
  /\ UNCHANGED vram_acquirers

=============================================================================
