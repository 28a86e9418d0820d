------------------------------- MODULE Buses -------------------------------
(***************************************************************************)
(* The buses of docboy/bus as their users share them: an access is a       *)
(* request that puts an address on the bus and, some T-cycles later, a     *)
(* flush that moves the byte at whatever address is on the bus by then.    *)
(* The OAM and VRAM buses may also be acquired, which shuts the CPU out.   *)
(***************************************************************************)
EXTENDS Naturals

CONSTANT Sources  \* where the transfers read from

ASSUME BusesAssumption == Sources \subseteq {"memory", "elsewhere"} /\ Sources # {}

Devices == {"Cpu", "Dma", "Hdma", "Ppu"}

(* The buses do not bear on each other, so that one of those the transfers *)
(* read from stands for each of them.  At "elsewhere" there is none.       *)
BusNames == {"memory", "oam"}

Read(dev) == <<"R", dev>>
Write(dev) == <<"W", dev>>

Requests == {"R", "W"} \X (Devices \ {"Ppu"})

VARIABLES
  bus,            \* per bus: pending requests, and who put the address on it
  oam_acquirers,  \* of the transfers: PPU locks do not bear on them
  vram_acquirers

busVars == <<bus, oam_acquirers, vram_acquirers>>

BusesTypeOK ==
  /\ bus \in [BusNames -> [requests : SUBSET Requests, address : Devices \cup {"none"}]]
  /\ oam_acquirers \subseteq {"Dma", "Hdma"}
  /\ vram_acquirers \subseteq {"Hdma"}

InitBuses ==
  /\ bus = [name \in BusNames |-> [requests |-> {}, address |-> "none"]]
  /\ oam_acquirers = {}
  /\ vram_acquirers = {}

DmaPending(b) == b.requests \cap {Read("Dma"), Write("Dma")} # {}

(* Buses after a request of a device at a place; no bus is "elsewhere".    *)
Requested(buses, place, request, dev, keeps) ==
  [name \in BusNames |->
     IF name # place THEN buses[name]
     ELSE [requests |-> buses[name].requests \cup {request},
           address |-> IF name \in keeps THEN buses[name].address ELSE dev]]

(* The address of the OAM DMA stays when the CPU puts in a request. *)
KeptFrom(buses, dev) ==
  IF dev = "Cpu" THEN {name \in BusNames : DmaPending(buses[name])} ELSE {}

ReadRequested(buses, place, dev) ==
  Requested(buses, place, Read(dev), dev, KeptFrom(buses, dev))

WriteRequested(buses, place, dev) ==
  Requested(buses, place, Write(dev), dev, KeptFrom(buses, dev))

(* An address is of no account once no request needs it. *)
Flushed(buses, place, request) ==
  [name \in BusNames |->
     IF name # place THEN buses[name]
     ELSE LET left == buses[name].requests \ {request}
          IN [requests |-> left,
              address |-> IF left = {} THEN "none" ELSE buses[name].address]]

(* OamBus::read_word_request: the PPU leaves the address of a write.  Its  *)
(* own request is flushed a dot later, and nothing looks at it.            *)
LeftByPpu(requests) ==
  requests = {} \/ requests \cap {Write("Cpu"), Write("Dma")} # {}

WordRequested(buses) ==
  IF LeftByPpu(buses["oam"].requests) THEN buses ELSE [buses EXCEPT !["oam"].address = "Ppu"]

=============================================================================
