SPECIFICATION FairSpec
CONSTANTS
  Sources = {"memory"}
  OamSize = 2
  ChunkSize = 2
  MaxChunks = 2
  CountMod = 4
  Clocks = {"single", "behind", "double"}
  MaxMicroops = 1
  MinCycles = 5
INVARIANTS BusesHeldInTransfer BytesInOrder
PROPERTIES TransfersEnd
