SPECIFICATION FairSpec
CONSTANTS
  A = A
  B = B
  NoTurn = NoTurn
  Garbled = Garbled
  Width = 2
  SlowHalf = 1
  Speeds <- MCSlow
  Loads <- MCLoads
INVARIANT PortsInStep
PROPERTIES ExchangeCompletes MasterFinishes
