SPECIFICATION FairSpec
CONSTANTS
  ExitDouble = 8
  ExitSingle = 6
  Groups <- MCGroups
  Ops <- MCOps
  Targets <- MCTargets
  Pushes <- MCPushes
  Sources <- MCSources
  EnableBits <- MCSources
INVARIANTS TypeOK PhaseMatchesTick InterruptsInOrder EiDelay
PROPERTIES SwitchesKeptApart StopSeesEveryPress NothingHoldsCpu
