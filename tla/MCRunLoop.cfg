SPECIFICATION FairSpec
CONSTANTS
  Artificial = 5
  VisibleDots = 20
  FrameDots = 28
  EnableDots = {3, 5}
  MaxHeld = 5
  Modes = {TRUE, FALSE}
  Burst = 4
  CountMod = 16
INVARIANTS RunsBounded LoopsMatchMachine
PROPERTIES WholeWithoutBursts FrameReturns
