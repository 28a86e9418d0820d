CONSTANTS
  DivSize = 1024
  TimaSize = 3
  TacDivBits <- RealTacDivBits
  DoubleSpeed = FALSE
SPECIFICATION FairSpec
INVARIANTS TypeOK TimerInStep
PROPERTIES TimerFires RequestLostOnlyByIFWrite
