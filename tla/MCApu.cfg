SPECIFICATION ApuSpec
CONSTANTS
  DivBit = 1
  MaxSteps = 8
  MaxLength = 2
  VolumeTop = 2
  CounterBits = 1
  ByteBits = 1
  PeriodTop = 8
  PeriodLow = 4
  Programs <- MCPrograms
INVARIANTS ApuTypeOK SoundingIsPowered
PROPERTIES StepsKeepTime RetriggerInTable
