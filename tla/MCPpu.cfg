SPECIFICATION PpuSpec
CONSTANTS
  Scan = 2
  Short = 7
  Long = 8
  Sync = 12
  Rows = 2
  Lines = 4
  Lycs = {0, 3}
  Settings = {0, 1}
  Enables <- MCEnables
INVARIANTS PpuTypeOK DotsAndBusesAgree EveryWriteSeen
PROPERTIES FrameInterrupts ImplementsFrameModes
