SPECIFICATION VideoSpec
CONSTANTS
  Scan = 0
  Short = 5
  Long = 6
  Sync = 10
  Rows = 2
  Lines = 4
  Lycs = {0}
  Settings = {0}
  Enables = {{}}
  RowHalf = 4
  SyncRows = 3
  MaxLost = 3
PROPERTIES PictureInStep LcdComesBack
