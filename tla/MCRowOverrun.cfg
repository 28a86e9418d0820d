SPECIFICATION LoopSpec
CONSTANTS
  Tile = 8
  LastLx = 168
  Scrolls = {0, 7}
  Wxs <- MCWxs
  Layouts <- MCLayouts
INVARIANT RowFitsItsLine
