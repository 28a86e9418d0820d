SPECIFICATION RowSpec
CONSTANTS
  Tile = 8
  LastLx = 18
  Scrolls = {0, 3}
  Wxs = {0, 7, 15}
  Layouts <- MCLayouts
INVARIANTS FetcherAssertions RowInBounds
