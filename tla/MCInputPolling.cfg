SPECIFICATION PollSpec
CONSTANTS
  MaxDelta = 3
  MaxTicks = 8
INVARIANT PollAhead
