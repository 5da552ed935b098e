CONSTANTS
  Row = {row1, row2}
  Junk = junk
  UndoLimit = 2
  MaxLive = 2
  MaxArchive = 2
  MaxFaults = 1
SPECIFICATION TodoSpec
CHECK_DEADLOCK FALSE
INVARIANT UnreadKept
