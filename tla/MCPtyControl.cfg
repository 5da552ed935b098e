CONSTANTS
  Conn = {c1, c2}
  Size = {small, large}
  InitSize = small
  NoSize = NoSize
  MaxReq = 2
SPECIFICATION FairSpec
CHECK_DEADLOCK FALSE
INVARIANTS
  TypeOK
  NoLostWakeup
  ExitedLeavesNothing
  LatestWins
PROPERTIES
  KillNotDelayed
  WorkersEnd
