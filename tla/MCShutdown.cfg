CONSTANTS
  Client = {c1, c2}
  Session = {s1}
  Never = Never
  Unset = Unset
  Graces = {0, 3}
  Requests <- MCRequests
  IdleExitAfter = 2
  QuietCap = 3
SPECIFICATION FairLifeSpec
CHECK_DEADLOCK FALSE
PROPERTIES
  ShutdownExits
