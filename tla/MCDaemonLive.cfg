CONSTANTS
  Key = {k1}
  Conn = {c1, c2, r1}
  Reattachers = {r1}
  Child = {x1}
  Absent = Absent
  Dead = Dead
  Nobody = Nobody
  None = None
  AttachKey <- AllTheKey
  Home <- ForTheKey
  Spawners <- WithSpec
  WaitFails = {}
  RingCap = 1
  MaxOut = 0
  Client = {p1, p2}
  Session = {s1}
  Never = Never
  Unset = Unset
  Graces = {0, 3}
  Requests <- MCRequests
  IdleExitAfter = 2
  QuietCap = 3
SPECIFICATION FairDaemonSpec
CHECK_DEADLOCK FALSE
INVARIANT LifeTypeOK
PROPERTIES
  AttachSettles
  DetachCompletes
  ExitFinalized
  GraceHonoured
  UnusedDaemonExits
