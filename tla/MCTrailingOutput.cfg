CONSTANTS
  Key = {k1}
  Conn = {c1}
  Reattachers = {}
  Child = {x1}
  Absent = Absent
  Dead = Dead
  Nobody = Nobody
  None = None
  AttachKey <- AllTheKey
  Home <- ForTheKey
  Spawners <- WithSpec
  WaitFails = {}
  RingCap = 1
  MaxOut = 2
SPECIFICATION Spec
SYMMETRY Symmetry
CHECK_DEADLOCK FALSE
INVARIANT ExitedAfterAllOutput
