CONSTANTS
  Key = {k1}
  Conn = {c1, c2}
  Reattachers = {}
  Child = {x1, x2}
  Absent = Absent
  Dead = Dead
  Nobody = Nobody
  None = None
  AttachKey <- AllTheKey
  Home <- ForTheKey
  Spawners <- WithSpec
  WaitFails = {}
  RingCap = 1
  MaxOut = 1
SPECIFICATION Spec
SYMMETRY Symmetry
CHECK_DEADLOCK FALSE
INVARIANT AttachAnswered
