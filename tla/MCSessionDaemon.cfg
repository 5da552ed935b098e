CONSTANTS
  Key = {k1}
  Conn = {c1, c2, r1}
  Reattachers = {r1}
  Child = {x1, x2}
  Absent = Absent
  Dead = Dead
  Nobody = Nobody
  None = None
  AttachKey <- AllTheKey
  Home <- ForTheKey
  Spawners <- WithSpec
  WaitFails = {}
  RingCap = 2
  MaxOut = 3
SPECIFICATION Spec
CONSTRAINT ReattachesAlone
SYMMETRY Symmetry
CHECK_DEADLOCK FALSE
INVARIANTS
  TypeOK
  StreamWellFormed
  RingIsTail
  RegistrationsOwned
  HostedIsWatched
PROPERTY ForgottenIffKilled
