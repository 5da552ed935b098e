CONSTANTS
  Buf = {a, b}
  NoBuf = NoBuf
  MaxAcc = 2
  MaxCalls = 2
SPECIFICATION FairPathSpec
CHECK_DEADLOCK FALSE
INVARIANTS
  PathTypeOK
  KillNotLost
PROPERTIES
  ImplementsStdinQueue
  TypedArrivesInOrder
  AcceptedArrives
  DropReleasesRaw
  KillArrives
