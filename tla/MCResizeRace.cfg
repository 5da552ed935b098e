CONSTANTS
  Conn = {c1, c2}
  Size = {small, large}
  InitSize = small
  NoSize = NoSize
  MaxReq = 2
SPECIFICATION Spec
CHECK_DEADLOCK FALSE
INVARIANT GridSettles
