CONSTANTS
  Key = {k1}
  Conn = {c1, r1}
  Reattachers = {r1}
  Child = {x1, x2}
  Absent = Absent
  Dead = Dead
  Nobody = Nobody
  None = None
  AttachKey <- AllTheKey
  Home <- ForTheKey
  Spawners <- WithSpec
  WaitFails = {x2}
  RingCap = 2
  MaxOut = 3
  Row = {row1, row2}
  Junk = junk
  UndoLimit = 2
  MaxLive = 2
  MaxArchive = 2
  MaxFaults = 1
  Dir = {d1, d2, d3}
  Repo = {d1, d2}
  HomeDir = d1
  NoRoot = NoRoot
  MaxGen = 4
  MaxPages = 2
  Root = {ra, rb}
  Agent = {g1}
  NoAgent = NoAgent
  NoKey = NoKey
  NoSlot = NoSlot
  Preset <- NoPreset
  FirstRoot = ra
  MaxTabs = 2
  MaxPanes = 6
  MaxSpaces = 3
SPECIFICATION PartsSpec
SYMMETRY PartsSymmetry
CHECK_DEADLOCK FALSE
INVARIANTS
  TodoTypeOK
  GitTypeOK
  BenchTypeOK
  AttachedInSync
  NoRowLost
  NoRowDoubled
  SnapshotSettles
  LoadMoreAnswered
  BundlesInPlace
  SessionsHaveTabs
  AgentKeysDistinct
  ShellKeysDistinct
  FocusShown
PROPERTIES
  UndoSparesEdits
  OverlayNotOvertaken
