CONSTANTS
  Root = {ra, rb}
  Agent = {g1}
  NoAgent = NoAgent
  NoKey = NoKey
  NoSlot = NoSlot
  Preset <- OnePreset
  FirstRoot = ra
  MaxTabs = 2
  MaxPanes = 6
  MaxSpaces = 3
SPECIFICATION BenchSpec
CHECK_DEADLOCK FALSE
INVARIANT AgentKeysDistinct
