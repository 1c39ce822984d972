\* Three games, two bank passes, a save loaded between them, one fault.
CONSTANTS
  s1 = s1
  s2 = s2
  r1 = r1
  r2 = r2
  p1 = p1
  p2 = p2
  p3 = p3
  other = other
  Fix = Fix
  None = None
  States = {s1, s2}
  Provinces = {r1, r2}
  Pops = {p1, p2, p3}
  MaxStates = 3
  MaxProvinces = 2
  MaxPops = 3
  MaxCampaignStates = 2
  Width = 4
  PopMoneyScale = 2
  MaxPayees = 3
  Plugins <- MCPlugins
  HookCount = 2
  Worlds <- MCWorlds
  Fragile <- MCFragile
  QueueSize = 1
  MaxShare = 1
  MaxDays = 2
  MaxFaults = 1
  MaxLoads = 1
SPECIFICATION FixSpec
CHECK_DEADLOCK FALSE
INVARIANT AllocationIsFair
INVARIANT NothingLeftBehind
PROPERTY PaymentsAreSound
