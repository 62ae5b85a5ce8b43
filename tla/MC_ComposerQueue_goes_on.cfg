CONSTANTS
  i1 = i1
  i2 = i2
  d1 = d1
  Items <- TwoItems
  Devices <- OneDevice
  Agents = {"pi", "codex", "antigravity"}
  MaxItems = 2
  MaxActs = 1
  MaxFaults = 1
  MaxCrashes = 0
  MaxSaveFails = 0
  MaxWire = 2
SPECIFICATION FairSpec
PROPERTIES
  QueueGoesOn
CHECK_DEADLOCK FALSE
