CONSTANTS
  i1 = i1
  i2 = i2
  d1 = d1
  Items <- TwoItems
  Devices <- OneDevice
  Agents = {"claude-code"}
  MaxItems = 2
  MaxActs = 2
  MaxFaults = 1
  MaxCrashes = 0
  MaxSaveFails = 0
  MaxWire = 2
SPECIFICATION FairSpec
PROPERTIES
  IdleQueueGoesOn
CHECK_DEADLOCK FALSE
