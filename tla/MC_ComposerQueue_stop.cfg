CONSTANTS
  i1 = i1
  i2 = i2
  d1 = d1
  Items <- TwoItems
  Devices <- OneDevice
  Agents = {"codex"}
  MaxItems = 2
  MaxActs = 1
  MaxFaults = 0
  MaxCrashes = 0
  MaxSaveFails = 0
  MaxWire = 2
SPECIFICATION Spec
PROPERTIES
  NothingGoesAfterStop
CHECK_DEADLOCK FALSE
