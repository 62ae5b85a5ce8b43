CONSTANTS
  i1 = i1
  i2 = i2
  d1 = d1
  Items <- TwoItems
  Devices <- OneDevice
  Agents = {"pi", "codex", "claude-code", "antigravity"}
  MaxItems = 2
  MaxActs = 1
  MaxFaults = 1
  MaxCrashes = 1
  MaxSaveFails = 1
  MaxWire = 2
SPECIFICATION Spec
INVARIANTS
  TypeOK
  NoSilentResend
  RevisionNamesContent
  OneAutomaticSend
  NothingLost
PROPERTIES
  DeliveredWasTaken
  ImplementsDelivery
CONSTRAINT OneFailure
CHECK_DEADLOCK FALSE
SYMMETRY Symmetry
