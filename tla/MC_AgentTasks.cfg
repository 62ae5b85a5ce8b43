SPECIFICATION FairSpec
CONSTANTS
  Approval = {a1}
  MaxUpsets = 2
  MaxTail = 2
INVARIANTS
  TypeOK
  OneDecision
  GoesOnWhenAcked
  AckIsTaken
  OrphanIsGone
PROPERTIES
  ReconnectEnds
  ImplementsDelivery
CHECK_DEADLOCK FALSE
