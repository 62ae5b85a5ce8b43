SPECIFICATION FairSpec
CONSTANTS
  Child = {e1, e2}
  Thread = {t1, t2}
  Call = {c1, c2}
  Limit = 1
INVARIANTS TypeOK Capacity OpenChildIsReachable KnownProcessHoldsSlot
PROPERTIES OnlyIdleGoes NoCallOfAClosingChild AdmissionGoesOn
CHECK_DEADLOCK FALSE
