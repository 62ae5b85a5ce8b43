SPECIFICATION Spec
CONSTANTS
  r1 = r1
  r2 = r2
  s1 = s1
  e1 = e1
  p1 = p1
  Runs = {r1, r2}
  Schedules = {s1}
  Entries = {e1}
  Projects = {p1}
  ProjectOf <- OneProject
  GoalOrders <- GoalInOne
  ScheduleOrders <- BoundToOne
  Agent = "codex"
  Slots = 2
  MaxTurns = 1
  MaxRetries = 0
  MaxComes = 1
  Failing = {"other", "save", "crash", "calendar"}
SYMMETRY Symmetry
CONSTRAINT SlipAlone
INVARIANTS TypeOK OneRunPerProject PersonsGoalFirst InterruptedWaits FireOnce
PROPERTIES NothingUnsaved
CHECK_DEADLOCK FALSE
