SPECIFICATION Spec
CONSTANTS
  r1 = r1
  r2 = r2
  s1 = s1
  e1 = e1
  p1 = p1
  Runs = {r1, r2}
  Schedules = {s1}
  Entries = {e1}
  Projects = {p1}
  ProjectOf <- OneProject
  GoalOrders <- GoalInOne
  ScheduleOrders <- BoundToOne
  Agent = "pi"
  Slots = 2
  MaxTurns = 1
  MaxRetries = 0
  MaxComes = 0
  Failing = {}
SYMMETRY Symmetry
INVARIANTS StopIsQuiet
CHECK_DEADLOCK FALSE
