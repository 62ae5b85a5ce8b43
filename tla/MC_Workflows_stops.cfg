SPECIFICATION FairSpec
CONSTANTS
  r1 = r1
  r2 = r2
  s1 = s1
  e1 = e1
  p1 = p1
  Runs = {r1, r2}
  Schedules = {}
  Entries = {e1}
  Projects = {p1}
  ProjectOf <- OneProject
  GoalOrders <- GoalInOne
  ScheduleOrders = {}
  Agent = "acp"
  Slots = 2
  MaxTurns = 2
  MaxRetries = 1
  MaxComes = 0
  Failing = {"transient", "quota", "auth", "other"}
INVARIANTS WaiterKept StopIsQuiet
PROPERTIES OnlyOwnTurns StopSettles
CHECK_DEADLOCK FALSE
