SPECIFICATION Spec
CONSTANTS
  Messages = {m1}
  Opens = {o1}
  Goal = goal
  Requests = {r1}
  Procs = {p1, p2, p3}
  First = p1
  LocalNames = TRUE
  Desktop = FALSE
INVARIANTS OneProcess
CHECK_DEADLOCK FALSE
