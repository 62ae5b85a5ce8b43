SPECIFICATION FairSpec
CONSTANTS
  Messages = {m1}
  Opens = {o1}
  Goal = goal
  Requests = {r1, r2}
  Procs = {p1, p2}
  First = p1
  LocalNames = FALSE
  Desktop = FALSE
INVARIANTS TypeOK SentOnce OneHolder HeldByLiveWork GoalKeepsProcess OneProcess
PROPERTIES LetGoRefusesNothing EveryoneIsAnswered
CHECK_DEADLOCK FALSE
