\* Two calls of Do by one caller and a DoDeadline; one connection, queues of one.
SPECIFICATION FairSpec
CONSTANTS
  p1 = p1
  t1 = t1
  v1 = v1  v2 = v2  v3 = v3
  Callers = {p1, t1}
  TimedCallers = {t1}
  Works = {v1, v2, v3}
  MaxConns = 1
  Cap = 1
  MaxGen = 1
  Twice = {p1}
  MaxCalls <- Calls
  NoWork = NoWork
INVARIANTS WorkInOnePlace ResponseMatches
PROPERTIES Answered
CHECK_DEADLOCK FALSE
