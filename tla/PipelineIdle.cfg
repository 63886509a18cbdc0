\* Three callers of Do, one call each, and one idle stop with a work queued.
SPECIFICATION Spec
CONSTANTS
  p1 = p1  p2 = p2  p3 = p3
  v1 = v1  v2 = v2  v3 = v3
  Callers = {p1, p2, p3}
  TimedCallers = {}
  Works = {v1, v2, v3}
  MaxConns = 1
  Cap = 1
  MaxGen = 2
  Twice = {}
  MaxCalls <- Calls
  NoWork = NoWork
INVARIANTS ResponseMatches
CHECK_DEADLOCK FALSE
