\* Two requests under fairness.
SPECIFICATION MCFairSpec
CONSTANTS
  p1 = p1  p2 = p2
  w1 = w1  w2 = w2
  k1 = k1  k2 = k2
  Callers = {p1, p2}
  Wants = {w1, w2}
  Conns = {k1, k2}
  Cleaner = Cleaner
  Closers = {}
  MaxConnsValues = {1}
  DefaultMaxConns = 2
  Waiting = TRUE
  Lifo = TRUE
  CloseCallers = {}
  TimedCallers = {}
  RetryableCallers = {}
  MaxAttempts = 1
  NoConn = NoConn  NoWant = NoWant  NoAgent = NoAgent
PROPERTIES DeliveredIsTaken IdleExpires DrainsWhenQuiet
