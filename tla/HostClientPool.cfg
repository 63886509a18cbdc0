\* Two requests, retries off, MaxConns moved between 1 and unset (2), an
\* operator closing idle connections; requests wait for a connection, or
\* (MCHostClient picks) fail at once, under FIFO and with one retry.
SPECIFICATION MCSpec
CONSTANTS
  p1 = p1  p2 = p2
  w1 = w1  w2 = w2
  k1 = k1  k2 = k2  k3 = k3
  c1 = c1
  Callers = {p1, p2}
  Wants = {w1, w2}
  Conns = {k1, k2, k3}
  Cleaner = Cleaner
  Closers = {c1}
  MaxConnsValues = {0, 1}
  DefaultMaxConns = 2
  Waiting = TRUE
  Lifo = TRUE
  CloseCallers = {}
  TimedCallers = {p1}
  RetryableCallers = {p1}
  MaxAttempts = 1
  NoConn = NoConn  NoWant = NoWant  NoAgent = NoAgent
INVARIANTS CountExact ExclusiveUse WithinLimit NoWaiterDropped NoConnForgotten
SYMMETRY Interchangeable
