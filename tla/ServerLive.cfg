\* One accepted connection, one passed to ServeConn, a byte at a time.
SPECIFICATION FairSpec
CONSTANTS
  c1 = c1  c2 = c2
  x1 = x1  x2 = x2
  Conns = {c1, c2}
  Direct = {c2}
  Pipelining = {}
  Silent = {c2}
  MaxRequests <- RequestsSent
  Ctxs = {x1, x2}
  Concurrency = 1
  ReduceMemoryUsage = TRUE
  ReadTimeout = TRUE
  WriteTimeout = FALSE
  KeepHijackedConns = FALSE
  CloseOnShutdown = TRUE
  ContinueHandler = FALSE
  TimeoutHandler = FALSE
  Hijacks = FALSE
  Deadline = FALSE
  NoConn = NoConn  NoCtx = NoCtx
INVARIANTS CtxExclusive
PROPERTIES ShutdownEnds
