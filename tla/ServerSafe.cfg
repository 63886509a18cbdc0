\* Two connections accepted, one at a time; the first pipelines two requests.
SPECIFICATION Spec
CONSTANTS
  c1 = c1  c2 = c2
  x1 = x1  x2 = x2  x3 = x3
  Conns = {c1, c2}
  Direct = {}
  Pipelining = {c1}
  Silent = {c2}
  MaxRequests <- RequestsSent
  Ctxs = {x1, x2, x3}
  Concurrency = 1
  ReduceMemoryUsage = FALSE
  ReadTimeout = FALSE
  WriteTimeout = TRUE
  KeepHijackedConns = FALSE
  CloseOnShutdown = FALSE
  ContinueHandler = TRUE
  TimeoutHandler = TRUE
  Hijacks = TRUE
  Deadline = TRUE
  NoConn = NoConn  NoCtx = NoCtx
INVARIANTS CountersExact CtxExclusive IdleTracked AnsweredUnlessShutdown NothingHeldBack
PROPERTIES DrainedOnReturn StateOrder
SYMMETRY Interchangeable
