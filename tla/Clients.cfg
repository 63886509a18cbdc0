\* Two goroutines calling GetDeadline and one calling Do, on two hosts; two clients
\* balanced for three callers; three dialers with one slot.
SPECIFICATION MCSpec
CONSTANTS
  g1 = g1  g2 = g2  d1 = d1
  h1 = h1  h2 = h2
  k1 = k1  k2 = k2  k3 = k3
  c1 = c1  c2 = c2
  Requesters = {g1, g2, d1}
  Getters = {g1, g2}
  Hosts = {h1, h2}
  HostClients = {k1, k2, k3}
  Chans = {c1, c2}
  MaxConnsPerHost = 1
  MaxRedirects = 1
  MaxRequests = 1
  None = None
  b1 = b1  b2 = b2
  Balanced <- First
  Addable = {b2}
  LBCallers = {g1, g2, d1}
  maxPenalty = 1
  MaxLBCalls = 2
  NoClient = NoClient
  Dialers = {g1, g2, d1}
  Concurrency = 1
  MaxAddrs = 2
  MaxDials = 2
  NoEntry = NoEntry
INVARIANTS OneClientPerHost GetResultOwn PenaltyPaid DialerAccounts
CHECK_DEADLOCK FALSE
