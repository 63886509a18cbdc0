\* Up to three routes in two groups, two requests one after the other; two clients,
\* two request goroutines, three requests with one operation each, two tokens.
SPECIFICATION MCSpec
CONSTANTS
  Tokens <- MCTokens
  Slash = "/"
  Digits = {"1"}
  Methods = {"GET", "POST"}
  RouteChoices <- MCRoutes
  UseChoices = {"middleware"}
  Prefix <- MCPrefix
  Requests <- MCRequests
  MaxRoutes = 3
  MaxRequests = 2
  v1 = v1  v2 = v2
  p1 = p1  p2 = p2
  d1 = d1  d2 = d2
  k1 = k1
  Visitors = {v1, v2}
  SessionReqs = {p1, p2}
  Datas = {d1, d2}
  MaxTokens = 2
  TextLengths = {"short", "long"}
  Keys = {k1}
  Types = {"int"}
  MaxSessionReqs = 3
  MaxSessionOps = 1
  Nil = Nil
SYMMETRY Symmetry
INVARIANTS RequestRouted SessionOwn SessionKept
CHECK_DEADLOCK FALSE
