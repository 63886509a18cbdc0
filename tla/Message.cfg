SPECIFICATION Spec
CONSTANTS
  BufSize = 1
  ReadCap = 1
  Prefetch = 1
  MinCompressLen = 2
  FormLen = 2
  Streams = {1, 2}
  MaxOps = 3
  MaxLen = 2
  MaxBodySize = {0, 1}
INVARIANTS InSync HeadersArrive CloseAgreed StreamsClosedOnce CopyFaithful
CHECK_DEADLOCK FALSE
