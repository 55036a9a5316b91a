SPECIFICATION SafeSpec
CONSTANTS
  c1 = c1
  c2 = c2
  Conns <- OneClient
  Requests <- WithEscapes
  MaxRequests = 2
  InitSize = 3
  Pipelining = FALSE
INVARIANTS ErrorOnlyIfMalformed
CHECK_DEADLOCK FALSE
