SPECIFICATION SafeSpec
CONSTANTS
  c1 = c1
  c2 = c2
  Conns <- OneClient
  Requests <- Calls
  MaxRequests = 2
  InitSize = 8
  Pipelining = TRUE
INVARIANTS NothingLost
CHECK_DEADLOCK FALSE
