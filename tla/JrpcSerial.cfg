SPECIFICATION Spec
CONSTANTS
  c1 = c1
  c2 = c2
  Conns <- TwoClients
  Requests <- AllRequests
  MaxRequests = 2
  InitSize = 3
  Pipelining = FALSE
INVARIANTS TypeOK RoomForNul NothingLost AnswersInOrder
PROPERTIES EveryRequestAnswered
CHECK_DEADLOCK FALSE
