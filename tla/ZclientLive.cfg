SPECIFICATION Spec
CONSTANTS
  w1 = w1
  w2 = w2
  s1 = s1
  NoThread = NoThread
  Web <- OneWorker
  Samplers <- OneSampler
  MaxConns = 3
  MaxCalls = 2
  BareReplies = FALSE
  HeldSockets = TRUE
PROPERTIES NoFalseDisconnect CallReturns ReconnectEnds
CHECK_DEADLOCK FALSE
