SPECIFICATION SafeSpec
CONSTANTS
  w1 = w1
  w2 = w2
  s1 = s1
  NoThread = NoThread
  Web <- TwoWorkers
  Samplers <- OneSampler
  MaxConns = 3
  MaxCalls = 2
  BareReplies = TRUE
  HeldSockets = TRUE
SYMMETRY WorkerSymmetry
INVARIANTS TypeOK StreamInStep
PROPERTIES RpcSpec
CHECK_DEADLOCK FALSE
