SPECIFICATION Spec
CONSTANTS
  p1 = p1
  p2 = p2
  Pids <- MCPids
  Root = f
  Inner = {a, c}
  MaxDepth <- MCMaxDepth
  Effort = 9
  Cost <- MCCost
  LossCost = 2
SYMMETRY MCSymmetry
INVARIANTS CallsMeasured TimesKept NeverRaises
CHECK_DEADLOCK FALSE
