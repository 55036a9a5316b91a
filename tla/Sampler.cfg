SPECIFICATION Spec
CONSTANTS
  Pids = {p1}
  Sections <- MCSections
  LEN = 2
  Period = 2
INVARIANTS TypeOK DiffedInOrder NeverRaises
PROPERTIES SamplingGoesOn
CHECK_DEADLOCK FALSE
