SPECIFICATION Spec
CONSTANTS
  CHUNK = 6
  MARK = 2
  STEP = 5
  MaxSource = 20
INVARIANTS InBounds RepliesWhole
PROPERTIES EveryCallSent
CHECK_DEADLOCK FALSE
