SPECIFICATION Spec
CONSTANTS
  Funcs = {"f", "g"}
  MaxStarts = 2
INVARIANTS TypeOK StackCurrent
PROPERTIES ProbesAsAsked ProbesRemoved RequestsReturn
CHECK_DEADLOCK FALSE
