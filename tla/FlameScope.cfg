SPECIFICATION Spec
CONSTANTS
  Files <- MCFiles
  Again <- MCAgain
  Ranges <- MCRanges
  MaxWrites = 2
INVARIANTS CachesCurrent GraphComplete NeverFails
CHECK_DEADLOCK FALSE
