SPECIFICATION RingSafeSpec
CONSTANTS
  RingLen = 3
  MaxAdds = 8
INVARIANTS LineAscends LineCurrent LastPaired
