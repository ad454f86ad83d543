CONSTANTS
  N = 3
  K = 3
  Peak = 7
  Vectors <- MCVectors
SPECIFICATION ArraySpec
INVARIANTS TypeOK OperandsAligned ProductReady
