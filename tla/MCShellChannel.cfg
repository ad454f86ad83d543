CONSTANTS
  ArrayN = 4
  MaxM = 8
  MaxN = 8
  MaxK = 16
  Writes <- MCWrites
SPECIFICATION Spec
INVARIANTS DoneMeansOver EventsExact FailureReported
