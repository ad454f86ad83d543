CONSTANTS
  N = 4
  MaxM = 5
  MaxN = 8
  MaxK = 5
  WordHalf = 1048576
  Jobs <- MCJobs
  Padding = 99
SPECIFICATION FairSpec
INVARIANTS ResultRight WordsExact
PROPERTY JobEnds
