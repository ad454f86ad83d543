CONSTANTS
  N = 4
  MaxK = 2
  WordHalf = 1048576
  Jobs <- MCJobs
SPECIFICATION Spec
INVARIANT NoResultLost
