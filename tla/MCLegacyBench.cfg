CONSTANTS
  N = 4
  KMax = 2
  WordWrap = 16
  Outstanding = 2
  Operands <- MCOperands
  Writes <- MCWrites
  MaxFree = 5
SPECIFICATION FairSpec
INVARIANTS ResultsExact WritesExact
PROPERTIES EventsExact RunReported
