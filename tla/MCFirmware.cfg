CONSTANTS
  ArrayN = 4
  MaxM = 64
  MaxN = 64
  MaxK = 64
  MaxFaults = 1
  Writes <- NoWrites
  Descriptors <- MCDescriptors
SPECIFICATION DemoFair
INVARIANTS ReturnExact VerdictExact JobsInBounds
PROPERTIES CallReturns EveryJobReportedHere
