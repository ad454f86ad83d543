CONSTANTS
  ArrayN = 4
  MaxM = 5
  MaxN = 5
  MaxK = 2
  MaxBurst = 4
  PageWords = 8
  AddrWords = 64
  Base = 3
  Depth = 40
  WordHalf = 134217728
  CounterWrap = 16
  Writes <- JustStart
  Program <- FarProgram
  InitRam <- MCRam
SPECIFICATION FairSpec
PROPERTY AcceptedJobsDone
