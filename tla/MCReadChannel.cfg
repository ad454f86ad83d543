\* Two pages of four words, bursts of at most three: bursts are cut by the
\* page, by MaxBurst and by the end of the job, and jobs wrap the address.
CONSTANTS
  MaxBurst = 3
  PageWords = 4
  AddrWords = 8
  Bases = {0, 1, 2, 3, 4, 5, 6, 7}
  Counts = {0, 1, 2, 3, 4, 5, 6, 7}
  FaultySlave = TRUE
SPECIFICATION FairSpec
INVARIANTS TypeOK BurstLegal WordsConserved NoOrphanBurst ErrorExact
PROPERTIES Implements JobEnds
