CONSTANTS
  Base = 1
  Depth = 4
  Words = {0, 1}
  ReadRequests <- MCReads
  WriteRequests <- MCWrites
SPECIFICATION Spec
INVARIANTS BeatRight ResponseExact BypassBounded
PROPERTY OnlyOwnWrites
