SPECIFICATION Spec
CONSTANTS
  c1 = c1
  c2 = c2
  Conns <- TwoConns
  NumRuns = 2
  Submitters <- FirstFromC1
  Room = room
  None = None
INVARIANTS
  RunsHaveConnection
  ToldOnce
PROPERTIES
  GroupFreed
CHECK_DEADLOCK FALSE
