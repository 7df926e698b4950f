SPECIFICATION Spec
CONSTANTS
  None = None
  Groups = {g1}
  Sessions = {s1}
  Conns = {c1, c2}
  Tasks = {t1, t2, t3}
  MaxChunks = 2
  MaxHistory = 1
  MaxRestarts = 0
  DockerErrors = FALSE
  DiskOutcomes = {"error"}
  HandshakeFailures = FALSE
SYMMETRY Symmetry
INVARIANTS ReplayExact AttachedHasClient WindowHasTimer
CHECK_DEADLOCK FALSE
