SPECIFICATION Spec
CONSTANTS
  None = None
  Groups = {g1}
  Sessions = {s1, s2}
  Conns = {c1, c2}
  Tasks = {t1, t2}
  MaxChunks = 3
  MaxHistory = 2
  MaxRestarts = 1
  DockerErrors = FALSE
  DiskOutcomes = {"ok"}
  HandshakeFailures = FALSE
CONSTRAINTS SmallSuccession SecondAfterRestart
SYMMETRY Symmetry
INVARIANTS HistoryIsSuffix TypeOK OneStart TablesAgree
CHECK_DEADLOCK FALSE
