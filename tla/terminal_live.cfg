SPECIFICATION FairSpec
CONSTANTS
  None = None
  Groups = {g1}
  Sessions = {s1}
  Conns = {c1, c2}
  Tasks = {t1, t2}
  MaxChunks = 0
  MaxHistory = 1
  MaxRestarts = 0
  DockerErrors = TRUE
  DiskOutcomes = {"error"}
  HandshakeFailures = TRUE
PROPERTIES WindowEnds JobsReturn
CHECK_DEADLOCK FALSE
