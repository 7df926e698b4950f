SPECIFICATION Spec
CONSTANTS
  None = None
  g1 = g1
  g2 = g2
  Runs = {r1, r2, r3}
  Groups = {g1}
  Slots = {"main"}
  Requests <- SlotRequests
  Backends <- AllBackends
  MaxCompletedRuns = 1
  Outcomes <- AllOutcomes
  WaitersMayCancel = FALSE
SYMMETRY Symmetry
INVARIANTS TypeOK RetentionBound SessionsSound OneBackendCallPerGroup NoResidue
PROPERTIES TerminalIsFinal FollowUpResumes
