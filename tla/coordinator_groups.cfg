SPECIFICATION Spec
CONSTANTS
  None = None
  g1 = g1
  g2 = g2
  Runs = {r1, r2, r3}
  Groups = {g1, g2}
  Slots = {"main", "side"}
  Requests <- GroupRequests
  Backends <- AllBackends
  MaxCompletedRuns = 2
  Outcomes <- QueueOutcomes
  WaitersMayCancel = TRUE
SYMMETRY Symmetry
INVARIANTS OneActivePerGroup ReadersAgree QueuedHasWorker
PROPERTY NoCallAfterTerminal
