SPECIFICATION FairSpec
CONSTANTS
  None = None
  g1 = g1
  g2 = g2
  Runs = {r1, r2, r3}
  Groups = {g1}
  Slots = {"main"}
  Requests <- ServiceRequests
  Backends <- AllBackends
  MaxCompletedRuns = 1
  Outcomes <- QueueOutcomes
  WaitersMayCancel = FALSE
INVARIANT MonitorAgrees
PROPERTIES ImplementsRunQueue EveryRunSettles
