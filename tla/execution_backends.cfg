SPECIFICATION Spec
CONSTANTS
  NumRuns = 2
  Kinds <- SomeKinds
  Names = {"n"}
  NameOf <- SharedName
  Timed <- FirstRun
  Cancellable <- FirstRun
  Reports <- SomeReports
INVARIANTS
  TablesCleared
  NothingLeftRunning
  AnswerHonest
PROPERTIES
  CancelSettles
CHECK_DEADLOCK FALSE
