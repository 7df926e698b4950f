SPECIFICATION MCSpec
CONSTANTS
  Requests = {r1, r2, r3}
  Values = {"v"}
  Keys = {"k", ""}
  Servers = {"s", "t"}
  Configs = {"c"}
  Texts = {"t1", "t2"}
  Folders = {f1}
  MaxStamp = 4
  MaxThreads = 2
  MaxFaults = 1
INVARIANTS
  UpdatesKept
  AnswersFresh
  EndedStaysEnded
CHECK_DEADLOCK FALSE
