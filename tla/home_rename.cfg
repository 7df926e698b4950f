SPECIFICATION MCSpec
CONSTANTS
  Calls = {c1, c2}
  Owners = {"boss"}
  Admins = {"ann"}
  Members = {"bob"}
  Shared = {"ws", "wz"}
  SlotNames = {"main", "s1"}
  Endpoints = {"chat"}
  Messages = {"hello", "blank"}
  Tasks = {t1, t2}
  Loops = {"l1"}
  Passers = {"p1"}
  MaxTime = 2
  MaxRuns = 2
  CronPeriod = 1
  Schedules <- MCSchedules
  Registrations = {g1, g2}
  Usernames = {"n1", "n2"}
  Codes = {"k1"}
  MaxPolicies = 2
INVARIANTS
  HomeNotRenamed
CHECK_DEADLOCK FALSE
