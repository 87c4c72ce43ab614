SPECIFICATION Spec
CONSTANTS
  Urls = {"u1"}
  Branches = {"main", "dev"}
  Revisions = {1, 2}
  Specs <- OneServer
  MaxGen = 2
  MaxPushes = 2
  MaxFaults = 1
  MaxCrashes = 1
  MaxBadCleanups = 0
INVARIANTS TypeOK ReadyNamesTheTree GoneIsClean
CHECK_DEADLOCK FALSE
