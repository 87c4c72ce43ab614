SPECIFICATION Spec
CONSTANTS
  Resources = {"a", "b"}
  Values = {"x", "y"}
  Absent = "absent"
  Revisions = {1, 2, 3}
  Content <- MCContent
  Specs <- OneSpec
  Dependencies = {"repository"}
  MaxGen = 1
  MaxSecret = 1
  MaxTick = 1
  MaxFaults = 0
  MaxFlaps = 1
  MaxOverlaps = 0
  MaxHandovers = 0
  FetchAnytime = FALSE
CHECK_DEADLOCK FALSE
INVARIANT Converged
