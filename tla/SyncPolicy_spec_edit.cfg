SPECIFICATION Spec
CONSTANTS
  Resources = {"a", "b"}
  Values = {"x", "y"}
  Absent = "absent"
  Revisions = {1, 2}
  Content <- MCContent
  Specs <- NarrowThenWhole
  Dependencies = {"repository"}
  MaxGen = 2
  MaxSecret = 0
  MaxTick = 0
  MaxFaults = 0
  MaxFlaps = 0
  MaxOverlaps = 0
  MaxHandovers = 0
  FetchAnytime = FALSE
CHECK_DEADLOCK FALSE
INVARIANT Converged
