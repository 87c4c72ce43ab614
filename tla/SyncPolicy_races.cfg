SPECIFICATION Spec
CONSTANTS
  Resources = {"a"}
  Values = {"x", "y"}
  Absent = "absent"
  Revisions = {1}
  Content <- MCContent
  Specs <- EditedSpecs
  Dependencies = {"repository"}
  MaxGen = 2
  MaxSecret = 0
  MaxTick = 0
  MaxFaults = 1
  MaxFlaps = 0
  MaxOverlaps = 1
  MaxHandovers = 1
  FetchAnytime = TRUE
CHECK_DEADLOCK FALSE
INVARIANTS TypeOK 
PROPERTIES MutationsAnnounced SuccessForCurrentSpec
