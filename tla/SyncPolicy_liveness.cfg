SPECIFICATION FairSpec
CONSTANTS
  Resources = {"a"}
  Values = {"x", "y"}
  Absent = "absent"
  Revisions = {1, 2}
  Content <- MCContent
  Specs <- OneSpec
  Dependencies = {"repository"}
  MaxGen = 1
  MaxSecret = 1
  MaxTick = 0
  MaxFaults = 1
  MaxFlaps = 2
  MaxOverlaps = 0
  MaxHandovers = 0
  FetchAnytime = FALSE
CHECK_DEADLOCK FALSE
 
INVARIANT ReadyMeansLastAttemptApplied
