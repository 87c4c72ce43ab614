SPECIFICATION FairSystemSpec
CONSTANTS
  Resources = {"a"}
  Values = {"x", "y"}
  Absent = "absent"
  Revisions = {1, 2}
  Content <- MCContent
  Specs <- WholeSpec
  Dependencies = {"repository", "service"}
  MaxGen = 0
  MaxSecret = 0
  MaxTick = 0
  MaxFaults = 1
  MaxFlaps = 0
  MaxOverlaps = 0
  MaxHandovers = 0
  FetchAnytime = TRUE
  Urls = {"u1"}
  Branches = {"main"}
  RepoSpecs <- Main
  MaxRepoGen = 1
  MaxPushes = 2
  MaxGitFaults = 0
  ForcePush = TRUE
CHECK_DEADLOCK FALSE
PROPERTY HeadIsApplied
