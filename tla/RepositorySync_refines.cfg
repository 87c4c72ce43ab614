SPECIFICATION SystemSpec
CONSTANTS
  Resources = {"a"}
  Values = {"x", "y"}
  Absent = "absent"
  Revisions = {1}
  Content <- MCContent
  Specs <- WholeSpec
  Dependencies = {"repository", "service"}
  MaxGen = 0
  MaxSecret = 0
  MaxTick = 0
  MaxFaults = 1
  MaxFlaps = 0
  MaxOverlaps = 0
  MaxHandovers = 0
  FetchAnytime = TRUE
  Urls = {"u1"}
  Branches = {"main"}
  RepoSpecs <- MainOrInvalid
  MaxRepoGen = 2
  MaxPushes = 1
  MaxGitFaults = 1
  ForcePush = TRUE
CHECK_DEADLOCK FALSE
PROPERTY ImplementsSyncPolicy
