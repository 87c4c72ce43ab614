SPECIFICATION Spec
CONSTANTS
  Parts = {"client", "request", "metadata", "bundles", "probes"}
  Callers = {"c1", "c2"}
  Clients = {"k1"}
  ClientOf <- ClientOfCallers
  Configs <- Limits
  AuthMode = "oauth2"
  OpenAPISource = "sameOrigin"
  Lifetimes = {2}
  DefaultLife = 3
  AuthMargin = 1
  MaxCalls = 2
  MaxTime = 1
  MaxFaults = 1
  Methods = {"get", "post", "put", "patch", "delete"}
  RequestPath <- SmallPath
  PathDocuments <- FewPaths
  ListItems = {0, 1, 2, 3}
  Attributes = {"name", "id"}
  Documents <- SmallDocuments
  SchemaValues <- SmallValues
  MaxSchemaDepth = 4
  Swaggers <- OwnResponses
  Rank <- SmallRank
  Patterns <- SmallPatterns
  Sites <- SmallSites
  Targets <- SmallTargets
  LocalResources <- SmallResources
  Contents <- SmallContents
  SharedStart <- SmallShared
  Writable = "local"
  EditsInvalid = FALSE
  Kills = 1
  MaxCommands = 2
  Refs <- AllForms
  Archives <- FewArchives
  FirstOffers <- FewOffers
  Layers <- BundleLayer
  Workers = {"w1", "w2"}
  ProcessOf <- OneProcess
  MaxResolves = 3
  MaxPublishes = 1
  MaxKills = 1
  MaxEntries = 3
  MaxBytes = 3
  MaxFile = 2
  Items <- TwoItems
  RawPathWorks = TRUE
  AliasAttributes = {"alias"}
  LosesAnswers = TRUE
  MaxProbeFaults = 2
  ReadAttempts = 8
  ReadMinAttempts = 4
INVARIANTS TypeOK ClientShared   BundlesSafe ProbesSafe
PROPERTY MetadataSaved
CHECK_DEADLOCK FALSE
