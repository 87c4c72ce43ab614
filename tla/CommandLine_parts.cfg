SPECIFICATION Spec
CONSTANTS
  Parts = {"repository", "saving", "secrets", "contexts", "prompts", "applying"}
  WalkOrder <- WalkedResources
  Docs = {"v"}
  Exts = {"json", "yaml"}
  NoDoc = NoDoc
  Stores <- KindsOfStore
  Recursions = {FALSE}
  EditsAnytime = FALSE
  MaxLog = 2
  MaxTrouble = 1
  MaxEdits = 1
  Processes = {"p1"}
  Items = {"a", "b"}
  Attrs = {"pin", "token"}
  Looks = {"token"}
  Plains = {"x"}
  StoreKinds = {"file"}
  RequestSets <- NamedAttributes
  MaxSaves = 2
  MaxBreaks = 1
  Provider = "kv1"
  Spelling <- SpelledKeys
  Payloads <- GivenPayloads
  Paths <- GivenPaths
  KeyTexts <- GivenKeys
  Arguments <- GivenArguments
  Values = {"v3"}
  Contents <- SavedContents
  MaxEntries = 2
  ProxyURLs = {"p", "q"}
  Names = {"a", "b", "x"}
  Drafts <- WrittenDrafts
  Currents = {}
  Imports <- ImportedCatalogs
  Shells <- UserShells
  MaxCommands = 3
  TrialBlocks <- ProxyBlocks
  FlagForms = {"--context v", "--context=v", "-c v"}
  MaxFlags = 1
  Commands = {"p1", "p2"}
  Tasks = {"t1"}
  Credentials = {"a-b", "a_b", "c"}
  Prompted <- AskedFields
  Persistent = {"a-b", "a_b"}
  Segment <- Sanitized
  Exported <- NothingExported
  Together = FALSE
  MaxShells = 2
  MaxCleans = 1
  MaxResolves = 2
  Aliases = {"a", "b"}
  Serials <- TwoSerials
  Bodies = {"v", "w"}
  None = None
  Services <- DeclaredServices
  MaxFaults = 2
  MaxOthers = 1
INVARIANTS TypeOK    
PROPERTIES RepositoryKept   
CHECK_DEADLOCK FALSE
