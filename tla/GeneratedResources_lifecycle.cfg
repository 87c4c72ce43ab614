SPECIFICATION FairSpec
CONSTANTS
  CRs = {"c1"}
  Collections = {"k1", "k2"}
  Invalid = "invalid"
  Payloads = {"x", "y"}
  Absent = "absent"
  NoPath <- Nowhere
  Specs <- ThreeSpecs
  Versions = {"v1"}
  Workers = {"w1", "w2"}
  MaxEdits = 2
  MaxFaults = 1
  MaxAdmin = 2
INVARIANTS TypeOK ReadyIsApplied NothingLeftBehind
PROPERTY EventuallyApplied
CHECK_DEADLOCK FALSE
