SPECIFICATION FairSpec
CONSTANTS
  Objects = {"p1", "p2", "s1", "b1", "t1", "g1", "r1", "w1"}
  Kind <- AllKinds
  Paths <- Scopes
  Claims = {"widget"}
  NoClaim = "none"
  SpecsOf <- UserSpecs
  MaxRequests = 3
  MaxFaults = 1
INVARIANTS TypeOK ScopesExclusive 
PROPERTY EventuallyReady
CHECK_DEADLOCK FALSE
