SPECIFICATION Spec
CONSTANTS
  Hooks = {"h1"}
  Legacy = "legacy"
  Ids = {"i1", "i2", "i3", "i4"}
  NoId = "none"
  Events <- AllKinds
  Requests = {"q1", "q2"}
  Capacity = 2
  MaxSends = 3
  MaxFaults = 1
  MaxExpiries = 1
  MaxEdits = 1
INVARIANTS TypeOK CacheBounded OnlyAuthenticEvents AcceptedIsRecorded
CHECK_DEADLOCK FALSE
