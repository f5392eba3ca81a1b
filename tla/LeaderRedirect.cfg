SPECIFICATION FairLeader
CONSTANTS
  Replica = {"a", "b", "c"}
  Setting = "a"
  None = "none"
  MaxFaults = 2
INVARIANT OnlyLeaderServes
PROPERTY FindsLeader
