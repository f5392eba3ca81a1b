SPECIFICATION FairRecovery
CONSTANTS
  Node = {"root", "a", "b", "c"}
  Root = "root"
  None = "none"
  ConfParent <- TwoLevelConf
  Level <- TwoLevelLevel
  MaxFaults = 1
INVARIANTS LevelsKept NoCycle
PROPERTY Reconnects
CHECK_DEADLOCK FALSE
