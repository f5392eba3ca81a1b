SPECIFICATION FairEstablished
CONSTANTS
  Node = {"root", "a", "b", "c", "x"}
  Root = "root"
  None = "none"
  Level <- BranchLevel
  Movers = {"c"}
  MaxMoves = 1
  MaxReports <- BranchReports
  Containing <- LeafContains
  Selectors <- SomeSelectors
  MaxTime = 2
  MaxResponses = 3
INVARIANTS RoutesDescend DispatchReaches DispatchSelected AnswersMerged
PROPERTY RoutesConverge
