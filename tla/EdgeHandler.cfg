CONSTANTS
  Dials = {d1, d2, d3}
  Nil = nil
  Consumer = TRUE
  MaxDrops = 2
  Requests = {r1}
SPECIFICATION FairSpec
INVARIANTS OneController ResponsesReturn
PROPERTIES WorkingKept NextIsTaken ReportersFollow
CHECK_DEADLOCK FALSE
