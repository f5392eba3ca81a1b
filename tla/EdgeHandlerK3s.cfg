CONSTANTS
  Dials = {d1, d2}
  Nil = nil
  Consumer = FALSE
  MaxDrops = 2
  Requests = {r1}
SPECIFICATION FairSpec
PROPERTY NextIsTaken
CHECK_DEADLOCK FALSE
