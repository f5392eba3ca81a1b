SPECIFICATION FairAsked
CONSTANTS
  w1 = w1
  w2 = w2
  Watchers = {w1, w2}
  Modes <- MCModes
  MaxLost = 1
  Seconds = {t1, t2}
  Objects <- MCObjects
  Queries <- MCQueries
  MaxVersion = 2
INVARIANTS TypeOK NothingMissed
PROPERTIES OnlyClientsBlock
CHECK_DEADLOCK FALSE
