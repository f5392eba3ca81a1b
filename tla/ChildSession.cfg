SPECIFICATION FairSessions
CONSTANTS
  MaxSessions = 2
  MaxTime = 2
INVARIANTS SingleReader NoGhostChild OnlyClosesForget
PROPERTIES StatusMovesForward Forgotten
CHECK_DEADLOCK FALSE
