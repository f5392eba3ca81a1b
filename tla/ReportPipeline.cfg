SPECIFICATION FairSpec
CONSTANTS
  Names = {a, b}
  Leftover = {b}
  Replicas = {r, s}
  Tries = 2
  MaxVersion = 3
  MaxConnects = 2
  MaxLost = 1
  MaxEvents = 4
  MaxPending = 1
  MaxFlight = 2
INVARIANT SettledAgrees
PROPERTIES VersionForward RestartHeals
CHECK_DEADLOCK FALSE
