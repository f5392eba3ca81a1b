SPECIFICATION FairFollowed
CONSTANTS
  MaxVersion = 2
  MaxWrites = 1
  MaxNotes = 1
  MaxFaults = 2
  MaxEvents = 5
INVARIANTS InformersStopped OfflineWritesKept NothingStale
PROPERTIES Follows
CHECK_DEADLOCK FALSE
