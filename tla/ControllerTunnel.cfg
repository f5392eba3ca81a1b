SPECIFICATION FairSpec
CONSTANTS
  MaxMsgs = 4
  BufferSize = 2
  MaxBreaks = 2
  MaxStuck = 1
INVARIANTS TypeOK NoLostWakeup
PROPERTIES KeepsOrder ReconnectResumes
CHECK_DEADLOCK FALSE
