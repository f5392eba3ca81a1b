SPECIFICATION FairReporter
CONSTANTS
  MaxLosses = 5
  QueueCap = 2
INVARIANT NoTimerLeak
PROPERTIES DisconnectReturns Reported
