CONSTANTS
  MaxPending = 2
  MaxSessions = 2
  MaxSeq = 3
  MaxDeliveries = 2
SPECIFICATION Spec
INVARIANT FailedEventsCanBeRetried
CHECK_DEADLOCK FALSE
