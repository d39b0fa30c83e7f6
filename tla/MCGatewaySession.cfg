CONSTANTS
  MaxPending = 2
  MaxSessions = 2
  MaxSeq = 4
  MaxDeliveries = 3
SPECIFICATION FairSpec
INVARIANT SessionIsExact
PROPERTY EventsAreHandled
CHECK_DEADLOCK FALSE
