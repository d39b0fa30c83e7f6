CONSTANTS
  event = event
  Events = {event}
  Deliveries = {first, again}
  EventOf <- Deliver
  NoDelivery = none
  RecoverySlots = 1
  Faults = {"timeout", "permanent", "acknowledge"}
SPECIFICATION FairSpec
INVARIANTS ClaimsAreAccounted HandledThenAcknowledged
PROPERTIES NeverReleasedOnceHandled ClaimsSettle
CHECK_DEADLOCK FALSE
