CONSTANTS
  send = send
  recall = recall
  NoAction = none
  Actions = {send, recall}
  LocalCapacity = 1
  MaxPendingActions = 1
  MaxEvents = 4
SPECIFICATION Spec
INVARIANT EventsInOrder
CHECK_DEADLOCK FALSE
