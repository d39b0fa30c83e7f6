CONSTANTS
  send = send
  recall = recall
  NoAction = none
  Actions = {send, recall}
  LocalCapacity = 2
  MaxPendingActions = 1
  MaxEvents = 4
SPECIFICATION FairSpec
INVARIANTS TrafficIsExact BackpressureIsSound
PROPERTY TrafficMoves
CHECK_DEADLOCK FALSE
