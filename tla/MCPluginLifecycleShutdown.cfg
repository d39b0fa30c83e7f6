CONSTANTS
  chat = chat
  other = other
  configure = configure
  Callers = {a, b}
  Message = message
  Partition <- Partitions
  Updaters = {update}
  Upgrade = upgrade
  Shutdown = shutdown
  Tasks = {t}
  Permits = 2
  Slots = {1, 2, 3}
  MaxCalls = 2
  MaxChanges = 1
  MaxStarts = 2
  MaxCreations = 1
SPECIFICATION Spec
INVARIANT ShutdownStopsSchedules
CHECK_DEADLOCK FALSE
