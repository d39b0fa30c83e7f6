CONSTANTS
  chat = chat
  other = other
  configure = configure
  Callers = {a, b}
  Message = message
  Partition <- Partitions
  Updaters = {update, configure}
  Upgrade = upgrade
  Shutdown = shutdown
  Tasks = {t}
  Permits = 2
  Slots = {1, 2, 3}
  MaxCalls = 2
  MaxChanges = 2
  MaxStarts = 2
  MaxCreations = 1
SPECIFICATION MCSpec
INVARIANTS ChangesAreIsolated RowsAndWorkersAgree
PROPERTY EveryoneGetsThrough
CHECK_DEADLOCK FALSE
