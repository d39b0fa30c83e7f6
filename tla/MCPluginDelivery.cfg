CONSTANTS
  e1 = e1
  e2 = e2
  loop = loop
  w1 = w1
  w2 = w2
  c1 = c1
  c2 = c2
  k1 = k1
  NoKey = NoKey
  Events = {e1, e2}
  Schedules = {e1, e2}
  Workers = {loop, w1, w2}
  Loop = loop
  Commands = {c1, c2}
  Key <- MCKey
  Outputs <- MCOutputs
  Statuses = {"succeeded"}
  ReportsResults = TRUE
  MaxAttempts = 2
  CircuitFailures = 2
  MaxChain = 1
  MaxInvocations = 3
  MaxDispatches = 2
  MaxCrashes = 1
  MaxDrops = 1
  MaxLosses = 1
  MaxReopenings = 1
SPECIFICATION Spec
SYMMETRY Symmetry
INVARIANTS
  LedgerIsExact
PROPERTIES
  KeepsPromise
  NewerSuccessResets
  RecoveryLeavesNothingOpen
CHECK_DEADLOCK FALSE
