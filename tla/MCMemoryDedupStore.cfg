CONSTANTS
  Keys = {k1, k2, k3, big}
  Oversized = {big}
  Callers = {a, b, c}
  NoKey = none
  Capacity = 2
  MaxTokens = 3
SPECIFICATION FairSpec
INVARIANTS AccountingExact NoLostWakeup
PROPERTIES OnlyHolderFinalizes PinnedSurvives ImplementsContract ClaimsReturn
