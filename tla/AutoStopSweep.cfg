SPECIFICATION Spec
CONSTANTS
  Orders <- OrderSet
  Cards <- CardSet
  PageSize = 1
  Limit = 1
  Pack = 1
  MaxPacks = 2
  MaxTime = 2
  Flaky <- FlakySet
  Leavers <- LeaverSet
INVARIANTS
  CardCutoffIsPurchase
  SweepKeepsSource
PROPERTIES
  OverdueIsStopped
CHECK_DEADLOCK FALSE
