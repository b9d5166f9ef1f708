SPECIFICATION Spec
CONSTANTS
  Minute = 2
  DayMinutes = 3
  HourMinutes = 3
  KWh = 2
  Precision = 100
  Slack = 0
  MaxRate = 9
  MaxMinutes = 4
  MaxFree = 1
  MinLimit = 1
  MaxKWh = 2
  Schemes <- AllSchemes
  Starts <- StartSet
  Powers <- PowerSet
  MaxTicks = 5
  MaxBeats = 2
  Fresh = 1
  LongGap = 3
INVARIANTS
  BudgetStopCertain
  SettlesWithinPaid
  BillIsBracketed
  EveryMinuteCharged
  PreviewAgrees
CHECK_DEADLOCK FALSE
