\* A schedule in a time zone is fired late.
SPECIFICATION Spec
CONSTANTS
  w1 = w1
  w2 = w2
  e1 = e1
  e2 = e2
  Tickers = {w1, w2}
  CronEditors = {e1, e2}
  CronExprs <- DayOnly
  CronZones = {1}
  Grace = 0
  MaxCatchUp = 2
  MaxScan = 3
  MaxPerTick = 2
  CronHorizon = 5
  CronFaults = 1
INVARIANTS
  FiredInstantsAreScheduled
\* The clock stops at its bound.
CHECK_DEADLOCK FALSE
