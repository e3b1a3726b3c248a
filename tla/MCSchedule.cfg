\* Two workers and a request, or a worker and two requests, and one fault.
SPECIFICATION Spec
CONSTANTS
  w1 = w1
  w2 = w2
  e1 = e1
  e2 = e2
  Tickers = {w1, w2}
  CronEditors = {e1, e2}
  CronExprs <- HourAndDay
  CronZones = {0, 1}
  Grace = 1
  MaxCatchUp = 2
  MaxScan = 2
  MaxPerTick = 2
  CronHorizon = 4
  CronFaults = 1
SYMMETRY Symmetry
INVARIANTS
  SlotsFireOnce
  NextIsOfTheCron
\* The clock stops at its bound.
CHECK_DEADLOCK FALSE
