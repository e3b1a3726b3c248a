\* A rule with two webhooks, the first of which fails.
SPECIFICATION Spec
CONSTANTS
  w1 = w1
  w2 = w2
  p1 = p1
  p2 = p2
  t1 = t1
  Lines = 4
  MaxLen = 3
  Page = 2
  StreamFaults = 2
  Cases = {w1, w2}
  Rules <- AllFields
  MinRuns = 3
  Histories <- Passes
  Packages = {p1, p2}
  TestNames = {t1}
  MaxReport = 3
  MaxStages = 2
  ShownLimit = 1
  MaxUploads = 1
  Clients = {w1, w2}
  MaxRows = 3
INVARIANTS
  FailureStopsNoOther
\* The stages stop at their bound, and a log is written once.
CHECK_DEADLOCK FALSE
