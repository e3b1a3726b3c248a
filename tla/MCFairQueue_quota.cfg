\* Four runs of three projects, two of them enqueued early, compete for two slots.
SPECIFICATION Spec
CONSTANTS
  a1 = a1
  a2 = a2
  b1 = b1
  c1 = c1
  Runs = {a1, a2, b1, c1}
  Project <- Projects
  Rank <- AnyOrder
  Early = {b1, c1}
  MaxTotal = 2
  MaxPerProject = 1
  Limit = 10
  Faults <- QueueFaults
SYMMETRY Symmetry
INVARIANTS
  TypeOK
  QuotaHeld
  SlotsAreUsed
\* The queue is idle when every run has ended.
CHECK_DEADLOCK FALSE
