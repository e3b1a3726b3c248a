\* Three runs, two of one project: every run gets a slot.
SPECIFICATION FairSpec
CONSTANTS
  a1 = a1
  a2 = a2
  b1 = b1
  c1 = c1
  Runs = {a1, a2, b1}
  Project <- Projects
  Rank <- InOrder
  Early = {}
  MaxTotal = 2
  MaxPerProject = 1
  Limit = 10
  Faults <- NoFaults
PROPERTIES
  RunsLeaveTheQueue
\* The queue is idle when every run has ended.
CHECK_DEADLOCK FALSE
