\* Two stages, crashing workers: what a cancel and "done" mean, and runs end.
SPECIFICATION FairSpec
CONSTANTS
  None = None
  Runs = {r1}
  Workers = {w1}
  Retryable = {}
  Stages = 2
  Faults <- LiveFaults
INVARIANTS
  CancelStopsStages
  DoneRanEveryStage
  DetectedCancelIsRecorded
PROPERTIES
  InFlightEnds
  LocksAreReleased
\* The protocol stops when every run has ended and nobody asks for anything.
CHECK_DEADLOCK FALSE
