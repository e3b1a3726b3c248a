\* A live worker's run is reclaimed before its first heartbeat.
SPECIFICATION Spec
CONSTANTS
  None = None
  Runs = {r1}
  Workers = {w1}
  Retryable = {}
  Stages = 1
  Faults <- NoFaults
INVARIANTS
  OnlyLostWorkersAreReclaimed
\* The protocol stops when every run has ended and nobody asks for anything.
CHECK_DEADLOCK FALSE
