\* One run, every fault: the row and its locks.
SPECIFICATION Spec
CONSTANTS
  None = None
  Runs = {r1}
  Workers = {w1}
  Retryable = {r1}
  Stages = 1
  Faults <- AllFaults
INVARIANTS
  TypeOK
  OpenWritesAreLegal
  AskedIffCancelled
  LocksAreShort
  EndedIsTerminal
  EndedIsReleased
  
PROPERTIES
  TerminalIsFinal
  ImplementsLifecycle
\* The protocol stops when every run has ended and nobody asks for anything.
CHECK_DEADLOCK FALSE
