SPECIFICATION Spec
CONSTANTS
  Workers = {w1, w2}
  MaxRunning = 2
  KeepFinished = 3
  MaxStarts = 4
  MayPanic = TRUE
  Nobody = Nobody
INVARIANTS
  TypeOK
  AtMostMaxRunning
  RunningListed
  TableBounded
  PollableLongEnough
  NoneEscapesShutdown
SYMMETRY WorkerSymmetry
CHECK_DEADLOCK FALSE
