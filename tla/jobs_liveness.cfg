SPECIFICATION FairSpec
CONSTANTS
  Workers = {w1, w2}
  MaxRunning = 2
  KeepFinished = 2
  MaxStarts = 3
  MayPanic = FALSE
  Nobody = Nobody
PROPERTIES
  CancelEndsJob
  ShutdownQuiesces
CHECK_DEADLOCK FALSE
