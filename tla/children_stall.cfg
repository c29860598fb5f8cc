\* A plugin exits and leaves a process that keeps its pipes.
SPECIFICATION Spec
CONSTANTS
  Styles = {"plugin"}
  Input = 1
  Output = 1
  Room = 1
  MaxKept = 1
  MaxSteps = 1
  Descendants = TRUE
PROPERTIES LimitAlwaysEndsRun
\* A run is over.
CHECK_DEADLOCK FALSE
