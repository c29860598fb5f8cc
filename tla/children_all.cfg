\* Every way of running a program, with more data than the pipes hold.
SPECIFICATION Spec
CONSTANTS
  Styles <- AllStyles
  Input = 2
  Output = 2
  Room = 1
  MaxKept = 1
  MaxSteps = 2
  Descendants = TRUE
INVARIANTS TypeOK VerdictIsTrue OkIsWhole
PROPERTIES LimitEndsRun WillingEnds
\* A run is over.
CHECK_DEADLOCK FALSE
