SPECIFICATION Spec
CONSTANTS
  Procs = {p1, p2}
  Repos <- OneRepository
  Scans <- ThreeScans
  At <- EqualTimes
  Analyses <- OwnAnalyses
  Imports <- OwnImports
  DeletesAlone = FALSE
  MayReset = FALSE
  Followed <- Entries
INVARIANT KeptIsRecoverable
