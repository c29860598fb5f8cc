SPECIFICATION Spec
CONSTANTS
  Procs = {p1}
  Repos <- OneRepository
  Scans <- ThreeScans
  At <- EqualTimes
  Analyses <- OwnAnalyses
  Imports <- OwnImports
  DeletesAlone = TRUE
  MayReset = TRUE
  Followed <- Entries
INVARIANT KeptIsRecoverable
