SPECIFICATION Spec
CONSTANTS
  Procs = {p1, p2}
  Repos <- TwoRepositories
  Scans <- ThreeScans
  At <- EqualTimes
  Analyses <- OwnAnalyses
  Imports <- OwnImports
  DeletesAlone = TRUE
  MayReset = TRUE
  Followed <- Entries
SYMMETRY ProcSymmetry
INVARIANTS ListedIsRecoverable DeletedStaysDeleted RepairIndexes
