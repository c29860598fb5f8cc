SPECIFICATION Spec
CONSTANTS
  Procs = {p1, p2}
  Repos <- TwoRepositories
  Scans <- TwoScans
  At <- Falling
  Analyses <- SharedAnalyses
  Imports <- OwnImports
  DeletesAlone = FALSE
  MayReset = TRUE
  Followed = {}
SYMMETRY ProcSymmetry
INVARIANTS TypeOK DateRangeExact NoEmptyRepository
PROPERTY ImplementsCatalogue
