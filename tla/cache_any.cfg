SPECIFICATION Spec
CONSTANTS
  Procs = {p1, p2}
  Keys <- TwoKeys
  Size <- SecondLarge
  Limit = 2
  MaxTime = 1
  MayFail = TRUE
SYMMETRY ProcSymmetry
INVARIANTS TypeOK OverLimitIsOwed
PROPERTIES EvictsOldestFirst KeepsWhatItUsed EvictsJustEnough
