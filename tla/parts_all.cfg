INIT PartsInit
NEXT PartsNext
CONSTANTS
  MaxStarted = 2
  MaxRequests = 3
  MaxErrors = 1
INVARIANTS
  NoRequestIsForgotten ShownIsWanted ArchitectureIsFound RecordsAreMerged
  DuplicatesAreFound CoreIsExact HistoryIsTold LimitsAreKept
CHECK_DEADLOCK FALSE
