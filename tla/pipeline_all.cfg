INIT MachinesInit
NEXT MachinesNext
CONSTANTS
  Configs <- UpToOneOff
  MaxExtensions = 2
  Walkers = {1, 2}
  Paths = {1, 2, 3, 4}
  MaxFiles = 2
  Tab <- TwoTabs
  Ids = {"a", "b", "c"}
  Limit = 1
  MaxOpens = 3
  MaxJobs = 2
  MaxMounts = 2
  Of <- ThreeScans
  Slots = {1, 2}
  MaxCalls = 4
INVARIANTS
  TypeOK EveryStageOnce NothingCutShort CancelHonoured SkipsAreTold
  WalksAreWhole RecentIsKept
CHECK_DEADLOCK FALSE
