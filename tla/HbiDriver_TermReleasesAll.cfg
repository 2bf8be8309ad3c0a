CONSTANTS
  Threads = {t1}
  NoThread = NoThread
  MaxDevs = 2
  MaxInstPerDev = 2
  DeviceIds = {0, 1, 2}
  DriverLock = TRUE
  DevLock = FALSE
  Shared = FALSE
  AutoInit = FALSE
  MaxWord = 15
  MaxInit = 3
  MaxLoads = 1
SPECIFICATION Spec
INVARIANT TermReleasesAll
