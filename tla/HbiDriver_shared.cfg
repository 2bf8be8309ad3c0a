CONSTANTS
  Threads = {t1, t2}
  NoThread = NoThread
  MaxDevs = 1
  MaxInstPerDev = 2
  DeviceIds = {0, 1}
  DriverLock = TRUE
  DevLock = TRUE
  Shared = TRUE
  AutoInit = FALSE
  MaxWord = 15
  MaxInit = 4
  MaxLoads = 1
SPECIFICATION FairSpec
INVARIANTS TypeOK CountsAgree DriverHeld NoOverrun TransferKeepsPort
PROPERTY CallsReturn
CHECK_DEADLOCK FALSE

