CONSTANTS
  None = None
  p1 = p1
  p2 = p2
  Procs = {p1, p2}
  Files = {p1, p2}
  Main = p1
  NumDevs = 2
  MaxUsers = 2
  MaxFails = 1
  CodecDev = 0
  Owner <- MCOwner
  Uses <- MCUses
  May <- MCMay
  Blocks = {"a", "b", "long"}
  TooLong = {"long"}
  ImageNums <- MCImageNums
  MaxInits <- MCMaxInits
SPECIFICATION Spec
CONSTRAINT MCReload
INVARIANTS TypeOK NothingLeaks HandlesCounted FileReachesDevice UnloadReleases  CommandAsAsked UsersServed
CHECK_DEADLOCK FALSE
