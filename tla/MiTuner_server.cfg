SPECIFICATION Spec
CONSTANTS
  Polite = Polite
  Piper = Piper
  Clients = {Polite, Piper}
  Eager = {Piper}
  Scripts <- MCScripts
  HEADER_SZ = 2
  BUFFER_SZ = 4
  Backlog = 2
  Jobs <- MCJobs
  Devices <- MCDevices
  BlockWords = 2
  MaxSlots = 2
  Image = Image
  OldImage = OldImage
  NoFile = NoFile
  None = None
  Partial = Partial
INVARIANTS
  TypeOK
  AnswersInOrder
  LoadsWhatWasSent
  DoneAsAsked
PROPERTIES
  Served
  ImplementsSessions
CHECK_DEADLOCK FALSE
