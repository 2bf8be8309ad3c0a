CONSTANTS
  Threads = {t1}
  Ops <- Operations
  Images = {0, 1, 2}
  Mismatch = TRUE
  BusFaults = TRUE
  Hangs = TRUE
SPECIFICATION FairSpec
INVARIANTS TypeOK SuccessMeansDone UploadInBootMode
PROPERTIES NoticeRespected CallsReturn
