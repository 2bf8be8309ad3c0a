CONSTANTS
  Threads = {t1}
  Ops <- Operations
  Images = {0, 1}
  Mismatch = TRUE
  BusFaults = FALSE
  Hangs = FALSE
SPECIFICATION Spec
PROPERTY OngoingCommandSeen
