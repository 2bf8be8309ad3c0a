CONSTANTS
  Threads = {t1, t2}
  Ops <- BootOps
  Images = {1, 2}
  Mismatch = TRUE
  BusFaults = FALSE
  Hangs = FALSE
SPECIFICATION Spec
INVARIANT SuccessMeansDone
