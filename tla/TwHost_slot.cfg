CONSTANTS
  Threads = {t1}
  Ops <- Operations
  Images = {1}
  Mismatch = TRUE
  BusFaults = FALSE
  Hangs = FALSE
SPECIFICATION Spec
INVARIANT SavedUnderNumber
