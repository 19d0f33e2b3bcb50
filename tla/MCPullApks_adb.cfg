SPECIFICATION Spec
CONSTANTS
  a1 = a1
  a2 = a2
  Path = {a1, a2}
  Worker = {w1, w2}
  Capacity = 1
  Listing <- TwoListings
  StartDisk <- Starts
  Helper = "adb"
  CanCancel = TRUE
  DBErrors = TRUE
INVARIANTS OneWorkerPerPath DecompiledIsReal
PROPERTIES StaysDecompiled Terminates ImplementsWork
CHECK_DEADLOCK FALSE
