SPECIFICATION Spec
CONSTANTS
  Path <- MCPath
  Worker = {w1, w2}
  FrameworkApks <- MCFrameworkApks
  Group = {"outer", "inner"}
  Members <- MCMembers
  Kind <- MCKind
  TryVdex = TRUE
  Capacity = 1
  StartDisk <- Starts
  Helper = "fsdump"
  CanCancel = TRUE
  DBErrors = {"res", "vdex"}
INVARIANTS FirstSuccessStops AlternativesTried
PROPERTIES ImplementsWork
CHECK_DEADLOCK FALSE
