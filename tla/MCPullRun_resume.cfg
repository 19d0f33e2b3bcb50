SPECIFICATION Spec
CONSTANTS
  FrameworkFile = {"jar", "vdex", "dex", "res"}
  Apk = {"res", "app"}
  Before <- MCBefore
  Unwanted = {"vdex"}
  DBErrors = {"jar", "app"}
  Retry = TRUE
  Helper = "adb"
  CanCancel = TRUE
  CanCrash = TRUE
  CanError = TRUE
INVARIANTS FrameworksFirst
PROPERTIES NoRework RecordedMeansAttempted
