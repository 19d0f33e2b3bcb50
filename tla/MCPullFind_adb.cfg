SPECIFICATION Spec
CONSTANTS
  Dir <- MCDir
  File <- MCFile
  Kind <- MCKind
  Name <- MCName
  DirListing <- MCDirListing
  FilesIn <- MCFilesIn
  Wanted <- MCWanted
  DirCapacity = 1
  FileCapacity = 1
  CanCancel = TRUE
  Helper = "adb"
INVARIANTS OkMeansAllFound GroupsSorted
PROPERTIES Terminates
CHECK_DEADLOCK FALSE
