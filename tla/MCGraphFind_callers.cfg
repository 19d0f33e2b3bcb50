SPECIFICATION FindSpec
CONSTANTS
  Framework = "framework"
  Apk = {"a", "b"}
  Smali <- MCSmali
  Object = "Object"
  Libraries = {"Compat"}
  Pattern <- MCPattern
  Text <- MCText
  Stem <- MCStem
  Components <- MCComponents
  Searches <- MCSearches
  Depths = {1, 2}
  Filters <- MCFilters
  Options <- MCOptions
  MaxCommands = 2
  MaxRemovals = 1
INVARIANTS CallersAsAsked
CHECK_DEADLOCK FALSE
