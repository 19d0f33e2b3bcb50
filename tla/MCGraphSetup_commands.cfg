SPECIFICATION PersistentSpec
CONSTANTS
  Framework = "framework"
  Apk = {"app1", "app2"}
  Denylists <- AnyDenylist
  CanForce = TRUE
  CanWipe = TRUE
  Removable = {"framework", "app1"}
  CutKinds = {"Calls"}
  Cancellable = {"analysis", "import"}
  MaxCancels = 1
  MaxFaults = 1
INVARIANTS OneCopy StatusMeansRows
PROPERTIES DoneMeansAll RequirementsFirst Restarts
