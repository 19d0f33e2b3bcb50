SPECIFICATION Spec
CONSTANTS
  Ids = {"d.tu", "my.app"}
  DefaultId = "d.tu"
  Permissions = {"INTERNET", "VIBRATE"}
  SystemServices <- MCServices
  Authorities = {"sms"}
  TestRequests <- MCRequests
  Digits = {"0", "1", "2"}
  MaxCommands = 4
  MaxFaults = 2
INVARIANTS TestsHaveFiles BuiltAsRecorded
PROPERTIES WorkKept
CHECK_DEADLOCK FALSE
