SPECIFICATION PersistentSpec
CONSTANTS
  None = None
  References <- MCReferences
  Malformed = {}
  NoFile = {}
  Entries <- MCEntries
  Apks = {"a1", "a2"}
  NoManifest = {"a2"}
  Elements <- MCElements
  Services = {"s1", "s2"}
  StubIn <- MCStubIn
  IfaceIn <- MCIfaceIn
  Impls <- MCImpls
  Emulator = "emulator"
  Others = {}
  Aosp = "aosp"
  Versions = {"v1"}
  Content <- MCContent
  Empty = "empty"
  Ops = {"setup", "wipe", "emulator", "addsource", "removesource", "addapk", "addimpl"}
  MaxFaults = 2
INVARIANTS ApkWhole SetupOkMeansAll DiffOkMeansTrue
PROPERTIES SetupCompletes
