SPECIFICATION Spec
CONSTANTS
  Items <- MCItems
  Chars = {"a", "["}
  BadRegex = {"["}
  MaxSearch = 1
  MaxToggles = 1
  MaxSessions = 2
INVARIANTS SelectedIsHighlighted HiddenOwnersGone HiddenKept
