SPECIFICATION PullUiSpec
CONSTANTS
  f = f
  j = j
  w1 = w1
  w2 = w2
  FrameworkApks = {f}
  FrameworkFiles = {j}
  Apks = {}
  Workers = {w1, w2}
  Bound = 1
  MaxKeys = 2
INVARIANTS InProgressLast OutcomeShown
PROPERTIES EveryoneEnds
