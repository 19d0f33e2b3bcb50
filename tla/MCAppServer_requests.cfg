SPECIFICATION ServerSpec
CONSTANTS
  r1 = r1
  r2 = r2
  r3 = r3
  s1 = s1
  s2 = s2
  Requests = {r1, r2, r3}
  Services = {s1, s2}
  Binderless = {s2}
  Raw = {r2}
  Endless = {r3}
  Foreign = {"eacute"}
  Payloads <- MCPayloads
  Mixes <- MCMixes
  PoolSize = 2
  MaxKills = 1
INVARIANTS ShellOutputOwn ResultsAreTrue ArgsArrive
PROPERTIES ClientsEnd
