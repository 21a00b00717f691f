SPECIFICATION GitSpec
CONSTANTS
  Scope = {s1}
  Repo = {r1}
  RootRepo = r1
  Query = {q1}
  AllHistory = q1
  Nothing = Nothing
  GitFaults = {}
  MaxInputs = 3
  MaxRequests = 2
  MaxVersion = 1
  MaxPages = 2
PROPERTY TargetLossRecovers
CHECK_DEADLOCK FALSE
