SPECIFICATION WorkspaceSpec
CONSTANTS
  Parts = {"trellis", "terminals", "layout", "git"}
  Caller = {k1, k2}
  TaskSession = {a1, a2}
  Slug = {x1, x2}
  NoTask = noTask
  NoFile = noFile
  MaxCalls = 4
  t1 = t1
  t2 = t2
  c1 = c1
  c2 = c2
  Tab = {t1, t2}
  Conversation = {c1, c2}
  tabOf <- MCTabOf
  Targeted = {t2}
  Free = {}
  NoTab = noTab
  Limit = 1
  MaxSockets = 2
  MaxShells = 2
  File = {p1}
  Diff = {d1}
  Agent = {g1}
  MaxId = 8
  MaxTabs = 4
  MaxPanes = 3
  MaxEdits = 4
  Scope = {c1, c2}
  Repo = {r1, r2}
  RootRepo = r1
  Query = {q1, q2}
  AllHistory = q1
  Nothing = Nothing
  GitFaults = {"git_error"}
  MaxInputs = 3
  MaxRequests = 2
  MaxVersion = 1
  MaxPages = 2
INVARIANT WorkspaceConsistent
INVARIANT NoForgottenShell
INVARIANT ViewIsOneCheckout
PROPERTY NothingWaitsAlone
PROPERTY StatusNeverOlder
PROPERTY OpenedFileIsShown
PROPERTY TaskSurvives
PROPERTY BoardShowsAll
PROPERTY AttachedShellKept
PROPERTY NoTabIsLost
PROPERTY ReloadRestores
PROPERTY TabsFollowTerminals
SYMMETRY MCSymmetry
CHECK_DEADLOCK FALSE
