SPECIFICATION ServicesSpec
CONSTANTS
  Parts = {"catalog", "session", "watch", "terminals"}
  r1 = r1
  r2 = r2
  c1 = c1
  f1 = f1
  k1 = k1
  k2 = k2
  None = None
  Op = {r1, r2, c1, f1}
  Writer = {r1, r2}
  Key = {k1, k2}
  KeyOf <- MCKeyOf
  Refresh = {r1, r2}
  Save = {}
  Consumer = {c1}
  RefreshOf <- MCRefreshOf
  CatalogOf <- MCCatalogOf
  Root = {c1}
  MaxVersion = 1
  MaxCrashes = 1
  Faults = {"load_error"}
  Command = {k1, k2}
  NoCommand = noCommand
  SessionCalls = {"start", "delete", "template"}
  SessionFaults = {"open_error", "tool_error", "emit_error", "cancel", "slow"}
  MaxEvents = 1
  MaxPieces = 1
  MaxTeams = 1
  Resource = {r1}
  MaxAt = 1
  MaxGrants = 1
  MaxChanges = 1
  MaxLists = 1
  t1 = t1
  Tab = {t1}
  Conversation = {c1, k1}
  tabOf <- MCTabOf
  Targeted = {}
  Free = {}
  NoTab = noTab
  Limit = 1
  MaxSockets = 3
  MaxShells = 1
PROPERTY EveryoneIsAnswered
PROPERTY AskSettles
PROPERTY AuthorizationConverges
PROPERTY ClosedTabReleases
CHECK_DEADLOCK FALSE
