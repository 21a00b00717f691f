SPECIFICATION SteadySpec
CONSTANTS
  r1 = r1
  r2 = r2
  s1 = s1
  c1 = c1
  c2 = c2
  f1 = f1
  k1 = k1
  k2 = k2
  None = None
  Op = {r1, r2, s1, c1, c2, f1}
  Writer = {r1, r2, s1}
  Key = {k1, k2}
  KeyOf <- MCKeyOf
  Refresh = {r1, r2}
  Save = {s1}
  Consumer = {c1, c2}
  RefreshOf <- MCRefreshOf
  CatalogOf <- MCCatalogOf
  Root = {}
  MaxVersion = 2
  MaxCrashes = 0
  Faults = {"load_error", "stage_error", "rename_error"}
INVARIANT OneGenerationPerConsumer
INVARIANT InstantiationIsFresh
INVARIANT SavedTemplatesKept
PROPERTY NoOvertaking
PROPERTY KeepsCatalog
CHECK_DEADLOCK FALSE
