SPECIFICATION Spec
CONSTANTS
  m1 = m1
  m2 = m2
  l1 = l1
  l2 = l2
  Member = {m1, m2}
  Claude = {m2}
  Captain = captain
  None = None
  Route <- MCRoute
  Viewer = {captain, m1}
  Listener = {l1}
  InboxWindow = 1
  MaxMessages = 2
  MaxBreaks = 1
  Faults = {"captain_offline", "followup_rejected", "steer_error", "cli_error", "io_error", "restart"}
INVARIANT ReadWasSeen
INVARIANT DeliveredOnce
PROPERTY NoMailLost
CHECK_DEADLOCK FALSE
