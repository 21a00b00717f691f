SPECIFICATION FairSpec
CONSTANTS
  m1 = m1
  m2 = m2
  l1 = l1
  l2 = l2
  Member = {m1, m2}
  Claude = {m2}
  Captain = captain
  None = None
  Route <- MCRoute
  Viewer = {captain}
  Listener = {l1}
  InboxWindow = 1
  MaxMessages = 2
  MaxBreaks = 0
  Faults = {"followup_rejected", "steer_error", "cli_error"}
PROPERTY MailArrives
CHECK_DEADLOCK FALSE
