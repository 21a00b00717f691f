SPECIFICATION Spec
CONSTANTS
  Member = {m1, m2}
  Captain = captain
  None = none
  ClaudeMembers = {}
  Roster = {m1, m2}
  MaxTasks = 2
  MaxId = 3
  MaxCrashes = 0
  MaxMembers = 2
  MaxTaskAttempts = 2
  Controlled = FALSE
  Tools = {"create_task", "reassign_task", "update_task"}
  Faults = {}
INVARIANT NoOutputFromRevokedAttempt
CHECK_DEADLOCK FALSE
