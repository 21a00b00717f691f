SPECIFICATION FairSpec
CONSTANTS
  Member = {m1, m2}
  Captain = captain
  None = none
  ClaudeMembers = {}
  Roster = {m1}
  MaxTasks = 2
  MaxId = 4
  MaxCrashes = 0
  MaxMembers = 2
  MaxTaskAttempts = 2
  Controlled = FALSE
  Tools = {"add_member", "create_task", "update_task"}
  Faults = {}
PROPERTY ReadyTaskSettles
CHECK_DEADLOCK FALSE
