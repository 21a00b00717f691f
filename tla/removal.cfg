SPECIFICATION Spec
CONSTANTS
  Member = {m1, m2}
  Captain = captain
  None = none
  ClaudeMembers = {}
  Roster = {m1, m2}
  MaxTasks = 2
  MaxId = 3
  MaxCrashes = 1
  MaxMembers = 2
  MaxTaskAttempts = 2
  Controlled = TRUE
  Tools = {"create_task", "submit_task", "remove_member", "delete", "update_task"}
  Faults = {"followup_rejected"}
INVARIANT RemovedMemberOwnsNothing
INVARIANT CompletionHasReceipts
PROPERTY CompletedIsFinal
SYMMETRY Symmetry
CHECK_DEADLOCK FALSE
