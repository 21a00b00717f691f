SPECIFICATION FairSpec
CONSTANTS
  Member = {m1, m2}
  Captain = captain
  None = none
  ClaudeMembers = {m1}
  Roster = {m1, m2}
  MaxTasks = 1
  MaxId = 3
  MaxCrashes = 0
  MaxMembers = 2
  MaxTaskAttempts = 2
  Controlled = FALSE
  Tools = {"create_task", "remove_member", "delete", "reassign_task", "claim_for", "update_task", "send_message", "status"}
  Faults = {"captain_offline", "followup_rejected", "late_rejection", "quiescence_error", "request_error"}
INVARIANT OutputFromCurrentAttempt
PROPERTY HandoffEnds
CHECK_DEADLOCK FALSE
