SPECIFICATION Spec
CONSTANTS
  Member = {m1, m2}
  Captain = captain
  None = none
  ClaudeMembers = {}
  Roster = {m1, m2}
  MaxTasks = 2
  MaxId = 3
  MaxCrashes = 0
  MaxMembers = 2
  MaxTaskAttempts = 9
  Controlled = FALSE
  Tools = {"create_task", "reassign_task", "claim_task", "remove_member", "update_task"}
  Faults = {}
INVARIANT OneOpenTaskPerMember
INVARIANT DispatchFollowsGraph
PROPERTY KeepsOwnership
SYMMETRY Symmetry
CHECK_DEADLOCK FALSE
