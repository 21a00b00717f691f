SPECIFICATION ByClawSpec
CONSTANTS
  Parts = {"session", "broker", "watch"}
  Command = {c1, c2}
  NoCommand = noCommand
  SessionCalls = {"start", "delete", "template"}
  SessionFaults = {"tool_error"}
  MaxEvents = 3
  MaxPieces = 2
  MaxTeams = 2
  q1 = q1
  q2 = q2
  q3 = q3
  a1 = a1
  a2 = a2
  Question = {q1, q2, q3}
  AskSession = {a1, a2}
  askSessionOf <- MCSessionOf
  Resource = {r1}
  MaxAt = 2
  MaxGrants = 1
  MaxChanges = 2
  MaxLists = 1
INVARIANT RuntimeConsistent
INVARIANT AnswerComplete
INVARIANT StreamComplete
INVARIANT DeletedIsHidden
PROPERTY HeldByTeam
PROPERTY NewestWins
CHECK_DEADLOCK FALSE
