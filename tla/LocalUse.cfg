CONSTANTS
  Nil = Nil
  MaxEdits = 3
  Agent = {a1}
  Item = {i1, i2}
  Session = {}
  Call = {t1}
  Injectable = {i1}
  SshKeys = {i2}
  Kinds = {"connect", "request", "env", "ssh"}
  MaxClock = 1
  MaxTTL = 2
  Owner = {o1}
  Levels = {"level1"}
  GrantLives = {Nil, 1}
  ApprovalLives = {1}
  SessionTTLs = {1}
  UseLimits = {1}
  Keeps = {0}
  Url <- OneUrl
  Ops = {"grant", "approve", "delete", "revoke_agent", "archive", "sweep", "update", "item"}
SPECIFICATION LocalSpec
INVARIANTS LocalInv RevocationStopsLaterTasks
PROPERTIES UndisturbedIsTreatedAsUse
CHECK_DEADLOCK FALSE
