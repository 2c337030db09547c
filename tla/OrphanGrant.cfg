CONSTANTS
  Nil = Nil
  Agent = {a1}
  Item = {i1}
  Session = {}
  Call = {c1}
  Injectable = {i1}
  MaxClock = 1
  MaxTTL = 2
  Owner = {o1, o2}
  Levels = {"level2"}
  GrantLives = {Nil}
  ApprovalLives = {1}
  SessionTTLs = {1}
  UseLimits = {1}
  Keeps = {0}
  InFlight = 2
  Actions = {"fetch"}
  ReadCommitted = FALSE
  Crashes = FALSE
  Url <- OneUrl
  Ops = {"delete", "grant"}
SPECIFICATION Spec
PROPERTIES DeleteRemovesGrants
CHECK_DEADLOCK FALSE
