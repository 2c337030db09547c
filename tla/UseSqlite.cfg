CONSTANTS
  Nil = Nil
  Agent = {a1}
  Item = {i1}
  Session = {s1}
  Call = {c1, c2, c3}
  Injectable = {i1}
  MaxClock = 0
  MaxTTL = 2
  Owner = {}
  Levels = {"level2"}
  GrantLives = {Nil}
  ApprovalLives = {1}
  SessionTTLs = {1}
  UseLimits = {0, 1}
  Keeps = {0}
  InFlight = 2
  Actions = {"fetch"}
  ReadCommitted = FALSE
  Crashes = TRUE
  Url <- OneUrl
  Ops = {"agent", "revoke_agent", "revoke_session", "archive"}
SPECIFICATION Spec
INVARIANTS AuditedBeforeRelease UsesAreCharged SlotsBalance
PROPERTIES ConsumeStopsAtRevocation
CHECK_DEADLOCK FALSE
