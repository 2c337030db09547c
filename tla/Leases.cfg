CONSTANTS
  Nil = Nil
  Agent = {a1}
  Item = {i1}
  Session = {s1}
  Call = {c1}
  Injectable = {i1}
  MaxClock = 2
  MaxTTL = 2
  Owner = {o1, o2}
  Levels = {"level2"}
  GrantLives = {Nil}
  ApprovalLives = {1}
  SessionTTLs = {1, 2}
  UseLimits = {1}
  Keeps = {0}
  InFlight = 2
  Actions = {"fetch"}
  ReadCommitted = FALSE
  Crashes = FALSE
  Url <- OneUrl
  Ops = {"session", "renew", "revoke_session", "sweep", "agent", "revoke_agent"}
SPECIFICATION Spec
INVARIANTS LeaseIsCapped LeaseBoundsUse
PROPERTIES SweepIsInvisible RevocationIsFinal RevokedLeaseStopsLaterCalls
CHECK_DEADLOCK FALSE
