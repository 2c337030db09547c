\* Two calls on one lease over Postgres; four events for a channel of two and two closers.
CONSTANTS
  Nil = Nil
  Agent = {a1}
  Item = {i1}
  Session = {s1}
  Call = {c1, c2}
  Injectable = {i1}
  MaxClock = 1
  MaxTTL = 2
  Owner = {}
  Levels = {"level2"}
  GrantLives = {Nil}
  ApprovalLives = {1}
  SessionTTLs = {1}
  UseLimits = {0, 1}
  Keeps = {0}
  InFlight = 2
  Actions = {"fetch"}
  ReadCommitted = TRUE
  Crashes = TRUE
  Url <- OneUrl
  Ops = {"agent", "revoke_agent", "revoke_session"}
  Event = {e1, e2, e3, e4}
  Closer = {k1, k2}
  Cap = 2
  MaxBatch = 2
  Interval = TRUE
SPECIFICATION RecordsSpec
INVARIANTS Inv AsyncInv CloseDrains
PROPERTIES
  CallsReturn RevocationStopsLaterCalls ImplementsLedger
  ImplementsLog CloseReturns AppendReturns
CHECK_DEADLOCK FALSE
