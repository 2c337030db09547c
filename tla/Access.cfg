SPECIFICATION AuthorizationSpec
CONSTANTS
  Request = {r1, r2}
  Agent = {a1}
  Human = {h1, h2}
  Item = {i1}
  Subject = {h1, h2, w1, w2}
  Guest = {w2}
  Audience = {v, x}
  Vault = v
  Founder = h1
  Ops = {"list", "mcp_list", "use", "create", "import", "update", "archive", "delete", "enroll", "grant", "agent", "revoke", "session", "overview", "events", "fill", "passkey", "invite"}
  MaxNow = 2
  Nil = Nil
  MaxStarts = 2
  None = None
INVARIANTS AccessInv AllowIffAuthorized AskOnlyIfEnough
PROPERTIES WritesAreEntitled
SYMMETRY Symmetry
CHECK_DEADLOCK FALSE
