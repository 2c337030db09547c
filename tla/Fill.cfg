\* One browser port with or without a credential store, at most one login at first; the ids of a second login and of a card.
CONSTANTS
  Host = {h1}
  Item = {i1, i2, c1}
  Site = {s1, s2}
  Fresh = {i2, c1}
  Cards = {c1}
  Ops = {"ping", "match", "fill", "generate", "save", "enroll", "passkey", "logins", "code"}
  Platforms = {TRUE, FALSE}
  Reuse = 1
  MaxClock = 1
  MaxEdits = 1
  MaxAsks = 4
  Nil = Nil
SPECIFICATION Spec
INVARIANTS FillInv
PROPERTIES ActsAreAccepted EnrollsItsOwn
SYMMETRY Symmetry
CHECK_DEADLOCK FALSE
