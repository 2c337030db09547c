SPECIFICATION Spec
CONSTANTS
  Process = {p1, p2, p3}
  Request = {r1, r2}
  Item = {i1}
  Owner = {o1, o2}
  Secret = {s1, s2}
  WrongKey = {p3}
  Backends = {"sqlite","postgres"}
  MaxRestore = 3
  Nil = Nil
  Legacy = Legacy
SYMMETRY Symmetry
INVARIANTS ItemsInv
PROPERTIES SecretsKept
CHECK_DEADLOCK FALSE
