SPECIFICATION Spec
CONSTANTS
  Item = {i1, i2}
  Session = {s1}
  Event = {e1}
  MaxPasses = 2
  MaxInserts = 1
  Nil = Nil
INVARIANT CopiesEveryRow
CHECK_DEADLOCK FALSE
