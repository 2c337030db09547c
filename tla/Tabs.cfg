\* Two tabs, two sites, two calls of the worker at a time; a vault of two items and room for one.
SPECIFICATION Spec
CONSTANTS
  Tab = {t1, t2}
  Site = {s1, s2}
  Item = {i1, i2, i3}
  Vaults <- TwoSaved
  Everywhere = Everywhere
  Calls = 2
  Kinds = {"visit", "focus", "focusNew", "list", "click", "suggest", "keep", "enroll", "passkey"}
  MaxCalls = 2
  MaxMoves = 1
  MaxFaults = 1
  Nil = Nil
  s1 = s1
  s2 = s2
  i1 = i1
  i2 = i2
  i3 = i3
INVARIANTS TabsInv WrittenFitsTheAsk
PROPERTIES CallsSettle
CHECK_DEADLOCK FALSE
