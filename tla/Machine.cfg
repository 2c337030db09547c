SPECIFICATION MachineSpec
CONSTANTS
  Command = {1, 2}
  Life = 2
  Skew = 1
  MaxClock = 1
  MaxBegins = 2
  MaxRotations = 2
  MaxCallbacks = 2
  Process = {p1}
  Key = {k1, k2, kp}
  MasterKey = {m1, m2}
  PeerKey = kp
  Offers = {m1}
  Plain = {m1}
  Absent = Absent
  Torn = Torn
  Written = Written
  Nil = Nil
INVARIANTS ClientInv DirInv
PROPERTIES RotationsAreJustified LoginReturns PlainGoesLast
CHECK_DEADLOCK FALSE
