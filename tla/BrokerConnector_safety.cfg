SPECIFICATION Spec
CONSTANTS
  b1 = b1
  b2 = b2
  b3 = b3
  s1 = s1
  Conns <- MCThreeConns
  Senders <- MCOneSender
  Main = main
  Svc = svc
  Nobody = nobody
  MaxFired = 2
SYMMETRY ConnSymmetry
INVARIANTS
  OneLink
  LinkHasUser
  DoubleDeleteOnlyInWindow
  EndpointsLeft
  UpdateNotLost
CHECK_DEADLOCK FALSE
