SPECIFICATION FairSpec
CONSTANTS
  b1 = b1
  b2 = b2
  b3 = b3
  s1 = s1
  Conns <- MCThreeConns
  Senders = {}
  Main = main
  Svc = svc
  Nobody = nobody
  MaxFired = 1
PROPERTIES
  UpdatesGoOn
  KeepsTrying
CHECK_DEADLOCK FALSE
