SPECIFICATION FairSpec
CONSTANTS
  c1 = c1
  c2 = c2
  Conns <- MCTwo
  Idxs = {1}
  ZeroIdx = 0
  Acceptor = acceptor
  Broker = broker
  NoThread = nobody
INVARIANTS
  LockedUseIsLive
  RegistryComplete
  StaleOnlyWhileClosing
PROPERTY WritersFinish
CHECK_DEADLOCK FALSE
