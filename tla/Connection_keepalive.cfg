SPECIFICATION FairSpec
CONSTANTS
  MaxBatches = 1
  MaxSends = 1
  KeepAlive = TRUE
INVARIANT ReservedOnlyWhileOpen
PROPERTY SilenceExpires
CHECK_DEADLOCK FALSE
