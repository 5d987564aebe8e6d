SPECIFICATION FairSpec
CONSTANTS
  MaxBatches = 3
  MaxSends = 2
  KeepAlive = FALSE
INVARIANTS
  TypeOK
  CloseOnce
  UserLifetime
  RetryOnlyAfterDrop
  BufferExclusive
  DeafOnlyByRace
PROPERTIES
  ImplementsSession
  ClosingCompletes
  HangupNoticed
CHECK_DEADLOCK FALSE
