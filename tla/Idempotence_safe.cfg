SPECIFICATION FairSpec
CONSTANTS
  MaxAttempts = 3
  SlowHandler = FALSE
INVARIANT TypeOK
INVARIANT Exclusive
INVARIANT NoPhantomResult
PROPERTY LockIsFreed
\* the attempts end
CHECK_DEADLOCK FALSE
