SPECIFICATION Spec
CONSTANTS
  MaxAttempts = 3
  SlowHandler = FALSE
PROPERTY FailureIsReturned
\* the attempts end
CHECK_DEADLOCK FALSE
