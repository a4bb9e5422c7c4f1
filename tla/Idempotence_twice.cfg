SPECIFICATION Spec
CONSTANTS
  MaxAttempts = 3
  SlowHandler = FALSE
INVARIANT AtMostOnce
\* the attempts end
CHECK_DEADLOCK FALSE
