SPECIFICATION Spec
CONSTANTS
  Values = {v1, v2}
  BodyErrors = {"Error", "StepInterruptedError"}
  MaxAttempts = 3
  MaxCrashes = 3
  Omits = TRUE
INVARIANT TimerIsAwaited
CHECK_DEADLOCK FALSE
