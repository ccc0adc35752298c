SPECIFICATION FairSpec
CONSTANTS
  Values = {v1, v2}
  BodyErrors = {"Error", "StepInterruptedError"}
  MaxAttempts = 3
  MaxCrashes = 3
  Omits = FALSE
INVARIANTS AtMostOncePerRetry OneOutcome AttemptsAreCounted NeverRejected
PROPERTY StepSettles
CHECK_DEADLOCK FALSE
