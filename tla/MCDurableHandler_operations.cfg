SPECIFICATION FairSpec
CONSTANTS
  Ops = {1, 2, 3, 4, 5, 6}
  Top = 1
  Shapes <- MCShapes
  Values = {"small", "large"}
  ErrorTypes = {"Failed"}
  MaxChecks = 3
  MaxCrashes = 2
INVARIANTS TypeOK NeverRejected OneOutcome CombinedFitsInputs MismatchIsNotRecorded ChecksCarryState
PROPERTIES Settles FinishedContextsAreFinal
CHECK_DEADLOCK FALSE
