SPECIFICATION Spec
CONSTANTS
  Ops = {1}
  Top = 1
  Shapes <- MCConditions
  Values = {"small"}
  ErrorTypes = {"Failed"}
  MaxChecks = 3
  MaxCrashes = 1
INVARIANT StateSurvives
CHECK_DEADLOCK FALSE
