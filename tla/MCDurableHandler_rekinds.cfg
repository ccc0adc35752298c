SPECIFICATION Spec
CONSTANTS
  Ops = {1, 2}
  Top = 1
  Shapes <- MCChildren
  Values = {"small"}
  ErrorTypes = {"Failed"}
  MaxChecks = 3
  MaxCrashes = 1
INVARIANT KindIsOne
CHECK_DEADLOCK FALSE
