SPECIFICATION Spec
CONSTANTS
  N = 2
  Configs <- MCMinimum
  Unset = Unset
  MaxRestarts = 1
INVARIANT DecisionIsStable
CHECK_DEADLOCK FALSE
