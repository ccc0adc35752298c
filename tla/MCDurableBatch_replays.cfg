SPECIFICATION FairSpec
CONSTANTS
  N = 3
  Configs <- MCConfigs
  Unset = Unset
  MaxRestarts = 2
INVARIANTS OneOutcome ResultFitsItems ReasonIsJustified NeverRejected
PROPERTY BatchSettles
CHECK_DEADLOCK FALSE
