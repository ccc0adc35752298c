SPECIFICATION FairSpec
CONSTANTS
  a = a
  b = b
  p = p
  s = s
  Writes = {a, p}
  Scopes = {s}
  Owners <- MCOwners
  Final = final
  None = none
  Caller = caller
  Refresh = refresh
  Delayed = TRUE
  MaxOps = 1
  Procs = {caller, f1, f2, f3}
INVARIANTS TokenIsCurrent ClosedScopeIsSilent AnswerFollowsBuffer
PROPERTIES ImplementsJournal ContributionsSettle
CHECK_DEADLOCK FALSE
