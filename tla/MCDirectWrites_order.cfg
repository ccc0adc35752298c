SPECIFICATION FairSpec
CONSTANTS
  a = a
  b = b
  p = p
  s = s
  Writes = {a, b, p}
  Scopes = {s}
  Owners <- MCOwners
  Final = final
  None = none
  Caller = caller
  Procs = {caller, w1, w2}
INVARIANTS TokenIsCurrent ClosedScopeIsSilent
PROPERTIES ImplementsJournal WritesSettle
CHECK_DEADLOCK FALSE
