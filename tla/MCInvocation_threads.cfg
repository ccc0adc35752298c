SPECIFICATION Spec
CONSTANTS
  Root = root
  NoTask = none
  Refresh = refresh
  Tasks = {root, child, grandchild}
  Ops = {op}
  Writes = {w1, w2}
  MaxLocal = 1
  MaxRefresh = 1
  MaxActors = 3
  MaxAround = 3
CONSTRAINT FewActors
INVARIANTS PermitAccounting DecisionIsExact NoLostWakeup LatchesExclude AnswerIsJustified CleanReturn
