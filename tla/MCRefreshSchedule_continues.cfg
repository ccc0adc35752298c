SPECIFICATION FairSpec
CONSTANTS
  Ops = {w}
  Spawned = {w}
  Changes = 2
  Dues = {0, 2}
  Unknown = Unknown
  Deadline = 5
  InitialDelay = 1
  MinRemaining = 1
  Ceiling = 2
  Extended = 3
  BeforeExtended = 2
INVARIANTS ScheduleIsKept RefreshesFit
PROPERTY ReadyContinues
CHECK_DEADLOCK FALSE
