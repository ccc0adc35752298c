SPECIFICATION FairSpec
CONSTANTS
  Root = root
  NoTask = none
  Refresh = refresh
  Tasks = {root, child}
  Ops = {op}
  Writes = {w1}
  MaxLocal = 0
  MaxRefresh = 0
  MaxActors = 5
  MaxAround = 5
INVARIANT TypeOK
PROPERTIES ImplementsRule DriveEnds PanicDecides
\* The invocation stops when it has answered; a drive that stops before is
\* what DriveEnds finds.
CHECK_DEADLOCK FALSE
