SPECIFICATION Spec
CONSTANTS
  EnableAuthzPolicy = TRUE
  MaxLength = 1
  MaxCrashes = 1
\* The process may exit.
CHECK_DEADLOCK FALSE
INVARIANTS
  TypeOK
  NothingBeforeSync
PROPERTIES
  EveryWorkerStarts
  StopEndsLoops
