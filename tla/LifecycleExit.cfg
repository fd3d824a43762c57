SPECIFICATION Spec
CONSTANTS
  EnableAuthzPolicy = FALSE
  MaxLength = 1
  MaxCrashes = 1
\* The process may exit.
CHECK_DEADLOCK FALSE
INVARIANT ExitIsClean
