\* runRars, whose program may be killed before it has read its stdin.
SPECIFICATION Spec
CONSTANTS
  Limit = 2
  MaxPrinted = 3
  Stdins = {TRUE}
INVARIANTS
  ServerSurvives
CHECK_DEADLOCK FALSE
