\* One dump into a file of the workspace, where an earlier run may have left one.
SPECIFICATION Spec
CONSTANTS
  Dumps = {dump}
  Before = TRUE
INVARIANTS
  DumpsOfThisRun
CHECK_DEADLOCK FALSE
