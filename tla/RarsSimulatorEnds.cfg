\* A program that has ended is stepped back, and runs again without a reset.
SPECIFICATION EndsSpec
CONSTANTS
  Addresses = {1, 2}
  Entry = 1
  MaxRuns = 2
  OutputLimit = 1
  MaxHistory = 1
INVARIANT TerminatedRefusesToRun
CHECK_DEADLOCK FALSE
