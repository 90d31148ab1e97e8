\* One client: the threads keep the contract the TypeScript client relies on, and the simulator
\* its own promises over several runs.
SPECIFICATION Spec
CONSTANTS
  Addresses = {1, 2}
  Entry = 1
  MaxRuns = 2
  OutputLimit = 2
  MaxHistory = 1
  Headless = TRUE
  Asked = {"hello", "load", "reset", "step", "continue", "pause", "report", "modify", "encode"}
  MaxClients = 1
  MaxSent = 4
INVARIANTS
  BackstepStaysInRun
PROPERTIES
  KeepsContract
CHECK_DEADLOCK FALSE
