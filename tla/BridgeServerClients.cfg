\* The bridge in a visible RARS: two clients, one after the other, and a continue that may run
\* for ever: with two addresses an endless loop is not a stutter.  The second client finds the
\* program the first one loaded.
SPECIFICATION FairSpec
CONSTANTS
  Addresses = {1, 2}
  Entry = 1
  MaxRuns = 2
  OutputLimit = 0
  MaxHistory = 0
  Headless = FALSE
  Asked = {"hello", "load", "continue", "pause", "modify", "malformed"}
  MaxClients = 2
  MaxSent = 3
INVARIANTS
  OneClientAtATime
PROPERTIES
  OnlyAsAsked
  PausesAnswered
  NextClientServed
CHECK_DEADLOCK FALSE
