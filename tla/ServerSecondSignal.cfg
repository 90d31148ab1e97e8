\* One session, and a server that gets two signals.
SPECIFICATION Spec
CONSTANTS
  Sessions = {s1}
  Inline = {s1}
  MaxQueued = 1
INVARIANTS
  NoBridgeOutlivesServer
CHECK_DEADLOCK FALSE
