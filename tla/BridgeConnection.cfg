\* A connection of either owner: a headless session hears of a disconnection and
\* fails the connection itself, the live client has it fail at once.
SPECIFICATION FairSpec
CONSTANTS
  MaxRequests = 2
  MaxWritten = 2
  Asked = {"hello", "continue", "reset", "encode", "pause"}
  Owners = {"headless", "live"}
INVARIANTS
  TypeOK
  NoOvertaking
  WaitingIsAccountedFor
  OutputConserved
PROPERTIES
  SettlesOnce
  EverySettles
  HungBridgeEnds
CHECK_DEADLOCK FALSE
