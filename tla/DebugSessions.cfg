\* Two sessions, one of inline source, that start, end and fail in any order, and a shutdown.
SPECIFICATION FairSpec
CONSTANTS
  Sessions = {s1, s2}
  Inline = {s1}
  MaxQueued = 2
INVARIANTS
  NothingForgotten
  EndedLeavesNothing
  ExitLeavesNoBridge
PROPERTIES
  AnswerStays
  StartEnds
  EndedIsReleased
CHECK_DEADLOCK FALSE
