\* Three calls, and reads, a change of the roots, two servers; two lines of a stdio client; two launches of the desktop;
\* two files of two commands, three deep; vcom of two lists; two statements; operands of eight bits; five bytes of
\* output; three instructions; words of few bits.
SPECIFICATION PartsSpec
CONSTANTS
  None = None
  Calls = {c1, c2, c3}
  Reads = {r1, r2, r3}
  MaxVersion = 1
  MaxServers = 2
  NoRead = NoRead
  MaxRead = 2
  Sessions = {s1, s2}
  Desktops = {d1, d2}
  Ports = {p1, p2}
  Incompatible = {d2}
  Connects = {l1}
  Files = {"main", "sub"}
  MaxDepth = 3
  MaxLines = 2
  Vcoms <- SomeCommands
  ListTexts <- SomeListTexts
  PathKinds = {"missing", "directory"}
  Designs <- SomeDesigns
  Texts <- SomeTexts
  Finds <- SomeFinds
  WordWidth = 8
  ImmediateBits = 4
  ShiftBits = 3
  Requests <- SomeRequests
  Limit = 3
  MaxBytes = 5
  MaxChunk = 2
  Count = 3
  Reach = 16
  Labels = {"a", "b"}
  Instructions <- EachKind
  Encodings <- FewBits
INVARIANTS
  RootsFresh
  AskedOnce
  AnsweredOnceInOrder
  FindsTheDesktop
  DoFileFollowed
  ListsInTheirPlace
  SitesRight
  BitsRight
  OutputKept
  InstructionsRight
PROPERTIES
  StopsAtError
  AttemptsEnd
CHECK_DEADLOCK FALSE
