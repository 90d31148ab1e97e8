\* A limit of three units (messages, output) against four; two calls of two testbenches and up to two mutations.
\* One call with two dumps, and files of an earlier run in their place.
SPECIFICATION Spec
CONSTANTS
  Dumps = {first, second}
  Before = TRUE
  Stdins = {TRUE, FALSE}
  Limit = 3
  MaxPrinted = 4
  MaxMessages = 4
  None = None
  first = first
  second = second
  strong = strong
  weak = weak
  m1 = m1
  m2 = m2
  Calls = {first, second}
  Tops <- TwoTops
  Mutants = {m1, m2}
  Mutations <- BothOrders
  Design = design
INVARIANTS
  ReportedWhole
  NothingLeft
  ScoresRight
PROPERTIES
  RunSettles
CHECK_DEADLOCK FALSE
