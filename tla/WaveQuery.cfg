\* VCD files of up to four items; FST files of up to three changes at three times, cut anywhere; tables of five signals;
\* four blocks or names, and two changes of every kind of value.
SPECIFICATION Spec
CONSTANTS
  Values = {"0", "1"}
  MaxTime = 2
  None = None
  VcdIds = {"#1", "a"}
  VcdWatched = {"#1"}
  TimeLike = {"#1"}
  VcdQueries <- TwoTimes
  MaxItems = 4
  FstIds = {"a", "s"}
  FstWatched = {"a", "s"}
  Framed = {"a"}
  FstQueries <- SomeTimes
  MaxChanges = 3
  Count = 5
  Lengths = {1, 3}
  Deltas = {0, 1, 7, 8, 31, 32, 40, 8192}
  Names = {"a", "b"}
  Strings <- SomeStrings
  TimeCounts = {2, 40, 20000}
  MaxParts = 4
  Units <- ThreeUnits
  Magnitudes = {1, 10, 100}
  Texts <- SomeTexts
  Counts <- SomeCounts
INVARIANTS
  VcdRowsRight
  FstRowsRight
  ReadsTheLayout
  TimesInTicks
PROPERTIES
  ReplayEnds
CHECK_DEADLOCK FALSE
