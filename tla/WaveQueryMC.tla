----------------------------- MODULE WaveQueryMC -----------------------------
\* Values for the constants of WaveQuery.
EXTENDS WaveQuery

At(tick) == [ticks |-> tick, between |-> FALSE]
Past(tick) == [ticks |-> tick, between |-> TRUE]
\* For VCD: two times in either order or twice the same, from a whole tick to half a tick after the last.
TwoTimes ==
  {<<At(t), At(u)>> : t \in {1, 2}, u \in {0, 1}} \cup {<<At(1), Past(MaxTime)>>, <<Past(0), At(0)>>, <<At(0), Past(0)>>}
\* For FST: a time alone, so that the replay stops early, half a tick after the last, and two times.
SomeTimes == {<<At(0)>>, <<At(1)>>, <<Past(MaxTime)>>, <<At(1), At(MaxTime)>>}
\* Strings shorter and longer than what one byte counts.
SomeStrings == {<<>>, <<"b">>, [i \in 1 .. 130 |-> "b"]}
\* Units two digits apart, not three, to stay within 32 bits.
ThreeUnits == {-4, -2, 0}
SomeTexts == [digits : {0, 1, 5, 10, 15, 99, 100, 101}, places : 0 .. 2, unit : ThreeUnits \cup {None}]
SomeCounts == 0 .. 3 \cup {10, 15, 99, 100, 101, 150, 1000}
=============================================================================
