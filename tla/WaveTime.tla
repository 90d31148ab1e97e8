------------------------------- MODULE WaveTime -------------------------------
(***************************************************************************)
(* Times of a waveform (ticks and formatTime of vhdl/wave.ts): what a time *)
(* such as "1.5 us" is in whole ticks of the file's timescale, and how a   *)
(* count of ticks is given back.  A text is its digits without the point,  *)
(* the places after the point, and its unit.                               *)
(***************************************************************************)
EXTENDS Integers

CONSTANTS
  Units,       \* exponents of the units, from 10^-15 to 1 seconds in the code
  Magnitudes,  \* of a timescale: 1, 10 or 100
  Texts,       \* times asked for: [digits, places, unit]
  Counts,      \* counts of ticks given back
  None

Smallest == CHOOSE u \in Units : \A v \in Units : u <= v
Timescales == [magnitude : Magnitudes, exponent : Units]

\* Assumed of the constants where they are given values.
TimeAssumption ==
  /\ Units \subseteq Int /\ \E least, most \in Units : Units \subseteq least .. most
  /\ Magnitudes \subseteq Nat \ {0} /\ None \notin Int /\ Counts \subseteq Nat
  /\ Texts \subseteq [digits : Nat, places : Nat, unit : Units \cup {None}]

VARIABLES
  timescale,  \* that of the file, None when it gives none
  text,       \* a time asked for
  count,      \* a count of ticks to give back
  asked,      \* the time asked for in ticks, -1 when it needs a timescale
  given       \* the count as a text

vars == <<timescale, text, count, asked, given>>

\* The powers of ten.
TenTo[n \in Nat] == IF n = 0 THEN 1 ELSE 10 * TenTo[n - 1]

\* Faulty variant: the remainder of the digits alone.
BetweenDigits(numerator, denominator) == denominator > 1 /\ numerator % 10 # 0
Between(numerator, denominator) == numerator % denominator # 0

Divisor(t) == IF t.unit = None THEN 1 ELSE timescale.magnitude

Ticks(t) ==
  LET exponent == (IF t.unit = None THEN 0 ELSE t.unit - timescale.exponent) - t.places
      numerator == t.digits * (IF exponent >= 0 THEN TenTo[exponent] ELSE 1)
      denominator == Divisor(t) * (IF exponent >= 0 THEN 1 ELSE TenTo[-exponent]) IN
  IF t.unit # None /\ timescale = None THEN [ticks |-> -1, between |-> FALSE]
  ELSE [ticks |-> numerator \div denominator, between |-> Between(numerator, denominator)]

AtLeastOne(n, unit) == n >= TenTo[unit - Smallest]

\* "1.50" is "1.5": zeros at the end of the places are left out.
Stripped(t) ==
  LET zeros == {k \in 0 .. t.places : t.digits % TenTo[k] = 0}
      most == CHOOSE k \in zeros : \A j \in zeros : j <= k
  IN [t EXCEPT !.digits = @ \div TenTo[most], !.places = @ - most]

FormatTime(n) ==
  IF timescale = None THEN [digits |-> n, places |-> 0, unit |-> None]
  ELSE LET smallest == n * timescale.magnitude * TenTo[timescale.exponent - Smallest]
           fitting == {u \in Units : AtLeastOne(smallest, u)}
           unit == IF fitting = {} THEN timescale.exponent ELSE CHOOSE u \in fitting : \A v \in fitting : v <= u
       IN Stripped([digits |-> smallest, places |-> unit - Smallest, unit |-> unit])

Init ==
  /\ timescale \in Timescales \cup {None}
  /\ text \in Texts /\ count \in Counts
  /\ asked = None /\ given = None

Query ==
  /\ asked = None
  /\ asked' = Ticks(text)
  /\ given' = FormatTime(count)
  /\ UNCHANGED <<timescale, text, count>>

Spec == Init /\ [][Query]_vars
-----------------------------------------------------------------------------
\* A time asked for and a tick, as multiples of one that divides both.  Without a unit the time is in ticks.
TimeOf(t) == t.digits * (IF t.unit = None THEN 1 ELSE TenTo[t.unit - Smallest])
TickOf(t) == TenTo[t.places] * (IF t.unit = None THEN 1 ELSE timescale.magnitude * TenTo[timescale.exponent - Smallest])

(***************************************************************************)
(* "Each value is the last change at or before that time": the ticks of a  *)
(* time are those of the last tick that is not after it, and only a time   *)
(* that is exactly a tick is not between two.                              *)
(***************************************************************************)
LastTickBefore ==
  asked # None /\ (text.unit = None \/ timescale # None) =>
    /\ asked.ticks = TimeOf(text) \div TickOf(text)
    /\ asked.between <=> asked.ticks * TickOf(text) # TimeOf(text)

(***************************************************************************)
(* The start and end of a dump can be asked for as they are given: they    *)
(* are then exactly the first and the last tick, in any timescale.         *)
(***************************************************************************)
GivenIsAsked == given # None => Ticks(given) = [ticks |-> count, between |-> FALSE]

(***************************************************************************)
(* A time is given in the largest unit that keeps it at least 1, without   *)
(* zeros at its end; only zero is below 1.                                 *)
(***************************************************************************)
LargestUnit ==
  given # None /\ timescale # None =>
    /\ given.digits >= TenTo[given.places] \/ (count = 0 /\ given.unit = timescale.exponent)
    /\ \A u \in Units : u > given.unit => given.digits < TenTo[u - given.unit + given.places]
    /\ given.places > 0 => given.digits % 10 # 0
=============================================================================
