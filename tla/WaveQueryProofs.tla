-------------------------- MODULE WaveQueryProofs --------------------------
(***************************************************************************)
(* Proofs about wave_query (WaveQuery): the rows are the last changes of   *)
(* the run, for any file, signals and times, read from a VCD file or from  *)
(* an FST file.  Both proofs rest on the sampler: the times asked for are  *)
(* answered in the order of pending, exactly those before the time the     *)
(* replay is at (ReplayAt), and each row then holds the last changes       *)
(* (RowsFollow).  Of a VCD file, between two items the current values are  *)
(* the last changes (UpToDate), and what is left to read of an item is one *)
(* of a few shapes, with the change it still has to make (VcdItem): that   *)
(* is why a token is never taken for another.  Of an FST file, each block  *)
(* holds the changes of its stretch of time (FileRight), and of each       *)
(* signal the first of its changes are made, the others still to come in   *)
(* the streams or the blocks after (Between, Ahead).  Of a time, the       *)
(* numerator and denominator that the code computes, whose powers of ten   *)
(* differ with the unit and the places, are the same fraction as those in  *)
(* the smallest unit (SameFraction).  Of a table of chains, after any      *)
(* number of entries the reader has what the writer put there (KeepsPace). *)
(* Of the rest of a file, a part is written as the chunks of its elements, *)
(* one after the other (Laid); reading from where one begins takes that    *)
(* element and ends where the next begins (BlockStep, ChangeStep,          *)
(* EntryStep), so the whole is read as it was meant.                       *)
(***************************************************************************)
EXTENDS WaveQuery, DataLemmas, FiniteSetTheorems

-----------------------------------------------------------------------------
(* The last change at or before a time *)

IsWave(w) == Len(w) \in Nat /\ DOMAIN w = 1 .. Len(w) /\ \A k \in 1 .. Len(w) : w[k].at \in Nat

\* v is the value of the last change of id at or before t, or None before the first.
LastIs(w, id, t, v) ==
  \/ v = None /\ \A k \in 1 .. Len(w) : w[k].id = id => w[k].at > t
  \/ \E k \in 1 .. Len(w) :
       /\ w[k].id = id /\ w[k].at <= t /\ w[k].value = v
       /\ \A j \in k + 1 .. Len(w) : w[j].id = id => w[j].at > t

\* The last change is the one that the property chooses.
LEMMA LastIsValue ==
  ASSUME NEW w, IsWave(w), NEW id, NEW t \in Nat, NEW v, LastIs(w, id, t, v)
  PROVE  LET before == {k \in DOMAIN w : w[k].id = id /\ w[k].at <= t} IN
         v = IF before = {} THEN None ELSE w[CHOOSE k \in before : \A j \in before : j <= k].value
<1> DEFINE before == {k \in DOMAIN w : w[k].id = id /\ w[k].at <= t}
           last == CHOOSE k \in before : \A j \in before : j <= k
<1>1. before \subseteq 1 .. Len(w) /\ Len(w) \in Nat
  BY DEF IsWave
<1>2. CASE v = None /\ \A k \in 1 .. Len(w) : w[k].id = id => w[k].at > t
  <2>1. before = {}
    BY <1>2 DEF IsWave
  <2> QED BY <1>2, <2>1
<1>3. ASSUME NEW k \in 1 .. Len(w), w[k].id = id, w[k].at <= t, w[k].value = v,
             \A j \in k + 1 .. Len(w) : w[j].id = id => w[j].at > t
      PROVE  before # {} /\ v = w[last].value
  <2>1. k \in before
    BY <1>3 DEF IsWave
  <2>2. \A j \in before : j \in Int /\ j <= k
    BY <1>1, <1>3 DEF IsWave
  <2> HIDE DEF before
  <2>3. last \in before /\ \A j \in before : j <= last
    BY <2>1, <2>2
  <2> HIDE DEF last
  <2>4. last = k
    BY <2>1, <2>2, <2>3
  <2> QED BY <1>3, <2>1, <2>4 DEF last
<1> HIDE DEF before
<1>4. v = IF before = {} THEN None ELSE w[last].value
  BY <1>2, <1>3 DEF LastIs, before
<1> QED BY <1>4 DEF before

\* What a further change makes the last change.
LEMMA LastIsAppend ==
  ASSUME NEW C, NEW w \in Seq(C), IsWave(w), NEW e \in C, e.at \in Nat, NEW id, NEW t \in Nat
  PROVE  /\ IsWave(Append(w, e))
         /\ \A v : LastIs(w, id, t, v) /\ (e.id # id \/ e.at > t) => LastIs(Append(w, e), id, t, v)
         /\ e.id = id /\ e.at <= t => LastIs(Append(w, e), id, t, e.value)
<1> DEFINE longer == Append(w, e)
           n == Len(w)
<1>1. /\ longer \in Seq(C) /\ Len(longer) = n + 1 /\ n \in Nat /\ longer[n + 1] = e
      /\ \A k \in 1 .. n : longer[k] = w[k]
  BY AppendProperties
<1>2. IsWave(longer)
  <2>1. DOMAIN longer = 1 .. Len(longer)
    BY <1>1
  <2> HIDE DEF longer
  <2>2. \A k \in 1 .. n + 1 : k \in 1 .. n \/ k = n + 1
    BY <1>1
  <2> QED BY <1>1, <2>1, <2>2 DEF IsWave
<1> HIDE DEF longer, n
<1>3. ASSUME NEW v, LastIs(w, id, t, v), e.id # id \/ e.at > t PROVE LastIs(longer, id, t, v)
  <2>1. CASE v = None /\ \A k \in 1 .. n : w[k].id = id => w[k].at > t
    <3>1. \A k \in 1 .. Len(longer) : longer[k].id = id => longer[k].at > t
      BY <1>1, <1>3, <2>1
    <3> QED BY <2>1, <3>1 DEF LastIs
  <2>2. ASSUME NEW k \in 1 .. n, w[k].id = id, w[k].at <= t, w[k].value = v,
               \A j \in k + 1 .. n : w[j].id = id => w[j].at > t
        PROVE  LastIs(longer, id, t, v)
    <3>1. k \in 1 .. Len(longer) /\ longer[k] = w[k]
      BY <1>1
    <3>2. \A j \in k + 1 .. Len(longer) : longer[j].id = id => longer[j].at > t
      BY <1>1, <1>3, <2>2
    <3> QED BY <2>2, <3>1, <3>2 DEF LastIs
  <2> QED BY <1>3, <2>1, <2>2 DEF LastIs, n
<1>4. ASSUME e.id = id, e.at <= t PROVE LastIs(longer, id, t, e.value)
  <2>1. n + 1 \in 1 .. Len(longer) /\ (n + 1) + 1 .. Len(longer) = {}
    BY <1>1
  <2> QED BY <1>1, <1>4, <2>1 DEF LastIs
<1> QED BY <1>2, <1>3, <1>4 DEF longer

\* Nothing changes after the last change.
LEMMA LastIsLater ==
  ASSUME NEW w, IsWave(w), NEW n \in Nat, \A k \in 1 .. Len(w) : w[k].at <= n,
         NEW t \in Nat, n <= t, NEW id, NEW v, LastIs(w, id, n, v)
  PROVE  LastIs(w, id, t, v)
<1>1. CASE v = None /\ \A k \in 1 .. Len(w) : w[k].id = id => w[k].at > n
  <2>1. \A k \in 1 .. Len(w) : w[k].id # id
    BY <1>1 DEF IsWave
  <2> QED BY <1>1, <2>1 DEF LastIs
<1>2. ASSUME NEW k \in 1 .. Len(w), w[k].id = id, w[k].at <= n, w[k].value = v,
             \A j \in k + 1 .. Len(w) : w[j].id = id => w[j].at > n
      PROVE  LastIs(w, id, t, v)
  <2>1. w[k].at <= t
    BY <1>2 DEF IsWave
  <2>2. \A j \in k + 1 .. Len(w) : w[j].id # id
    BY <1>2 DEF IsWave
  <2> QED BY <1>2, <2>1, <2>2 DEF LastIs
<1> QED BY <1>1, <1>2 DEF LastIs

-----------------------------------------------------------------------------
(* How far the times asked for are answered *)

\* The first n times, in order, are before t, and no other is.
Reaches(at, len, from, t, n) ==
  /\ n \in from .. len
  /\ \A k \in from + 1 .. n : at[k] < t
  /\ n < len => at[n + 1] >= t

LEMMA ReachExists ==
  ASSUME NEW len \in Nat, NEW at \in [1 .. len -> Nat], NEW from \in 0 .. len, NEW t \in Nat
  PROVE  \E n : Reaches(at, len, from, t, n)
<1> DEFINE All(m) == \A k \in from + 1 .. from + m : at[k] < t
           A == {m \in Nat : from + m <= len => All(m) \/ \E n : Reaches(at, len, from, t, n)}
<1>1. 0 \in A
  OBVIOUS
<1>2. ASSUME NEW m \in Nat, m \in A PROVE m + 1 \in A
  <2> SUFFICES ASSUME from + (m + 1) <= len, \A n : ~Reaches(at, len, from, t, n) PROVE All(m + 1)
    OBVIOUS
  <2>1. All(m)
    BY <1>2
  <2>2. from + m \in from .. len /\ from + m < len /\ (from + m) + 1 \in 1 .. len
    OBVIOUS
  <2>3. at[(from + m) + 1] < t
    <3>1. ~Reaches(at, len, from, t, from + m)
      OBVIOUS
    <3>2. at[(from + m) + 1] \in Nat
      BY <2>2
    <3> QED BY <2>1, <2>2, <3>1, <3>2 DEF Reaches
  <2>4. \A k \in from + 1 .. from + (m + 1) : k \in from + 1 .. from + m \/ k = (from + m) + 1
    OBVIOUS
  <2> QED BY <2>1, <2>3, <2>4
<1> HIDE DEF A
<1>3. len - from \in A /\ len - from \in Nat
  <2>1. \A n \in Nat : n \in A
    BY <1>1, <1>2, SetInduction
  <2> QED BY <2>1
<1>4. All(len - from) => Reaches(at, len, from, t, len)
  BY DEF Reaches
<1> QED BY <1>3, <1>4 DEF A

-----------------------------------------------------------------------------
(* The sampler, in the replay of a file (Sampler) *)

Asked == [ticks : Nat, between : BOOLEAN]
\* When the row is of that the k-th of pending asks for.
When(k) == query[pending[k]].ticks
\* The k-th row, in the order of pending.
RowOf(k) == rows[pending[k]]

SamplerTyped ==
  /\ query \in Seq(Asked)
  /\ pending \in [1 .. Len(query) -> 1 .. Len(query)]
  /\ answered \in 0 .. Len(query)
  /\ DOMAIN rows = 1 .. Len(query) /\ rows = [i \in DOMAIN rows |-> rows[i]]

InOrderOfTime ==
  /\ \A i \in 1 .. Len(query) : \E k \in 1 .. Len(query) : pending[k] = i
  /\ \A j, k \in 1 .. Len(query) : j < k => pending[j] # pending[k] /\ When(j) <= When(k)

\* The replay is at a time: the rows of the times before it are answered.
ReplayAt(now) == \A k \in 1 .. Len(query) : IF k <= answered THEN When(k) < now ELSE When(k) >= now
RowsFilled == \A k \in 1 .. Len(query) : IF k <= answered THEN RowOf(k) # None ELSE RowOf(k) = None
RowsFollow(watched) ==
  \A k \in 1 .. Len(query) : k <= answered => \A id \in watched : LastIs(wave, id, When(k), RowOf(k)[id])
Current(watched) == current # None /\ current \in [watched -> Values \cup {None}]
\* The current values are right for the next rows, up to the n-th.
RightFor(watched, n) ==
  \A k \in 1 .. Len(query) : k > answered /\ k <= n => \A id \in watched : LastIs(wave, id, When(k), current[id])
\* The sampler records the current values for the next rows, up to the n-th.
Records(n) ==
  /\ answered' = n
  /\ rows' = [i \in DOMAIN query |-> IF \E k \in answered + 1 .. n : pending[k] = i THEN current ELSE rows[i]]
  /\ UNCHANGED <<query, pending>>
\* It counts n of pending as passed when the replay goes to t.
PassedIs(t, n) ==
  n = (CHOOSE m \in answered .. Len(query) :
         /\ \A k \in answered + 1 .. m : query[pending[k]].ticks < t
         /\ m < Len(query) => query[pending[m + 1]].ticks >= t)

LEMMA Positions ==
  ASSUME SamplerTyped
  PROVE  /\ Len(query) \in Nat /\ DOMAIN query = 1 .. Len(query) /\ answered \in 0 .. Len(query) /\ answered \in Nat
         /\ \A k \in 1 .. Len(query) : k \in Nat /\ pending[k] \in 1 .. Len(query) /\ When(k) \in Nat
<1>1. /\ query \in Seq(Asked) /\ Len(query) \in Nat /\ DOMAIN query = 1 .. Len(query)
      /\ answered \in 0 .. Len(query) /\ answered \in Nat
      /\ \A k \in 1 .. Len(query) : k \in Nat /\ pending[k] \in 1 .. Len(query)
  BY DEF SamplerTyped
<1>2. \A i \in 1 .. Len(query) : query[i] \in Asked
  BY <1>1
<1>3. \A i \in 1 .. Len(query) : query[i].ticks \in Nat
  BY <1>2 DEF Asked
<1> QED BY <1>1, <1>3 DEF When

LEMMA SortedIs ==
  ASSUME query \in Seq(Asked), pending \in [1 .. Len(query) -> 1 .. Len(query)],
         \A i \in DOMAIN query : \E k \in DOMAIN query : pending[k] = i,
         \A j, k \in DOMAIN query : j < k =>
           \/ query[pending[j]].ticks < query[pending[k]].ticks
           \/ query[pending[j]].ticks = query[pending[k]].ticks /\ pending[j] < pending[k]
  PROVE  InOrderOfTime
<1>1. DOMAIN query = 1 .. Len(query)
  OBVIOUS
<1>2. \A k \in 1 .. Len(query) : pending[k] \in 1 .. Len(query) /\ When(k) \in Nat
  <2>1. \A i \in 1 .. Len(query) : query[i] \in Asked
    OBVIOUS
  <2>2. \A i \in 1 .. Len(query) : query[i].ticks \in Nat
    BY <2>1 DEF Asked
  <2> QED BY <2>2 DEF When
<1>3. ASSUME NEW j \in 1 .. Len(query), NEW k \in 1 .. Len(query), j < k
      PROVE  pending[j] # pending[k] /\ When(j) <= When(k)
  <2>1. \/ When(j) < When(k)
        \/ When(j) = When(k) /\ pending[j] < pending[k]
    BY <1>1, <1>3 DEF When
  <2>2. pending[j] = pending[k] => When(j) = When(k)
    BY DEF When
  <2>3. /\ pending[j] \in Nat /\ pending[k] \in Nat /\ When(j) \in Nat /\ When(k) \in Nat
    <3>1. Len(query) \in Nat /\ \A i \in 1 .. Len(query) : i \in Nat
      OBVIOUS
    <3> QED BY <1>2, <3>1
  <2> QED BY <2>1, <2>2, <2>3
<1> QED BY <1>1, <1>3 DEF InOrderOfTime

\* The rows of the times passed are the current values.
LEMMA RecordRight ==
  ASSUME SamplerTyped, InOrderOfTime, RowsFilled, NEW W, Current(W), NEW n \in answered .. Len(query), Records(n)
  PROVE  /\ SamplerTyped' /\ InOrderOfTime' /\ RowsFilled'
         /\ UNCHANGED wave /\ RowsFollow(W) /\ RightFor(W, n) => RowsFollow(W)'
<1> DEFINE len == Len(query)
<1>1. len \in Nat /\ DOMAIN query = 1 .. len /\ answered \in 0 .. len /\ answered \in Nat
      /\ \A k \in 1 .. len : k \in Nat /\ pending[k] \in 1 .. len /\ When(k) \in Nat
  BY Positions
<1>2. /\ answered' = n /\ UNCHANGED <<query, pending>>
      /\ rows' = [i \in DOMAIN query |-> IF \E k \in answered + 1 .. n : pending[k] = i THEN current ELSE rows[i]]
  BY DEF Records
<1> HIDE DEF len
<1>3. n \in answered .. len /\ n \in Nat /\ answered <= n /\ n <= len
  BY <1>1 DEF len
<1>4. len' = len /\ \A k \in 1 .. len : When(k)' = When(k)
  BY <1>2 DEF When, len
<1>5. \A k \in 1 .. len : RowOf(k)' = IF k > answered /\ k <= n THEN current ELSE RowOf(k)
  <2> SUFFICES ASSUME NEW k \in 1 .. len
               PROVE  RowOf(k)' = IF k > answered /\ k <= n THEN current ELSE RowOf(k)
    OBVIOUS
  <2>1. \A j \in answered + 1 .. n : j \in 1 .. len /\ (pending[j] = pending[k] => j = k)
    <3> SUFFICES ASSUME NEW j \in answered + 1 .. n PROVE j \in 1 .. len /\ (pending[j] = pending[k] => j = k)
      OBVIOUS
    <3>1. j \in 1 .. len
      BY <1>1, <1>3
    <3>2. j < k \/ k < j \/ j = k
      BY <1>1, <3>1
    <3> QED BY <3>1, <3>2 DEF InOrderOfTime, len
  <2>2. (\E j \in answered + 1 .. n : pending[j] = pending[k]) <=> k \in answered + 1 .. n
    BY <2>1
  <2>3. k \in answered + 1 .. n <=> k > answered /\ k <= n
    BY <1>1, <1>3
  <2>4. rows'[pending[k]] = IF \E j \in answered + 1 .. n : pending[j] = pending[k] THEN current ELSE rows[pending[k]]
    BY <1>1, <1>2
  <2> QED BY <1>2, <2>2, <2>3, <2>4 DEF RowOf
<1>6. RowsFilled'
  <2>1. ASSUME NEW k \in 1 .. len PROVE IF k <= n THEN RowOf(k)' # None ELSE RowOf(k)' = None
    <3>1. IF k <= answered THEN RowOf(k) # None ELSE RowOf(k) = None
      BY DEF RowsFilled, len
    <3>2. CASE k > answered /\ k <= n
      BY <1>5, <3>2 DEF Current
    <3>3. CASE ~(k > answered /\ k <= n)
      <4>1. RowOf(k)' = RowOf(k) /\ (k <= answered <=> k <= n)
        BY <1>1, <1>3, <1>5, <3>3
      <4> QED BY <3>1, <4>1
    <3> QED BY <3>2, <3>3
  <2> QED BY <1>2, <1>4, <2>1 DEF RowsFilled, len
<1>7. ASSUME UNCHANGED wave, RowsFollow(W), RightFor(W, n) PROVE RowsFollow(W)'
  <2>1. ASSUME NEW k \in 1 .. len, k <= n, NEW id \in W PROVE LastIs(wave, id, When(k), RowOf(k)'[id])
    <3>1. CASE k > answered
      <4>1. RowOf(k)' = current
        BY <1>5, <2>1, <3>1
      <4>2. LastIs(wave, id, When(k), current[id])
        BY <1>7, <2>1, <3>1 DEF RightFor, len
      <4> QED BY <4>1, <4>2
    <3>2. CASE k <= answered
      <4>1. RowOf(k)' = RowOf(k)
        BY <1>1, <1>5, <3>2
      <4>2. LastIs(wave, id, When(k), RowOf(k)[id])
        BY <1>7, <2>1, <3>2 DEF RowsFollow, len
      <4> QED BY <4>1, <4>2
    <3> QED BY <1>1, <3>1, <3>2
  <2> QED BY <1>2, <1>4, <1>7, <2>1 DEF RowsFollow, len
<1>8. SamplerTyped'
  BY <1>1, <1>2, <1>3 DEF SamplerTyped, len
<1>9. InOrderOfTime'
  BY <1>2, <1>4 DEF InOrderOfTime, len
<1> QED BY <1>6, <1>7, <1>8, <1>9

\* Going to a later time, whoever does it.
LEMMA PassedRight ==
  ASSUME SamplerTyped, InOrderOfTime, NEW t \in Nat, NEW n, PassedIs(t, n)
  PROVE  /\ n \in answered .. Len(query)
         /\ \A k \in 1 .. Len(query) : k > answered /\ k <= n => When(k) < t
         /\ \A now \in Nat : ReplayAt(now) /\ now <= t =>
              \A k \in 1 .. Len(query) : IF k <= n THEN When(k) < t ELSE When(k) >= t
<1> DEFINE len == Len(query)
           at == [k \in 1 .. len |-> When(k)]
<1>1. len \in Nat /\ DOMAIN query = 1 .. len /\ answered \in 0 .. len /\ answered \in Nat
      /\ \A k \in 1 .. len : k \in Nat /\ pending[k] \in 1 .. len /\ When(k) \in Nat
  BY Positions
<1>2. at \in [1 .. len -> Nat]
  BY <1>1
<1> HIDE DEF len
<1>3. \E m : Reaches(at, len, answered, t, m)
  BY <1>1, <1>2, ReachExists
<1>4. \A m : Reaches(at, len, answered, t, m)
         <=> /\ m \in answered .. len
             /\ \A k \in answered + 1 .. m : query[pending[k]].ticks < t
             /\ m < len => query[pending[m + 1]].ticks >= t
  <2> SUFFICES ASSUME NEW m \in answered .. len
               PROVE  /\ \A k \in answered + 1 .. m : at[k] = query[pending[k]].ticks
                      /\ m < len => at[m + 1] = query[pending[m + 1]].ticks
    BY DEF Reaches
  <2> QED BY <1>1 DEF When
<1>5. Reaches(at, len, answered, t, n)
  <2>1. \E m \in answered .. len :
           /\ \A k \in answered + 1 .. m : query[pending[k]].ticks < t
           /\ m < len => query[pending[m + 1]].ticks >= t
    BY <1>3, <1>4
  <2>2. /\ n \in answered .. len
        /\ \A k \in answered + 1 .. n : query[pending[k]].ticks < t
        /\ n < len => query[pending[n + 1]].ticks >= t
    BY <2>1 DEF len, PassedIs
  <2> QED BY <1>4, <2>2
<1>6. n \in answered .. len /\ n \in Nat /\ \A k \in answered + 1 .. n : When(k) < t
  BY <1>1, <1>4, <1>5 DEF When
<1>7. ASSUME NEW k \in 1 .. len, k > answered, k <= n PROVE When(k) < t
  <2>1. k \in answered + 1 .. n
    BY <1>1, <1>6, <1>7
  <2> QED BY <1>6, <2>1
<1>8. ASSUME NEW now \in Nat, ReplayAt(now), now <= t, NEW k \in 1 .. len
      PROVE  IF k <= n THEN When(k) < t ELSE When(k) >= t
  <2>1. CASE k <= answered
    BY <1>1, <1>6, <1>8, <2>1 DEF ReplayAt, len
  <2>2. CASE k > answered /\ k <= n
    BY <1>7, <2>2
  <2>3. CASE k > n
    <3>1. n + 1 \in 1 .. len /\ n < len
      BY <1>1, <1>6, <2>3
    <3>2. When(n + 1) >= t
      BY <1>4, <1>5, <3>1 DEF When
    <3>3. k = n + 1 \/ When(n + 1) <= When(k)
      BY <1>6, <2>3, <3>1 DEF InOrderOfTime, len
    <3> QED BY <1>1, <1>6, <2>3, <3>1, <3>2, <3>3
  <2> QED BY <1>1, <1>6, <2>1, <2>2, <2>3
<1> QED BY <1>6, <1>7, <1>8 DEF len

-----------------------------------------------------------------------------
(* The reader of a VCD file (VcdDump) *)

VcdChanges == [id : VcdIds, at : Nat, value : Values]

\* The replay is at a time, and no change is later.
Reached(now) == ReplayAt(now) /\ \A k \in 1 .. Len(wave) : wave[k].at <= now
AnsweredRight(watched) == RowsFilled /\ RowsFollow(watched)
\* The current values are those of the last changes.
UpToDate(watched, now) == \A id \in watched : LastIs(wave, id, now, current[id])

LEMMA RightIf ==
  ASSUME SamplerTyped, IsWave(wave), NEW W, NEW now \in Nat, Reached(now), UpToDate(W, now)
  PROVE  \A n : RightFor(W, n)
<1> SUFFICES ASSUME NEW k \in 1 .. Len(query), k > answered, NEW id \in W
             PROVE  LastIs(wave, id, When(k), current[id])
  BY DEF RightFor
<1>1. When(k) >= now /\ When(k) \in Nat
  BY Positions DEF Reached, ReplayAt
<1>2. LastIs(wave, id, now, current[id])
  BY DEF UpToDate
<1> QED BY <1>1, <1>2, LastIsLater DEF Reached

VcdTyped ==
  /\ SamplerTyped /\ InOrderOfTime /\ Current(VcdWatched)
  /\ wave \in Seq(VcdChanges) /\ bad \in BOOLEAN
  /\ time \in Nat \cup {None} /\ first \in Nat \cup {None} /\ (first = None <=> time = None)
VcdReplayed ==
  /\ VcdTyped /\ AnsweredRight(VcdWatched)
  /\ outcome = "reading" => Reached(Vcd!Now)
VcdEnded ==
  /\ outcome = "failed" => bad \/ first = None
  /\ outcome = "done" =>
       /\ ~bad /\ first # None /\ answered = Len(query)
       /\ \A i \in 1 .. Len(query) : beyond[i] = Vcd!Placed(i, first, time)

Reads(tokens, waiting, inComment) == unread = tokens /\ value = waiting /\ skipping = inComment
\* The values are up to date once the change that is being read is made.
Pending(id, val) ==
  \A i \in VcdWatched : LastIs(wave, i, Vcd!Now, IF i = id /\ val \in Values THEN val ELSE current[i])
Wrong(id, val) == val = "unreadable" \/ (val = "misfit" /\ id \in VcdWatched)
End == Vcd!Word("end")
\* What is left to read of an item, and whether it is one to refuse.
VcdQuiet ==
  /\ UpToDate(VcdWatched, Vcd!Now)
  /\ \/ Reads(<<>>, None, FALSE) /\ ~bad
     \/ \E t \in 0 .. MaxTime : Reads(<<Vcd!Stamp(t)>>, None, FALSE) /\ (bad <=> t < Vcd!Now)
     \/ \E word \in Vcd!Tokens \ {End} : Reads(<<Vcd!Word("comment"), word, End>>, None, FALSE) /\ ~bad
     \/ \E word \in Vcd!Tokens \ {End} : Reads(<<word, End>>, None, TRUE) /\ ~bad
     \/ \E inComment \in BOOLEAN : Reads(<<End>>, None, inComment) /\ ~bad
     \/ Reads(<<Vcd!Word("bracket")>>, None, FALSE) /\ ~bad
     \/ Reads(<<Vcd!Word("other")>>, None, FALSE) /\ bad
VcdChanging(id, val) ==
  /\ Pending(id, val) /\ (bad <=> Wrong(id, val))
  /\ \/ Reads(<<Vcd!Scalar(val, id)>>, None, FALSE)
     \/ Reads(<<Vcd!Vector(val), Vcd!IdToken(id)>>, None, FALSE)
     \/ Reads(<<Vcd!IdToken(id)>>, val, FALSE)
\* What is left of an item the file broke off in; nothing is written after it.
VcdBroken ==
  /\ UpToDate(VcdWatched, Vcd!Now) /\ ~bad /\ items = MaxItems
  /\ \/ \E val \in Vcd!Written : Reads(<<Vcd!Vector(val)>>, None, FALSE)
     \/ \E val \in Vcd!Written : Reads(<<>>, val, FALSE)
     \/ Reads(<<Vcd!Word("comment")>>, None, FALSE)
     \/ \E word \in Vcd!Tokens \ {End} : Reads(<<Vcd!Word("comment"), word>>, None, FALSE)
     \/ \E word \in Vcd!Tokens \ {End} : Reads(<<word>>, None, TRUE)
     \/ Reads(<<>>, None, TRUE)
VcdItem == VcdQuiet \/ VcdBroken \/ \E id \in VcdIds : \E val \in Vcd!Written : VcdChanging(id, val)

VcdInv == VcdReplayed /\ VcdEnded /\ (outcome = "reading" => VcdItem)

LEMMA ShortTuples ==
  ASSUME NEW a, NEW b, NEW c
  PROVE  /\ <<a>> # <<>> /\ <<a, b>> # <<>> /\ <<a, b, c>> # <<>>
         /\ Head(<<a>>) = a /\ Head(<<a, b>>) = a /\ Head(<<a, b, c>>) = a
         /\ Tail(<<a>>) = <<>> /\ Tail(<<a, b>>) = <<b>> /\ Tail(<<a, b, c>>) = <<b, c>>
OBVIOUS

LEMMA VcdConstants ==
  /\ VcdWatched \subseteq VcdIds /\ MaxTime \in Nat /\ MaxItems \in Nat /\ VcdQueries \subseteq Seq(Asked)
  /\ None \notin Nat /\ None \notin [VcdWatched -> Values \cup {None}] /\ None \notin Vcd!Written
  /\ "misfit" \notin Values /\ "unreadable" \notin Values
BY WaveQueryAssumption DEF Vcd!VcdAssumption, Vcd!SamplerAssumption, Vcd!TimeAsked, Vcd!Written, Asked

LEMMA WaveIs ==
  ASSUME wave \in Seq(VcdChanges)
  PROVE  IsWave(wave)
<1>1. \A k \in 1 .. Len(wave) : wave[k] \in VcdChanges
  OBVIOUS
<1> QED BY <1>1 DEF IsWave, VcdChanges

LEMMA NowIs ==
  ASSUME VcdTyped
  PROVE  Vcd!Now \in Nat
BY DEF VcdTyped, Vcd!Now

\* Before anything is read, the invariant holds.
LEMMA VcdInitially == Vcd!Init => VcdInv
<1> SUFFICES ASSUME Vcd!Init PROVE VcdInv
  OBVIOUS
<1>1. Vcd!SamplerInit /\ unread = <<>> /\ value = None /\ skipping = FALSE /\ first = None /\ time = None
      /\ wave = <<>> /\ bad = FALSE
  BY DEF Vcd!Init
<1>2. /\ query \in VcdQueries /\ pending \in [DOMAIN query -> DOMAIN query] /\ Vcd!SortedBy(pending, query)
      /\ answered = 0 /\ rows = [i \in DOMAIN query |-> None] /\ current = [id \in VcdWatched |-> None] /\ outcome = "reading"
  BY <1>1 DEF Vcd!SamplerInit
<1>3. query \in Seq(Asked) /\ DOMAIN query = 1 .. Len(query) /\ Len(query) \in Nat
  BY <1>2, VcdConstants
<1>4. SamplerTyped
  BY <1>2, <1>3 DEF SamplerTyped
<1>5. InOrderOfTime
  BY <1>2, <1>3, SortedIs DEF Vcd!SortedBy
<1>6. Current(VcdWatched)
  <2>1. current \in [VcdWatched -> Values \cup {None}]
    BY <1>2
  <2> QED BY <1>2, <2>1, VcdConstants DEF Current
<1>7. VcdTyped
  <2>1. wave \in Seq(VcdChanges)
    BY <1>1
  <2>3. bad \in BOOLEAN
    BY <1>1, Zenon
  <2>2. time \in Nat \cup {None} /\ first \in Nat \cup {None} /\ (first = None <=> time = None)
    BY <1>1
  <2> QED BY <1>4, <1>5, <1>6, <2>1, <2>2, <2>3, Zenon DEF VcdTyped
<1>8. Vcd!Now = 0
  BY <1>1 DEF Vcd!Now
<1>9. Len(wave) = 0
  BY <1>1
<1>10. UpToDate(VcdWatched, 0)
  BY <1>2, <1>9 DEF UpToDate, LastIs
<1>11. AnsweredRight(VcdWatched)
  <2>1. \A k \in 1 .. Len(query) : pending[k] \in DOMAIN query /\ ~(k <= 0)
    BY <1>2, <1>3
  <2> QED BY <1>2, <2>1 DEF AnsweredRight, RowsFilled, RowsFollow, RowOf
<1>12. Reached(0)
  <2>1. \A k \in 1 .. Len(query) : When(k) \in Nat /\ ~(k <= 0)
    <3>1. \A i \in 1 .. Len(query) : query[i] \in Asked
      BY <1>3
    <3>2. \A k \in 1 .. Len(query) : pending[k] \in 1 .. Len(query)
      BY <1>2, <1>3
    <3> QED BY <1>3, <3>1, <3>2 DEF When, Asked
  <2> QED BY <1>2, <1>9, <2>1 DEF Reached, ReplayAt
<1>13. VcdItem
  BY <1>1, <1>8, <1>10 DEF VcdItem, VcdQuiet, Reads
<1> QED BY <1>2, <1>7, <1>8, <1>11, <1>12, <1>13 DEF VcdInv, VcdReplayed, VcdEnded

\* A step that leaves the sampler, the time and the wave alone.
LEMMA SameReplay ==
  ASSUME VcdReplayed, UNCHANGED <<query, pending, answered, rows, current, time, first, wave>>, bad' \in BOOLEAN,
         outcome' = "reading" => outcome = "reading"
  PROVE  /\ VcdReplayed' /\ Vcd!Now' = Vcd!Now
         /\ UpToDate(VcdWatched, Vcd!Now) => UpToDate(VcdWatched, Vcd!Now)'
         /\ \A id, val : Pending(id, val) => Pending(id, val)'
<1>1. Vcd!Now' = Vcd!Now
  BY DEF Vcd!Now
<1>2. VcdTyped'
  BY DEF VcdReplayed, VcdTyped, SamplerTyped, InOrderOfTime, Current, When
<1>3. AnsweredRight(VcdWatched)'
  BY DEF VcdReplayed, AnsweredRight, RowsFilled, RowsFollow, RowOf, When
<1>4. Reached(Vcd!Now) => Reached(Vcd!Now)'
  BY <1>1 DEF Reached, ReplayAt, When
<1> QED BY <1>1, <1>2, <1>3, <1>4 DEF VcdReplayed, UpToDate, Pending

LEMMA NothingUnread ==
  ASSUME VcdItem, unread = <<>>
  PROVE  UpToDate(VcdWatched, Vcd!Now) /\ (items < MaxItems => Reads(<<>>, None, FALSE)) /\ ~bad
<1>1. CASE VcdBroken
  <2>1. MaxItems \in Nat /\ ~(MaxItems < MaxItems)
    BY VcdConstants
  <2>2. UpToDate(VcdWatched, Vcd!Now) /\ ~bad /\ items = MaxItems
    BY <1>1, Zenon DEF VcdBroken
  <2> QED BY <2>1, <2>2, Zenon
<1>2. CASE ~VcdBroken
  BY <1>2, ShortTuples DEF VcdItem, VcdQuiet, VcdChanging, Reads
<1> QED BY <1>1, <1>2

-----------------------------------------------------------------------------
(* The simulator writes an item *)

\* What writing an item of the file changes, and what it leaves.
LEMMA WritesIs ==
  ASSUME VcdInv, NEW tokens, NEW isBad \in BOOLEAN, Vcd!Puts(tokens, isBad)
  PROVE  /\ outcome = "reading" /\ outcome' = "reading" /\ Reads(tokens, None, FALSE)' /\ bad' = isBad
         /\ UpToDate(VcdWatched, Vcd!Now) /\ bad' \in BOOLEAN
         /\ UNCHANGED <<query, pending, answered, rows, current, beyond, time, first>>
<1>1. outcome = "reading" /\ unread = <<>> /\ items < MaxItems /\ unread' = tokens /\ bad' = (bad \/ isBad)
      /\ UNCHANGED <<query, pending, answered, rows, current, beyond, outcome, value, skipping, time, first>>
  BY DEF Vcd!Puts, Vcd!samplerVars, Vcd!readerVars
<1>2. UpToDate(VcdWatched, Vcd!Now) /\ Reads(<<>>, None, FALSE) /\ ~bad
  BY <1>1, NothingUnread DEF VcdInv
<1>3. bad' = isBad
  BY <1>1, <1>2
<1> QED BY <1>1, <1>2, <1>3 DEF Reads

LEMMA QuietWrites ==
  ASSUME VcdInv, Vcd!WriteTime \/ Vcd!WriteComment \/ Vcd!WriteBracket
  PROVE  VcdInv'
<1>1. wave' = wave
  BY DEF Vcd!WriteTime, Vcd!WriteComment, Vcd!WriteBracket
<1> DEFINE Item(tokens, isBad) ==
             \/ \E t \in 0 .. MaxTime : tokens = <<Vcd!Stamp(t)>> /\ (isBad <=> t < Vcd!Now)
             \/ \E word \in Vcd!Tokens \ {End} : tokens = <<Vcd!Word("comment"), word, End>> /\ ~isBad
             \/ tokens = <<End>> /\ ~isBad
             \/ tokens = <<Vcd!Word("bracket")>> /\ ~isBad
             \/ tokens = <<Vcd!Word("other")>> /\ isBad
<1>6. \E isBad \in BOOLEAN : \E tokens : Vcd!Writes(tokens, isBad) /\ Item(tokens, isBad)
  <2>1. CASE Vcd!WriteTime
    <3>1. PICK t \in 0 .. MaxTime : Vcd!Writes(<<Vcd!Stamp(t)>>, t < Vcd!Now)
      BY <2>1 DEF Vcd!WriteTime, Vcd!Times
    <3> DEFINE tokens == <<Vcd!Stamp(t)>>
    <3>2. CASE t < Vcd!Now
      <4>1. Vcd!Writes(tokens, TRUE)
        BY <3>1, <3>2 DEF Vcd!Writes, Vcd!Puts
      <4>2. Item(tokens, TRUE)
        BY <3>2
      <4> HIDE DEF Item, tokens
      <4> QED BY <4>1, <4>2, Zenon
    <3>3. CASE ~(t < Vcd!Now)
      <4>1. Vcd!Writes(tokens, FALSE)
        BY <3>1, <3>3 DEF Vcd!Writes, Vcd!Puts
      <4>2. Item(tokens, FALSE)
        BY <3>3
      <4> HIDE DEF Item, tokens
      <4> QED BY <4>1, <4>2, Zenon
    <3> QED BY <3>2, <3>3
  <2>2. CASE Vcd!WriteComment
    <3>1. PICK word \in Vcd!Tokens \ {End} : Vcd!Writes(<<Vcd!Word("comment"), word, End>>, FALSE)
      BY <2>2 DEF Vcd!WriteComment, End
    <3>2. Item(<<Vcd!Word("comment"), word, End>>, FALSE)
      OBVIOUS
    <3> HIDE DEF Item
    <3> QED BY <3>1, <3>2, Zenon
  <2>3. CASE Vcd!WriteBracket
    <3>1. \/ Vcd!Writes(<<Vcd!Word("bracket")>>, FALSE)
          \/ Vcd!Writes(<<End>>, FALSE)
          \/ Vcd!Writes(<<Vcd!Word("other")>>, TRUE)
      BY <2>3 DEF Vcd!WriteBracket, End
    <3>2. Item(<<Vcd!Word("bracket")>>, FALSE) /\ Item(<<End>>, FALSE) /\ Item(<<Vcd!Word("other")>>, TRUE)
      OBVIOUS
    <3> HIDE DEF Item
    <3> QED BY <3>1, <3>2, Zenon
  <2> QED BY <2>1, <2>2, <2>3
<1>7. PICK isBad \in BOOLEAN : \E tokens : Vcd!Writes(tokens, isBad) /\ Item(tokens, isBad)
  BY <1>6
<1>2. PICK tokens : Vcd!Writes(tokens, isBad) /\ Item(tokens, isBad)
  BY <1>7
<1>3. /\ outcome = "reading" /\ outcome' = "reading" /\ Reads(tokens, None, FALSE)' /\ bad' = isBad
      /\ UpToDate(VcdWatched, Vcd!Now) /\ bad' \in BOOLEAN
      /\ UNCHANGED <<query, pending, answered, rows, current, beyond, time, first>>
  BY <1>2, WritesIs DEF Vcd!Writes
<1>4. VcdReplayed' /\ Vcd!Now' = Vcd!Now /\ UpToDate(VcdWatched, Vcd!Now)'
  BY <1>1, <1>3, SameReplay DEF VcdInv
<1>5. VcdQuiet'
  BY <1>2, <1>3, <1>4 DEF VcdQuiet, Reads
<1> QED BY <1>3, <1>4, <1>5 DEF VcdInv, VcdEnded, VcdItem

\* The file breaks off inside an item.
LEMMA BreakOffKeeps ==
  ASSUME VcdInv, Vcd!BreakOff
  PROVE  VcdInv'
<1> DEFINE Item(tokens) ==
             \/ \E val \in Vcd!Written : tokens = <<Vcd!Vector(val)>>
             \/ tokens = <<Vcd!Word("comment")>>
             \/ \E word \in Vcd!Tokens \ {End} : tokens = <<Vcd!Word("comment"), word>>
<1>1. wave' = wave /\ items' = MaxItems
  BY DEF Vcd!BreakOff
<1>2. PICK tokens : Vcd!Puts(tokens, FALSE) /\ Item(tokens)
  <2>1. CASE \E val \in Vcd!Written : Vcd!Puts(<<Vcd!Vector(val)>>, FALSE)
    <3>1. PICK val \in Vcd!Written : Vcd!Puts(<<Vcd!Vector(val)>>, FALSE)
      BY <2>1
    <3>2. Item(<<Vcd!Vector(val)>>)
      OBVIOUS
    <3> HIDE DEF Item
    <3> QED BY <3>1, <3>2, Zenon
  <2>2. CASE Vcd!Puts(<<Vcd!Word("comment")>>, FALSE)
    <3>1. Item(<<Vcd!Word("comment")>>)
      OBVIOUS
    <3> HIDE DEF Item
    <3> QED BY <2>2, <3>1, Zenon
  <2>3. CASE \E word \in Vcd!Tokens \ {End} : Vcd!Puts(<<Vcd!Word("comment"), word>>, FALSE)
    <3>1. PICK word \in Vcd!Tokens \ {End} : Vcd!Puts(<<Vcd!Word("comment"), word>>, FALSE)
      BY <2>3
    <3>2. Item(<<Vcd!Word("comment"), word>>)
      OBVIOUS
    <3> HIDE DEF Item
    <3> QED BY <3>1, <3>2, Zenon
  <2> HIDE DEF Item
  <2> QED BY <2>1, <2>2, <2>3, Zenon DEF Vcd!BreakOff, End
<1>3. /\ outcome = "reading" /\ outcome' = "reading" /\ Reads(tokens, None, FALSE)' /\ ~bad'
      /\ bad' \in BOOLEAN /\ UpToDate(VcdWatched, Vcd!Now)
      /\ UNCHANGED <<query, pending, answered, rows, current, beyond, time, first>>
  BY <1>2, WritesIs
<1>4. VcdReplayed' /\ Vcd!Now' = Vcd!Now /\ UpToDate(VcdWatched, Vcd!Now)'
  BY <1>1, <1>3, SameReplay DEF VcdInv
<1>5. VcdBroken'
  BY <1>1, <1>2, <1>3, <1>4 DEF VcdBroken, Reads
<1> QED BY <1>3, <1>4, <1>5 DEF VcdInv, VcdEnded, VcdItem

LEMMA ChangeWrites ==
  ASSUME VcdInv, Vcd!WriteChange
  PROVE  VcdInv'
<1> DEFINE entry(id, val) == [id |-> id, at |-> Vcd!Now, value |-> val]
           Item(tokens, id, val) ==
             tokens = <<Vcd!Scalar(val, id)>> \/ tokens = <<Vcd!Vector(val), Vcd!IdToken(id)>>
<1>1. PICK id \in VcdIds, val \in Vcd!Written :
        /\ \/ Vcd!Writes(<<Vcd!Scalar(val, id)>>, Wrong(id, val))
           \/ Vcd!Writes(<<Vcd!Vector(val), Vcd!IdToken(id)>>, Wrong(id, val))
        /\ wave' = IF val \in Values THEN Append(wave, entry(id, val)) ELSE wave
  BY DEF Vcd!WriteChange, Wrong
<1>2. PICK tokens : Vcd!Writes(tokens, Wrong(id, val)) /\ Item(tokens, id, val)
  <2>1. Item(<<Vcd!Scalar(val, id)>>, id, val) /\ Item(<<Vcd!Vector(val), Vcd!IdToken(id)>>, id, val)
    OBVIOUS
  <2> HIDE DEF Item
  <2> QED BY <1>1, <2>1
<1>3. PICK isBad \in BOOLEAN : Vcd!Writes(tokens, isBad) /\ (isBad <=> Wrong(id, val))
  <2>1. CASE Wrong(id, val)
    <3>1. Vcd!Writes(tokens, TRUE)
      BY <1>2, <2>1 DEF Vcd!Writes, Vcd!Puts
    <3> QED BY <2>1, <3>1
  <2>2. CASE ~Wrong(id, val)
    <3>1. Vcd!Writes(tokens, FALSE)
      BY <1>2, <2>2 DEF Vcd!Writes, Vcd!Puts
    <3> QED BY <2>2, <3>1
  <2> QED BY <2>1, <2>2
<1>4. /\ outcome = "reading" /\ outcome' = "reading" /\ Reads(tokens, None, FALSE)' /\ bad' = isBad
      /\ UpToDate(VcdWatched, Vcd!Now) /\ bad' \in BOOLEAN
      /\ UNCHANGED <<query, pending, answered, rows, current, beyond, time, first>>
  BY <1>3, WritesIs DEF Vcd!Writes
<1>5. VcdReplayed' /\ Vcd!Now' = Vcd!Now /\ Pending(id, val)'
  <2>1. CASE val \notin Values
    <3>1. wave' = wave
      BY <1>1, <2>1
    <3>2. Pending(id, val)
      BY <1>4, <2>1 DEF Pending, UpToDate
    <3> QED BY <1>4, <3>1, <3>2, SameReplay DEF VcdInv
  <2>2. CASE val \in Values
    <3> DEFINE e == entry(id, val)
               now == Vcd!Now
    <3>1. VcdTyped /\ AnsweredRight(VcdWatched) /\ Reached(now)
      BY <1>4 DEF VcdInv, VcdReplayed
    <3>2. now \in Nat /\ IsWave(wave) /\ wave \in Seq(VcdChanges)
      BY <3>1, NowIs, WaveIs DEF VcdTyped
    <3>3. e \in VcdChanges /\ e.at = now /\ e.id = id /\ e.value = val /\ wave' = Append(wave, e)
      BY <1>1, <2>2, <3>2 DEF VcdChanges
    <3>4. now' = now
      BY <1>4 DEF Vcd!Now
    <3> HIDE DEF e, now
    <3>5. \A k \in 1 .. Len(query) : When(k) \in Nat /\ When(k)' = When(k) /\ RowOf(k)' = RowOf(k)
      <4>1. query \in Seq(Asked) /\ \A k \in 1 .. Len(query) : pending[k] \in 1 .. Len(query)
        BY <3>1 DEF VcdTyped, SamplerTyped
      <4>2. \A i \in 1 .. Len(query) : query[i] \in Asked
        BY <4>1
      <4>3. \A i \in 1 .. Len(query) : query[i].ticks \in Nat
        BY <4>2 DEF Asked
      <4> QED BY <1>4, <4>1, <4>3 DEF When, RowOf
    <3>6. IsWave(wave') /\ wave' \in Seq(VcdChanges)
      BY <3>2, <3>3, LastIsAppend
    <3>7. \A k \in 1 .. Len(wave') : wave'[k].at <= now
      <4>1. Len(wave') = Len(wave) + 1 /\ wave'[Len(wave) + 1] = e /\ (\A k \in 1 .. Len(wave) : wave'[k] = wave[k])
            /\ Len(wave) \in Nat
        BY <3>2, <3>3, AppendProperties
      <4>2. \A k \in 1 .. Len(wave) + 1 : k \in 1 .. Len(wave) \/ k = Len(wave) + 1
        BY <4>1
      <4> QED BY <3>1, <3>2, <3>3, <4>1, <4>2 DEF Reached, ReplayAt
    <3>8. Reached(now)'
      BY <1>4, <3>1, <3>4, <3>5, <3>7 DEF Reached, ReplayAt
    <3>9. AnsweredRight(VcdWatched)'
      <4>1. ASSUME NEW k \in 1 .. Len(query), k <= answered, NEW i \in VcdWatched
            PROVE  LastIs(wave', i, When(k), RowOf(k)[i])
        <5>1. LastIs(wave, i, When(k), RowOf(k)[i]) /\ When(k) < now /\ When(k) \in Nat
          BY <3>1, <3>5, <4>1 DEF AnsweredRight, RowsFilled, RowsFollow, Reached, ReplayAt
        <5> QED BY <3>2, <3>3, <5>1, LastIsAppend
      <4> QED BY <1>4, <3>1, <3>5, <4>1 DEF AnsweredRight, RowsFilled, RowsFollow
    <3>10. ASSUME NEW i \in VcdWatched PROVE LastIs(wave', i, now, IF i = id /\ val \in Values THEN val ELSE current[i])
      <4>1. now <= now
        BY <3>2
      <4>2. CASE i = id
        <5>1. LastIs(wave', i, now, e.value)
          BY <3>2, <3>3, <4>1, <4>2, LastIsAppend
        <5> QED BY <2>2, <3>3, <4>2, <5>1
      <4>3. CASE i # id
        <5>1. LastIs(wave, i, now, current[i])
          BY <1>4 DEF UpToDate, now
        <5> QED BY <3>2, <3>3, <4>3, <5>1, LastIsAppend
      <4> QED BY <4>2, <4>3
    <3>11. Pending(id, val)'
      BY <1>4, <3>4, <3>10 DEF Pending, now
    <3>12. VcdTyped'
      BY <1>4, <3>1, <3>6 DEF VcdTyped, SamplerTyped, InOrderOfTime, Current, When
    <3> QED BY <3>4, <3>8, <3>9, <3>11, <3>12 DEF VcdReplayed, now
  <2> QED BY <2>1, <2>2
<1>6. VcdChanging(id, val)'
  <2>1. bad' <=> Wrong(id, val)
    BY <1>3, <1>4
  <2>2. Wrong(id, val)' <=> Wrong(id, val)
    BY DEF Wrong
  <2> QED BY <1>2, <1>4, <1>5, <2>1, <2>2 DEF VcdChanging, Reads
<1>7. VcdItem'
  BY <1>6 DEF VcdItem
<1> QED BY <1>4, <1>5, <1>7 DEF VcdInv, VcdEnded

-----------------------------------------------------------------------------
(* The reader reads a token *)

LEMMA CommentRead ==
  ASSUME Vcd!Read, NEW s, NEW w, Reads(s, w, TRUE)
  PROVE  /\ UNCHANGED <<query, pending, answered, rows, current, beyond, outcome, time, first, wave, bad>>
         /\ Head(s).kind # "end" => Reads(Tail(s), w, TRUE)'
         /\ Head(s).kind = "end" => Reads(Tail(s), w, FALSE)'
<1>1. skipping = TRUE /\ unread = s /\ value = w /\ unread' = Tail(s) /\ UNCHANGED <<wave, bad>>
  BY DEF Vcd!Read, Reads
<1>2. Vcd!Skip(Head(s))
  BY <1>1 DEF Vcd!Read, Vcd!ReadId, Vcd!ReadTime, Vcd!ReadSection, Vcd!ReadValue, Vcd!Placeable
<1>3. UNCHANGED <<query, pending, answered, rows, current, beyond, outcome, time, first, value>>
      /\ skipping' = (Head(s).kind # "end")
  BY <1>2 DEF Vcd!Skip, Vcd!samplerVars
<1> QED BY <1>1, <1>3 DEF Reads

LEMMA IdRead ==
  ASSUME Vcd!Read, NEW s, NEW w, w # None, Reads(s, w, FALSE)
  PROVE  Vcd!Change(w, Head(s).id) /\ Reads(Tail(s), None, FALSE)' /\ UNCHANGED <<time, first, wave, bad>>
<1>1. skipping = FALSE /\ unread = s /\ value = w /\ unread' = Tail(s) /\ UNCHANGED <<wave, bad>>
  BY DEF Vcd!Read, Reads
<1>2. Vcd!ReadId(Head(s))
  BY <1>1 DEF Vcd!Read, Vcd!Skip, Vcd!ReadTime, Vcd!ReadSection, Vcd!ReadValue, Vcd!Placeable
<1> QED BY <1>1, <1>2 DEF Reads, Vcd!ReadId

LEMMA PlainRead ==
  ASSUME Vcd!Read, NEW s, Reads(s, None, FALSE)
  PROVE  /\ UNCHANGED <<wave, bad>> /\ unread' = Tail(s)
         /\ Vcd!ReadTime(Head(s)) \/ Vcd!ReadSection(Head(s)) \/ Vcd!ReadValue(Head(s))
BY DEF Vcd!Read, Reads, Vcd!Skip, Vcd!ReadId

LEMMA SectionRead ==
  ASSUME Vcd!Read, NEW s, Reads(s, None, FALSE), Head(s).kind \in {"comment", "bracket", "end"}
  PROVE  /\ UNCHANGED <<query, pending, answered, rows, current, beyond, outcome, time, first, wave, bad>>
         /\ Head(s).kind = "comment" => Reads(Tail(s), None, TRUE)'
         /\ Head(s).kind # "comment" => Reads(Tail(s), None, FALSE)'
<1> DEFINE token == Head(s)
<1>1. /\ UNCHANGED <<wave, bad>> /\ unread' = Tail(s)
      /\ Vcd!ReadTime(token) \/ Vcd!ReadSection(token) \/ Vcd!ReadValue(token)
  BY PlainRead
<1> HIDE DEF token
<1>2. token.kind \in {"comment", "bracket", "end"}
  BY DEF token
<1>3. ~Vcd!ReadTime(token) /\ ~Vcd!ReadValue(token)
  BY <1>2 DEF Vcd!ReadTime, Vcd!ReadValue
<1>4. /\ skipping' = (token.kind = "comment")
      /\ UNCHANGED <<query, pending, answered, rows, current, beyond, outcome, time, first, value>>
  BY <1>1, <1>3 DEF Vcd!ReadSection, Vcd!samplerVars
<1>5. value = None
  BY DEF Reads
<1> QED BY <1>1, <1>4, <1>5 DEF Reads, token

LEMMA ValueRead ==
  ASSUME Vcd!Read, NEW s, Reads(s, None, FALSE), Head(s).kind \in {"vector", "scalar", "other"}
  PROVE  /\ UNCHANGED <<time, first, wave, bad>>
         /\ Head(s).kind = "vector" =>
              /\ Reads(Tail(s), Head(s).value, FALSE)'
              /\ UNCHANGED <<query, pending, answered, rows, current, beyond, outcome>>
         /\ Head(s).kind = "scalar" => Vcd!Change(Head(s).value, Head(s).id) /\ Reads(Tail(s), None, FALSE)'
         /\ Head(s).kind = "other" => Vcd!Fails
<1> DEFINE token == Head(s)
<1>1. /\ UNCHANGED <<wave, bad>> /\ unread' = Tail(s)
      /\ Vcd!ReadTime(token) \/ Vcd!ReadSection(token) \/ Vcd!ReadValue(token)
  BY PlainRead
<1> HIDE DEF token
<1>2. token.kind \in {"vector", "scalar", "other"}
  BY DEF token
<1>3. Vcd!ReadValue(token)
  BY <1>1, <1>2 DEF Vcd!ReadTime, Vcd!ReadSection
<1>4. value = None /\ skipping = FALSE
  BY DEF Reads
<1>5. /\ UNCHANGED <<skipping, time, first>>
      /\ token.kind = "vector" => value' = token.value /\ UNCHANGED Vcd!samplerVars
      /\ token.kind = "scalar" => Vcd!Change(token.value, token.id) /\ UNCHANGED value
      /\ token.kind = "other" => Vcd!Fails
  BY <1>2, <1>3 DEF Vcd!ReadValue
<1> QED BY <1>1, <1>4, <1>5 DEF Reads, token, Vcd!samplerVars

LEMMA TimeRead ==
  ASSUME Vcd!Read, NEW s, Reads(s, None, FALSE), Head(s).kind = "time"
  PROVE  Vcd!ReadTime(Head(s)) /\ Reads(Tail(s), None, FALSE)' /\ UNCHANGED <<wave, bad>>
<1> DEFINE token == Head(s)
<1>1. /\ UNCHANGED <<wave, bad>> /\ unread' = Tail(s)
      /\ Vcd!ReadTime(token) \/ Vcd!ReadSection(token) \/ Vcd!ReadValue(token)
  BY PlainRead
<1> HIDE DEF token
<1>2. token.kind = "time"
  BY DEF token
<1>3. ~Vcd!ReadSection(token) /\ ~Vcd!ReadValue(token)
  BY <1>2 DEF Vcd!ReadSection, Vcd!ReadValue
<1>4. Vcd!ReadTime(token) /\ UNCHANGED <<skipping, value>>
  BY <1>1, <1>3 DEF Vcd!ReadTime
<1>5. value = None /\ skipping = FALSE
  BY DEF Reads
<1> QED BY <1>1, <1>4, <1>5 DEF Reads, token

\* A reader that fails keeps what it has, and is right to.
LEMMA FailsRight ==
  ASSUME VcdInv, outcome = "reading", Vcd!Fails, UNCHANGED <<time, first, wave, bad>>, bad \/ first = None
  PROVE  VcdInv'
<1>1. outcome' = "failed" /\ UNCHANGED <<query, pending, answered, rows, current, beyond>>
  BY DEF Vcd!Fails
<1>2. bad \in BOOLEAN
  BY DEF VcdInv, VcdReplayed, VcdTyped
<1>3. VcdReplayed'
  BY <1>1, <1>2, SameReplay DEF VcdInv
<1> QED BY <1>1, <1>3 DEF VcdInv, VcdEnded

LEMMA ChangeRight ==
  ASSUME VcdInv, outcome = "reading", NEW id \in VcdIds, NEW val \in Vcd!Written, Vcd!Change(val, id),
         Pending(id, val), bad <=> Wrong(id, val), Reads(<<>>, None, FALSE)', UNCHANGED <<time, first, wave, bad>>
  PROVE  VcdInv'
<1>1. Vcd!Fits(val, id) <=> ~Wrong(id, val)
  BY VcdConstants DEF Vcd!Fits, Wrong, Vcd!Written
<1>2. CASE Wrong(id, val)
  <2>1. Vcd!Fails
    BY <1>1, <1>2 DEF Vcd!Change
  <2> QED BY <1>2, <2>1, FailsRight
<1>3. CASE ~Wrong(id, val)
  <2>1. current' = Vcd!SetTo(id, val) /\ UNCHANGED <<query, pending, answered, rows, beyond, outcome>>
    BY <1>1, <1>3 DEF Vcd!Change
  <2>2. id \in VcdWatched => val \in Values
    BY <1>1, <1>3 DEF Vcd!Fits
  <2>3. /\ VcdTyped /\ AnsweredRight(VcdWatched) /\ Reached(Vcd!Now)
        /\ current \in [VcdWatched -> Values \cup {None}]
    BY DEF VcdInv, VcdReplayed, VcdTyped, Current
  <2>4. /\ current' \in [VcdWatched -> Values \cup {None}]
        /\ \A i \in VcdWatched : current'[i] = IF i = id /\ val \in Values THEN val ELSE current[i]
    BY <2>1, <2>2, <2>3 DEF Vcd!SetTo
  <2>5. Current(VcdWatched)'
    BY <2>4, VcdConstants DEF Current
  <2>6. Vcd!Now' = Vcd!Now
    BY DEF Vcd!Now
  <2>7. UpToDate(VcdWatched, Vcd!Now)'
    BY <2>4, <2>6 DEF UpToDate, Pending
  <2>8. VcdTyped'
    BY <2>1, <2>3, <2>5 DEF VcdTyped, SamplerTyped, InOrderOfTime, When
  <2>9. AnsweredRight(VcdWatched)' /\ Reached(Vcd!Now)'
    BY <2>1, <2>3, <2>6 DEF AnsweredRight, RowsFilled, RowsFollow, Reached, ReplayAt, When, RowOf
  <2>10. ~bad'
    BY <1>3
  <2>11. VcdQuiet'
    BY <2>7, <2>10 DEF VcdQuiet
  <2> QED BY <2>1, <2>8, <2>9, <2>11 DEF VcdInv, VcdReplayed, VcdEnded, VcdItem
<1> QED BY <1>2, <1>3

LEMMA StampRead ==
  ASSUME VcdInv, Vcd!Read, UpToDate(VcdWatched, Vcd!Now),
         NEW t \in 0 .. MaxTime, Reads(<<Vcd!Stamp(t)>>, None, FALSE), bad <=> t < Vcd!Now
  PROVE  VcdInv'
<1> DEFINE token == Vcd!Stamp(t)
           now == Vcd!Now
<1>1. Head(<<token>>) = token /\ Tail(<<token>>) = <<>> /\ token.kind = "time" /\ token.at = t
  BY DEF Vcd!Stamp, Vcd!Token
<1>2. Vcd!ReadTime(token) /\ Reads(<<>>, None, FALSE)' /\ UNCHANGED <<wave, bad>>
  BY <1>1, TimeRead
<1>3. /\ outcome = "reading" /\ VcdTyped /\ AnsweredRight(VcdWatched) /\ Reached(now)
      /\ SamplerTyped /\ InOrderOfTime /\ Current(VcdWatched) /\ bad \in BOOLEAN /\ IsWave(wave)
      /\ time \in Nat \cup {None} /\ first \in Nat \cup {None} /\ (first = None <=> time = None)
      /\ wave \in Seq(VcdChanges)
  BY WaveIs DEF Vcd!Read, VcdInv, VcdReplayed, VcdTyped
<1>4. t \in Nat /\ MaxTime \in Nat /\ now \in Nat /\ now = IF time = None THEN 0 ELSE time
  BY <1>3, VcdConstants, NowIs DEF Vcd!Now
<1> HIDE DEF token
<1>5. CASE time # None /\ t < time
  <2>1. Vcd!Fails /\ UNCHANGED <<first, time>>
    BY <1>1, <1>2, <1>5 DEF Vcd!ReadTime
  <2>2. bad
    BY <1>4, <1>5
  <2> QED BY <1>2, <1>3, <2>1, <2>2, FailsRight
<1>6. CASE ~(time # None /\ t < time)
  <2>1. /\ Vcd!Advance(t) /\ first' = (IF first = None THEN t ELSE first) /\ time' = t
        /\ UNCHANGED <<query, pending, current, beyond, outcome>>
    BY <1>1, <1>2, <1>6 DEF Vcd!ReadTime
  <2>2. now <= t /\ ~bad
    BY <1>3, <1>4, <1>6
  <2>3. PICK n : n = Vcd!Passed(t)
    OBVIOUS
  <2>4. answered' = n /\ rows' = Vcd!RecordedTo(n)
    BY <2>1, <2>3 DEF Vcd!Advance
  <2>5. Records(n)
    BY <2>1, <2>4 DEF Vcd!RecordedTo, Records
  <2>6. PassedIs(t, n)
    BY <2>3 DEF Vcd!Passed, PassedIs
  <2> HIDE DEF now
  <2>7. UpToDate(VcdWatched, now)
    BY DEF now
  <2>8. SamplerTyped' /\ InOrderOfTime' /\ Reached(t)' /\ AnsweredRight(VcdWatched)'
    <3>1. /\ n \in answered .. Len(query)
          /\ \A k \in 1 .. Len(query) : IF k <= n THEN When(k) < t ELSE When(k) >= t
      BY <1>3, <1>4, <2>2, <2>6, PassedRight DEF Reached
    <3>2. RightFor(VcdWatched, n)
      BY <1>3, <1>4, <2>7, RightIf
    <3>3. SamplerTyped' /\ InOrderOfTime' /\ RowsFilled' /\ RowsFollow(VcdWatched)'
      BY <1>2, <1>3, <2>5, <3>1, <3>2, RecordRight DEF AnsweredRight
    <3>4. ReplayAt(t)'
      BY <2>5, <3>1 DEF ReplayAt, Records, When
    <3>5. \A k \in 1 .. Len(wave) : wave[k].at <= t
      BY <1>3, <1>4, <2>2 DEF Reached, IsWave
    <3> QED BY <1>2, <3>3, <3>4, <3>5 DEF Reached, AnsweredRight
  <2>9. t # None
    BY <1>4, VcdConstants
  <2>10. Vcd!Now' = t
    BY <2>1, <2>9 DEF Vcd!Now
  <2>11. Reached(Vcd!Now)'
    BY <2>8, <2>10 DEF Reached, ReplayAt, When
  <2>12. UpToDate(VcdWatched, Vcd!Now)'
    <3>1. \A id \in VcdWatched : LastIs(wave, id, t, current[id])
      BY <1>3, <1>4, <2>2, <2>7, LastIsLater DEF Reached, ReplayAt, UpToDate
    <3> QED BY <1>2, <2>1, <2>10, <3>1 DEF UpToDate
  <2>13. VcdTyped'
    <3>1. Current(VcdWatched)'
      BY <1>3, <2>1 DEF Current
    <3>2. time' \in Nat \cup {None} /\ first' \in Nat \cup {None} /\ first' # None /\ time' # None
      BY <1>3, <1>4, <2>1, <2>9
    <3>3. wave' \in Seq(VcdChanges) /\ bad' \in BOOLEAN
      BY <1>2, <1>3
    <3> QED BY <2>8, <3>1, <3>2, <3>3 DEF VcdTyped
  <2>14. VcdQuiet'
    BY <1>2, <2>2, <2>12 DEF VcdQuiet
  <2> QED BY <1>3, <2>1, <2>8, <2>11, <2>13, <2>14 DEF VcdInv, VcdReplayed, VcdEnded, VcdItem
<1> QED BY <1>5, <1>6

\* A token that changes neither the sampler nor the time.
LEMMA QuietAfter ==
  ASSUME VcdInv, outcome = "reading", UpToDate(VcdWatched, Vcd!Now), ~bad,
         UNCHANGED <<query, pending, answered, rows, current, beyond, outcome, time, first, wave, bad>>,
         UpToDate(VcdWatched, Vcd!Now)' /\ ~bad' => VcdQuiet' \/ VcdBroken'
  PROVE  VcdInv'
<1>1. bad \in BOOLEAN
  BY DEF VcdInv, VcdReplayed, VcdTyped
<1>2. VcdReplayed' /\ UpToDate(VcdWatched, Vcd!Now)'
  BY <1>1, SameReplay DEF VcdInv
<1> QED BY <1>2 DEF VcdInv, VcdEnded, VcdItem

\* Reading a token of an item that makes no change.
LEMMA QuietRead ==
  ASSUME VcdInv, Vcd!Read, VcdQuiet
  PROVE  VcdInv'
<1>1. outcome = "reading" /\ unread # <<>> /\ UpToDate(VcdWatched, Vcd!Now)
  BY DEF Vcd!Read, VcdQuiet
<1>2. /\ Vcd!Word("comment").kind = "comment" /\ End.kind = "end" /\ Vcd!Word("bracket").kind = "bracket"
      /\ Vcd!Word("other").kind = "other"
  BY DEF End, Vcd!Word, Vcd!Token
<1>3. ASSUME NEW t \in 0 .. MaxTime, Reads(<<Vcd!Stamp(t)>>, None, FALSE), bad <=> t < Vcd!Now PROVE VcdInv'
  BY <1>1, <1>3, StampRead
<1>4. ASSUME NEW word \in Vcd!Tokens \ {End}, Reads(<<Vcd!Word("comment"), word, End>>, None, FALSE), ~bad
      PROVE  VcdInv'
  <2>1. Head(<<Vcd!Word("comment"), word, End>>).kind = "comment"
        /\ Tail(<<Vcd!Word("comment"), word, End>>) = <<word, End>>
    BY <1>2, ShortTuples
  <2>2. /\ UNCHANGED <<query, pending, answered, rows, current, beyond, outcome, time, first, wave, bad>>
        /\ Reads(<<word, End>>, None, TRUE)'
    BY <1>4, <2>1, SectionRead
  <2>3. UpToDate(VcdWatched, Vcd!Now)' /\ ~bad' => VcdQuiet'
    BY <2>2 DEF VcdQuiet, Reads
  <2> QED BY <1>1, <1>4, <2>2, <2>3, QuietAfter
<1>5. ASSUME NEW word \in Vcd!Tokens \ {End}, Reads(<<word, End>>, None, TRUE), ~bad
      PROVE  VcdInv'
  <2>1. word.kind # "end"
    BY DEF Vcd!Tokens, Vcd!Stamp, Vcd!IdToken, Vcd!Word, Vcd!Scalar, Vcd!Vector, Vcd!Token, End
  <2>2. Head(<<word, End>>) = word /\ Tail(<<word, End>>) = <<End>>
    BY ShortTuples
  <2>3. /\ UNCHANGED <<query, pending, answered, rows, current, beyond, outcome, time, first, wave, bad>>
        /\ Reads(<<End>>, None, TRUE)'
    BY <1>5, <2>1, <2>2, CommentRead
  <2>4. UpToDate(VcdWatched, Vcd!Now)' /\ ~bad' => VcdQuiet'
    BY <2>3 DEF VcdQuiet, Reads
  <2> QED BY <1>1, <1>5, <2>3, <2>4, QuietAfter
<1>6. ASSUME NEW inComment \in BOOLEAN, Reads(<<End>>, None, inComment), ~bad
      PROVE  VcdInv'
  <2>1. Head(<<End>>) = End /\ Tail(<<End>>) = <<>>
    BY ShortTuples
  <2>2. /\ UNCHANGED <<query, pending, answered, rows, current, beyond, outcome, time, first, wave, bad>>
        /\ Reads(<<>>, None, FALSE)'
    <3>1. CASE inComment = TRUE
      BY <1>2, <1>6, <2>1, <3>1, CommentRead
    <3>2. CASE inComment = FALSE
      BY <1>2, <1>6, <2>1, <3>2, SectionRead
    <3> QED BY <3>1, <3>2
  <2>3. UpToDate(VcdWatched, Vcd!Now)' /\ ~bad' => VcdQuiet'
    BY <2>2 DEF VcdQuiet, Reads
  <2> QED BY <1>1, <1>6, <2>2, <2>3, QuietAfter
<1>7. ASSUME Reads(<<Vcd!Word("bracket")>>, None, FALSE), ~bad
      PROVE  VcdInv'
  <2>1. Head(<<Vcd!Word("bracket")>>).kind = "bracket" /\ Tail(<<Vcd!Word("bracket")>>) = <<>>
    BY <1>2, ShortTuples
  <2>2. /\ UNCHANGED <<query, pending, answered, rows, current, beyond, outcome, time, first, wave, bad>>
        /\ Reads(<<>>, None, FALSE)'
    BY <1>7, <2>1, SectionRead
  <2>3. UpToDate(VcdWatched, Vcd!Now)' /\ ~bad' => VcdQuiet'
    BY <2>2 DEF VcdQuiet, Reads
  <2> QED BY <1>1, <1>7, <2>2, <2>3, QuietAfter
<1>8. ASSUME Reads(<<Vcd!Word("other")>>, None, FALSE), bad
      PROVE  VcdInv'
  <2>1. Head(<<Vcd!Word("other")>>).kind = "other"
    BY <1>2, ShortTuples
  <2>2. Vcd!Fails /\ UNCHANGED <<time, first, wave, bad>>
    BY <1>8, <2>1, ValueRead
  <2> QED BY <1>1, <1>8, <2>2, FailsRight
<1>9. ~Reads(<<>>, None, FALSE)
  BY <1>1 DEF Reads
<1> QED BY <1>3, <1>4, <1>5, <1>6, <1>7, <1>8, <1>9 DEF VcdQuiet

\* Reading a token of an item the file broke off in.
LEMMA BrokenRead ==
  ASSUME VcdInv, Vcd!Read, VcdBroken
  PROVE  VcdInv'
<1>1. outcome = "reading" /\ unread # <<>> /\ UpToDate(VcdWatched, Vcd!Now) /\ ~bad /\ items' = MaxItems
  BY DEF Vcd!Read, VcdBroken
<1>2. Vcd!Word("comment").kind = "comment" /\ \A val : Vcd!Vector(val).kind = "vector" /\ Vcd!Vector(val).value = val
  BY DEF Vcd!Word, Vcd!Vector, Vcd!Token
<1>3. ASSUME NEW val \in Vcd!Written, Reads(<<Vcd!Vector(val)>>, None, FALSE)
      PROVE  VcdInv'
  <2>1. Head(<<Vcd!Vector(val)>>) = Vcd!Vector(val) /\ Tail(<<Vcd!Vector(val)>>) = <<>>
    BY ShortTuples
  <2>2. /\ UNCHANGED <<time, first, wave, bad>> /\ Reads(<<>>, val, FALSE)'
        /\ UNCHANGED <<query, pending, answered, rows, current, beyond, outcome>>
    BY <1>2, <1>3, <2>1, ValueRead
  <2>3. UpToDate(VcdWatched, Vcd!Now)' /\ ~bad' => VcdBroken'
    BY <1>1, <2>2 DEF VcdBroken, Reads
  <2> QED BY <1>1, <2>2, <2>3, QuietAfter
<1>4. ASSUME Reads(<<Vcd!Word("comment")>>, None, FALSE)
      PROVE  VcdInv'
  <2>1. Head(<<Vcd!Word("comment")>>).kind = "comment" /\ Tail(<<Vcd!Word("comment")>>) = <<>>
    BY <1>2, ShortTuples
  <2>2. /\ UNCHANGED <<query, pending, answered, rows, current, beyond, outcome, time, first, wave, bad>>
        /\ Reads(<<>>, None, TRUE)'
    BY <1>4, <2>1, SectionRead
  <2>3. UpToDate(VcdWatched, Vcd!Now)' /\ ~bad' => VcdBroken'
    BY <1>1, <2>2 DEF VcdBroken, Reads
  <2> QED BY <1>1, <2>2, <2>3, QuietAfter
<1>5. ASSUME NEW word \in Vcd!Tokens \ {End}, Reads(<<Vcd!Word("comment"), word>>, None, FALSE)
      PROVE  VcdInv'
  <2>1. Head(<<Vcd!Word("comment"), word>>).kind = "comment" /\ Tail(<<Vcd!Word("comment"), word>>) = <<word>>
    BY <1>2, ShortTuples
  <2>2. /\ UNCHANGED <<query, pending, answered, rows, current, beyond, outcome, time, first, wave, bad>>
        /\ Reads(<<word>>, None, TRUE)'
    BY <1>5, <2>1, SectionRead
  <2>3. UpToDate(VcdWatched, Vcd!Now)' /\ ~bad' => VcdBroken'
    BY <1>1, <2>2 DEF VcdBroken, Reads
  <2> QED BY <1>1, <2>2, <2>3, QuietAfter
<1>6. ASSUME NEW word \in Vcd!Tokens \ {End}, Reads(<<word>>, None, TRUE)
      PROVE  VcdInv'
  <2>1. word.kind # "end"
    BY DEF Vcd!Tokens, Vcd!Stamp, Vcd!IdToken, Vcd!Word, Vcd!Scalar, Vcd!Vector, Vcd!Token, End
  <2>2. Head(<<word>>) = word /\ Tail(<<word>>) = <<>>
    BY ShortTuples
  <2>3. /\ UNCHANGED <<query, pending, answered, rows, current, beyond, outcome, time, first, wave, bad>>
        /\ Reads(<<>>, None, TRUE)'
    BY <1>6, <2>1, <2>2, CommentRead
  <2>4. UpToDate(VcdWatched, Vcd!Now)' /\ ~bad' => VcdBroken'
    BY <1>1, <2>3 DEF VcdBroken, Reads
  <2> QED BY <1>1, <2>3, <2>4, QuietAfter
<1>7. ~Reads(<<>>, None, TRUE) /\ \A val : ~Reads(<<>>, val, FALSE)
  BY <1>1 DEF Reads
<1> QED BY <1>3, <1>4, <1>5, <1>6, <1>7 DEF VcdBroken

\* Reading a token of an item that makes a change.
LEMMA ChangingRead ==
  ASSUME VcdInv, Vcd!Read, NEW id \in VcdIds, NEW val \in Vcd!Written, VcdChanging(id, val)
  PROVE  VcdInv'
<1>1. outcome = "reading" /\ Pending(id, val) /\ (bad <=> Wrong(id, val)) /\ val # None /\ bad \in BOOLEAN
  BY VcdConstants DEF Vcd!Read, VcdChanging, VcdInv, VcdReplayed, VcdTyped
<1>2. /\ Vcd!Scalar(val, id).kind = "scalar" /\ Vcd!Scalar(val, id).value = val /\ Vcd!Scalar(val, id).id = id
      /\ Vcd!Vector(val).kind = "vector" /\ Vcd!Vector(val).value = val /\ Vcd!IdToken(id).id = id
  BY DEF Vcd!Scalar, Vcd!Vector, Vcd!IdToken, Vcd!Token
<1>3. ASSUME Reads(<<Vcd!Scalar(val, id)>>, None, FALSE)
      PROVE  VcdInv'
  <2>1. Head(<<Vcd!Scalar(val, id)>>) = Vcd!Scalar(val, id) /\ Tail(<<Vcd!Scalar(val, id)>>) = <<>>
    BY ShortTuples
  <2>2. Vcd!Change(val, id) /\ Reads(<<>>, None, FALSE)' /\ UNCHANGED <<time, first, wave, bad>>
    BY <1>2, <1>3, <2>1, ValueRead
  <2> QED BY <1>1, <2>2, ChangeRight
<1>4. ASSUME Reads(<<Vcd!Vector(val), Vcd!IdToken(id)>>, None, FALSE)
      PROVE  VcdInv'
  <2>1. /\ Head(<<Vcd!Vector(val), Vcd!IdToken(id)>>) = Vcd!Vector(val)
        /\ Tail(<<Vcd!Vector(val), Vcd!IdToken(id)>>) = <<Vcd!IdToken(id)>>
    BY ShortTuples
  <2>2. /\ UNCHANGED <<time, first, wave, bad>> /\ Reads(<<Vcd!IdToken(id)>>, val, FALSE)'
        /\ UNCHANGED <<query, pending, answered, rows, current, beyond, outcome>>
    BY <1>2, <1>4, <2>1, ValueRead
  <2>3. VcdReplayed' /\ Pending(id, val)'
    BY <1>1, <2>2, SameReplay DEF VcdInv
  <2>4. bad' <=> Wrong(id, val)'
    BY <1>1, <2>2 DEF Wrong
  <2>5. VcdChanging(id, val)'
    BY <2>2, <2>3, <2>4 DEF VcdChanging, Reads
  <2> QED BY <1>1, <2>2, <2>3, <2>5 DEF VcdInv, VcdEnded, VcdItem
<1>5. ASSUME Reads(<<Vcd!IdToken(id)>>, val, FALSE)
      PROVE  VcdInv'
  <2>1. Head(<<Vcd!IdToken(id)>>) = Vcd!IdToken(id) /\ Tail(<<Vcd!IdToken(id)>>) = <<>>
    BY ShortTuples
  <2>2. Vcd!Change(val, id) /\ Reads(<<>>, None, FALSE)' /\ UNCHANGED <<time, first, wave, bad>>
    BY <1>1, <1>2, <1>5, <2>1, IdRead
  <2> QED BY <1>1, <2>2, ChangeRight
<1> QED BY <1>3, <1>4, <1>5 DEF VcdChanging

\* Reading any token keeps the invariant.
LEMMA ReadKeeps ==
  ASSUME VcdInv, Vcd!Read
  PROVE  VcdInv'
BY QuietRead, BrokenRead, ChangingRead DEF Vcd!Read, VcdInv, VcdItem

\* The file ends.
LEMMA FinishKeeps ==
  ASSUME VcdInv, Vcd!Finish
  PROVE  VcdInv'
<1> DEFINE now == Vcd!Now
<1>1. /\ outcome = "reading" /\ UNCHANGED <<time, first, wave, bad>> /\ unread = <<>>
      /\ VcdTyped /\ AnsweredRight(VcdWatched) /\ Reached(now)
      /\ SamplerTyped /\ InOrderOfTime /\ Current(VcdWatched) /\ bad \in BOOLEAN /\ IsWave(wave)
  BY WaveIs DEF Vcd!Finish, Vcd!readerVars, VcdInv, VcdReplayed, VcdTyped
<1>2. UpToDate(VcdWatched, now) /\ ~bad
  BY <1>1, NothingUnread DEF VcdInv
<1>3. CASE first = None
  <2>1. Vcd!Fails
    BY <1>3 DEF Vcd!Finish
  <2> QED BY <1>1, <1>3, <2>1, FailsRight
<1>4. CASE first # None
  <2>1. Vcd!FinishWith(first, time)
    BY <1>4 DEF Vcd!Finish
  <2>2. PICK n : n = Len(query)
    OBVIOUS
  <2>3. /\ Records(n) /\ answered' = n /\ outcome' = "done" /\ UNCHANGED <<query, pending, current>>
        /\ beyond' = [i \in DOMAIN query |-> Vcd!Placed(i, first, time)]
    BY <2>1, <2>2 DEF Vcd!FinishWith, Vcd!RecordedTo, Records
  <2>4. n \in answered .. Len(query) /\ DOMAIN query = 1 .. Len(query)
    BY <1>1, <2>2 DEF SamplerTyped
  <2>5. now \in Nat
    BY <1>1, NowIs
  <2> HIDE DEF now
  <2>6. SamplerTyped' /\ InOrderOfTime' /\ AnsweredRight(VcdWatched)'
    <3>1. RightFor(VcdWatched, n)
      BY <1>1, <1>2, <2>5, RightIf
    <3> QED BY <1>1, <2>3, <2>4, <3>1, RecordRight DEF AnsweredRight
  <2>7. VcdTyped'
    BY <1>1, <2>3, <2>6 DEF VcdTyped, Current
  <2>8. \A i \in 1 .. Len(query) : beyond'[i] = Vcd!Placed(i, first, time)
    BY <2>3, <2>4
  <2>9. \A i \in 1 .. Len(query) : Vcd!Placed(i, first, time)' = Vcd!Placed(i, first, time)
    BY <1>1, <2>3 DEF Vcd!Placed
  <2>10. VcdEnded'
    BY <1>1, <1>2, <1>4, <2>2, <2>3, <2>8, <2>9 DEF VcdEnded
  <2> QED BY <2>3, <2>6, <2>7, <2>10 DEF VcdInv, VcdReplayed
<1> QED BY <1>3, <1>4

-----------------------------------------------------------------------------
(* Every step, and the rows *)

VcdRuns == reading = "vcd" => VcdInv

LEMMA RunsInitially == Init => VcdRuns
BY VcdInitially DEF Init, VcdRuns

LEMMA RunsKept == VcdRuns /\ [Next]_vars => VcdRuns'
<1> SUFFICES ASSUME VcdRuns, [Next]_vars, reading' = "vcd" PROVE VcdInv'
  BY DEF VcdRuns
<1>1. reading = "vcd" /\ (Vcd!Next \/ UNCHANGED <<outcome, samplerVars, readerVars, vcdVars>>)
  BY DEF Next, ReadVcd, ReadFst, ReadFile, ReadTable, ReadTimes, vars
<1>2. VcdInv
  BY <1>1 DEF VcdRuns
<1>3. CASE Vcd!Next
  BY <1>2, <1>3, QuietWrites, ChangeWrites, BreakOffKeeps, ReadKeeps, FinishKeeps DEF Vcd!Next
<1>4. CASE UNCHANGED <<outcome, samplerVars, readerVars, vcdVars>>
  <2>1. UNCHANGED <<query, pending, answered, rows, current, beyond, outcome, time, first, wave, bad, unread, value, skipping, items>>
    BY <1>4 DEF samplerVars, readerVars, vcdVars
  <2>2. bad \in BOOLEAN
    BY <1>2 DEF VcdInv, VcdReplayed, VcdTyped
  <2>3. /\ VcdReplayed' /\ Vcd!Now' = Vcd!Now
        /\ UpToDate(VcdWatched, Vcd!Now) => UpToDate(VcdWatched, Vcd!Now)'
        /\ \A id, val : Pending(id, val) => Pending(id, val)'
    BY <1>2, <2>1, <2>2, SameReplay DEF VcdInv
  <2>4. VcdQuiet \/ VcdBroken => VcdQuiet' \/ VcdBroken'
    BY <2>1, <2>3 DEF VcdQuiet, VcdBroken, Reads
  <2>5. \A id, val : VcdChanging(id, val) => VcdChanging(id, val)'
    BY <2>1, <2>3 DEF VcdChanging, Reads, Wrong
  <2>6. VcdItem => VcdItem'
    BY <2>4, <2>5 DEF VcdItem
  <2>7. VcdEnded'
    BY <1>2, <2>1 DEF VcdInv, VcdEnded, Vcd!Placed
  <2> QED BY <1>2, <2>1, <2>3, <2>6, <2>7 DEF VcdInv
<1> QED BY <1>1, <1>3, <1>4

\* Every row, in the order of the request.
LEMMA RowsAre ==
  ASSUME VcdInv, NEW i \in 1 .. Len(query)
  PROVE  /\ query[i].ticks \in Nat /\ query[i].between \in BOOLEAN
         /\ rows[i] # None => \A id \in VcdWatched : LastIs(wave, id, query[i].ticks, rows[i][id])
         /\ outcome = "done" => rows[i] # None
<1>1. SamplerTyped /\ InOrderOfTime /\ AnsweredRight(VcdWatched)
  BY DEF VcdInv, VcdReplayed, VcdTyped
<1>2. query[i] \in Asked
  BY <1>1 DEF SamplerTyped
<1>3. PICK k \in 1 .. Len(query) : pending[k] = i
  BY <1>1 DEF InOrderOfTime
<1>4. When(k) = query[i].ticks /\ RowOf(k) = rows[i]
  BY <1>3 DEF When, RowOf
<1>5. IF k <= answered THEN rows[i] # None /\ \A id \in VcdWatched : LastIs(wave, id, query[i].ticks, rows[i][id])
                       ELSE rows[i] = None
  BY <1>1, <1>4 DEF AnsweredRight, RowsFilled, RowsFollow
<1>6. outcome = "done" => k <= answered
  BY DEF VcdInv, VcdEnded
<1> QED BY <1>2, <1>5, <1>6 DEF Asked

\* The invariant gives the property.
LEMMA RowsRightIf ==
  ASSUME VcdInv
  PROVE  Vcd!LastChange /\ Vcd!MarkedOutside /\ Vcd!RefusesBadOnly
<1>1. /\ SamplerTyped /\ wave \in Seq(VcdChanges)
      /\ time \in Nat \cup {None} /\ first \in Nat \cup {None} /\ (first = None <=> time = None)
  BY DEF VcdInv, VcdReplayed, VcdTyped
<1>2. DOMAIN query = 1 .. Len(query) /\ IsWave(wave)
  BY <1>1, WaveIs DEF SamplerTyped
<1>3. Vcd!LastChange
  <2> SUFFICES ASSUME NEW i \in 1 .. Len(query), rows[i] # None, NEW id \in VcdWatched
               PROVE  rows[i][id] = Vcd!ValueAt(wave, id, query[i].ticks)
    BY <1>2 DEF Vcd!LastChange, Vcd!RowsFollow
  <2>1. query[i].ticks \in Nat /\ LastIs(wave, id, query[i].ticks, rows[i][id])
    BY RowsAre
  <2> QED BY <1>2, <2>1, LastIsValue DEF Vcd!ValueAt, Vcd!ChangesOf
<1>4. Vcd!MarkedOutside
  <2> SUFFICES ASSUME first # None, outcome = "done", NEW i \in 1 .. Len(query)
               PROVE  /\ rows[i] # None
                      /\ beyond[i] = "before" <=> Vcd!Halves(i) < 2 * first
                      /\ beyond[i] = "after" <=> Vcd!Halves(i) > 2 * time /\ Vcd!Halves(i) >= 2 * first
    BY <1>2 DEF Vcd!MarkedOutside, Vcd!EndsWith
  <2>1. query[i].ticks \in Nat /\ query[i].between \in BOOLEAN /\ rows[i] # None
    BY RowsAre
  <2>2. first \in Nat /\ time \in Nat
    BY <1>1
  <2>3. beyond[i] = Vcd!Placed(i, first, time)
    BY DEF VcdInv, VcdEnded
  <2>4. CASE query[i].between = TRUE
    BY <2>1, <2>2, <2>3, <2>4 DEF Vcd!Placed, Vcd!Halves
  <2>5. CASE query[i].between = FALSE
    BY <2>1, <2>2, <2>3, <2>5 DEF Vcd!Placed, Vcd!Halves
  <2> QED BY <2>1, <2>4, <2>5
<1>5. Vcd!RefusesBadOnly
  BY DEF VcdInv, VcdEnded, Vcd!RefusesBadOnly
<1> QED BY <1>3, <1>4, <1>5

(***************************************************************************)
(* Every value wave_query reports from a VCD file is the last change its   *)
(* writer made at or before the time asked for, whatever comments hold and *)
(* ids look like and in whatever order the times were asked for; every     *)
(* time has its row, marked as outside the file exactly when it is; and a  *)
(* file is refused only for what its writer should not have written        *)
(* (vhdl/vcd.ts, vhdl/wave.ts).                                            *)
(***************************************************************************)
THEOREM VcdRows == Spec => []VcdRowsRight
<1>1. VcdRuns => VcdRowsRight
  BY RowsRightIf DEF VcdRuns, VcdRowsRight
<1>2. Spec => []VcdRuns
  BY RunsInitially, RunsKept, PTL DEF Spec
<1> QED BY <1>1, <1>2, PTL

-----------------------------------------------------------------------------
(* The numbers of a set, from the least *)

\* s lists the set in ascending order.
Lists(s, set) ==
  /\ Len(s) \in Nat /\ DOMAIN s = 1 .. Len(s)
  /\ \A k \in 1 .. Len(s) : s[k] \in set
  /\ \A n \in set : \E k \in 1 .. Len(s) : s[k] = n
  /\ \A j, k \in 1 .. Len(s) : j < k => s[j] < s[k]

LEMMA OrderExists ==
  ASSUME NEW m \in Nat, NEW set \in SUBSET {x \in Nat : x < m}
  PROVE  \E s \in [1 .. Cardinality(set) -> set] :
           /\ \A n \in set : \E k \in DOMAIN s : s[k] = n
           /\ \A j, k \in DOMAIN s : j < k => s[j] < s[k]
<1> DEFINE Below(b) == {x \in Nat : x < b}
           Fine(T, s) ==
             /\ s \in [1 .. Cardinality(T) -> T]
             /\ \A n \in T : \E k \in DOMAIN s : s[k] = n
             /\ \A j, k \in DOMAIN s : j < k => s[j] < s[k]
           A == {b \in Nat : \A T \in SUBSET Below(b) : \E s : Fine(T, s)}
<1>1. \A T : T = {} => Fine(T, <<>>)
  <2>1. Cardinality({}) = 0
    BY FS_EmptySet
  <2> QED BY <2>1
<1>2. 0 \in A
  <2>1. \A T \in SUBSET Below(0) : T = {}
    OBVIOUS
  <2> HIDE DEF Fine, Below
  <2> QED BY <1>1, <2>1
<1>3. ASSUME NEW b \in Nat, b \in A PROVE b + 1 \in A
  <2> SUFFICES ASSUME NEW T \in SUBSET Below(b + 1) PROVE \E s : Fine(T, s)
    OBVIOUS
  <2> DEFINE U == T \ {b}
  <2>1. U \in SUBSET Below(b) /\ \A x \in U : x \in Nat /\ x < b
    OBVIOUS
  <2>2. PICK s : Fine(U, s)
    BY <1>3, <2>1
  <2>3. CASE b \notin T
    <3>1. U = T
      BY <2>3
    <3> QED BY <2>2, <3>1
  <2>4. CASE b \in T
    <3> DEFINE n == Cardinality(U)
               longer == [k \in 1 .. n + 1 |-> IF k = n + 1 THEN b ELSE s[k]]
    <3>1. n \in Nat /\ Cardinality(T) = n + 1
      <4>1. IsFiniteSet(U)
        BY <2>1, FS_BoundedSetOfNaturals
      <4>2. T = U \cup {b} /\ b \notin U
        BY <2>4
      <4> QED BY <4>1, <4>2, FS_AddElement, FS_CardinalityType
    <3> HIDE DEF n
    <3>2. s \in [1 .. n -> U] /\ \A j, k \in 1 .. n : j < k => s[j] < s[k]
      BY <2>2 DEF n
    <3>3. \A k \in 1 .. n : s[k] \in Nat /\ s[k] < b /\ s[k] \in T
      BY <2>1, <3>2
    <3>4. \A x \in U : \E k \in 1 .. n : s[k] = x
      BY <2>2, <3>2
    <3> HIDE DEF U, Below
    <3>5. longer \in [1 .. n + 1 -> T]
      BY <2>4, <3>1, <3>3
    <3>6. ASSUME NEW x \in T PROVE \E k \in 1 .. n + 1 : longer[k] = x
      <4>1. CASE x = b
        BY <3>1, <4>1
      <4>2. CASE x # b
        <5>1. PICK k \in 1 .. n : s[k] = x
          BY <3>4, <4>2 DEF U
        <5>2. k \in 1 .. n + 1 /\ k # n + 1
          BY <3>1
        <5> QED BY <5>1, <5>2
      <4> QED BY <4>1, <4>2
    <3>7. ASSUME NEW j \in 1 .. n + 1, NEW k \in 1 .. n + 1, j < k PROVE longer[j] < longer[k]
      <4>1. j \in 1 .. n /\ longer[j] = s[j]
        BY <3>1, <3>7
      <4>2. CASE k = n + 1
        BY <3>3, <4>1, <4>2
      <4>3. CASE k # n + 1
        <5>1. k \in 1 .. n /\ longer[k] = s[k]
          BY <3>1, <4>3
        <5> QED BY <3>2, <3>7, <4>1, <5>1
      <4> QED BY <4>2, <4>3
    <3>8. DOMAIN longer = 1 .. n + 1
      OBVIOUS
    <3> HIDE DEF longer
    <3> QED BY <3>1, <3>5, <3>6, <3>7, <3>8
  <2> QED BY <2>3, <2>4
<1> HIDE DEF A
<1>4. m \in A
  <2>1. \A n \in Nat : n \in A
    BY <1>2, <1>3, SetInduction
  <2> QED BY <2>1
<1>5. PICK s : Fine(set, s)
  BY <1>4 DEF A
<1> QED BY <1>5

LEMMA AscendingLists ==
  ASSUME NEW m \in Nat, NEW set \in SUBSET (0 .. m)
  PROVE  Lists(Fst!Ascending(set), set) /\ Len(Fst!Ascending(set)) <= m + 1
<1> DEFINE s == Fst!Ascending(set)
           size == Cardinality(set)
<1>1. size \in Nat /\ size <= m + 1
  <2>1. IsFiniteSet(0 .. m) /\ Cardinality(0 .. m) = m + 1
    BY FS_Interval
  <2> QED BY <2>1, FS_Subset, FS_CardinalityType
<1>2. \E r \in [1 .. Cardinality(set) -> set] :
        /\ \A n \in set : \E k \in DOMAIN r : r[k] = n
        /\ \A j, k \in DOMAIN r : j < k => r[j] < r[k]
  <2>1. set \in SUBSET {x \in Nat : x < m + 1} /\ m + 1 \in Nat
    OBVIOUS
  <2> QED BY <2>1, OrderExists
<1>3. /\ s \in [1 .. Cardinality(set) -> set]
      /\ \A n \in set : \E k \in DOMAIN s : s[k] = n
      /\ \A j, k \in DOMAIN s : j < k => s[j] < s[k]
  BY <1>2 DEF Fst!Ascending, Fst!Cardinality, Cardinality
<1> HIDE DEF s, size
<1>4. s \in [1 .. size -> set]
  BY <1>3 DEF size
<1>5. DOMAIN s = 1 .. size /\ Len(s) = size
  BY <1>1, <1>4
<1> QED BY <1>1, <1>3, <1>4, <1>5 DEF Lists, s

LEMMA Least ==
  ASSUME NEW set \in SUBSET Nat, set # {}
  PROVE  \E n \in set : \A k \in set : n <= k
<1> DEFINE A == {n \in Nat : \A k \in set : n <= k}
<1>1. 0 \in A
  OBVIOUS
<1>2. SUFFICES ASSUME \A n \in set : n \notin A PROVE FALSE
  OBVIOUS
<1>3. ASSUME NEW n \in Nat, n \in A PROVE n + 1 \in A
  <2>1. n \notin set
    BY <1>2, <1>3
  <2> QED BY <1>3, <2>1
<1> HIDE DEF A
<1>4. \A n \in Nat : n \in A
  BY <1>1, <1>3, SetInduction
<1>5. PICK k \in set : TRUE
  OBVIOUS
<1>6. k + 1 \in A /\ k \in Nat
  BY <1>4
<1>7. k + 1 <= k
  BY <1>6 DEF A
<1> QED BY <1>6, <1>7

LEMMA Greatest ==
  ASSUME NEW m \in Nat, NEW set \in SUBSET (1 .. m), set # {}
  PROVE  \E n \in set : \A k \in set : k <= n
<1> DEFINE down == {m - n : n \in set}
<1>1. \A n \in set : n \in 1 .. m /\ n \in Nat /\ m - n \in Nat
  OBVIOUS
<1>2. PICK d \in down : \A k \in down : d <= k
  <2>1. down \in SUBSET Nat
    BY <1>1
  <2>2. down # {}
    OBVIOUS
  <2> HIDE DEF down
  <2> QED BY <2>1, <2>2, Least
<1>3. PICK n \in set : d = m - n
  OBVIOUS
<1>4. \A k \in set : m - n <= m - k
  BY <1>2, <1>3
<1> QED BY <1>1, <1>3, <1>4

-----------------------------------------------------------------------------
(* The file of a run (FstReplay) *)

FstChanges == [id : FstIds, at : 0 .. MaxTime, value : Values]
RunRight ==
  /\ wave \in Seq(FstChanges)
  /\ \A j, k \in 1 .. Len(wave) : j <= k => wave[j].at <= wave[k].at

\* v is the value of the last change of id among the first m, or None.
Held(id, m, v) ==
  \/ v = None /\ \A k \in 1 .. m : wave[k].id # id
  \/ \E k \in 1 .. m : wave[k].id = id /\ wave[k].value = v /\ \A j \in k + 1 .. m : wave[j].id # id

During(k, lo, hi) == lo <= wave[k].at /\ wave[k].at < hi
InFrame(k) == Fst!InFrame(wave, k, framed)
\* The changes of a signal in a block, and those before it.
Streamed(id, lo, hi) == {k \in 1 .. Len(wave) : During(k, lo, hi) /\ wave[k].id = id /\ ~InFrame(k)}
ChainOf(id, lo, hi) == Fst!Ascending(Streamed(id, lo, hi))
Early(k, lo) == wave[k].at < lo \/ (lo = 0 /\ InFrame(k))

StampsRight(stamps, lo, hi) ==
  Lists(stamps, {wave[k].at : k \in {j \in 1 .. Len(wave) : During(j, lo, hi)}}) /\ Len(stamps) <= MaxTime + 1
StreamRight(stream, stamps, chain) ==
  /\ DOMAIN stream = 1 .. Len(chain) /\ Len(stream) = Len(chain)
  /\ \A i \in 1 .. Len(chain) :
       /\ stream[i].index \in 1 .. Len(stamps) /\ stamps[stream[i].index] = wave[chain[i]].at
       /\ stream[i].value = wave[chain[i]].value
FrameRight(v, id, lo) ==
  /\ v \in Values \cup {None}
  /\ \E m \in 0 .. Len(wave) :
       Held(id, m, v) /\ \A k \in 1 .. Len(wave) : wave[k].id = id => (k <= m <=> Early(k, lo))
BlockRight(part, lo, hi) ==
  /\ StampsRight(part.stamps, lo, hi)
  /\ \A id \in FstIds : StreamRight(part.streams[id], part.stamps, ChainOf(id, lo, hi))
  /\ \A id \in Framed : FrameRight(part.frame[id], id, lo)

\* The b-th block holds the changes from from[b] to before from[b + 1].
CutAt(from, len) ==
  /\ from \in [1 .. len + 1 -> Nat] /\ from[1] = 0 /\ from[len + 1] = MaxTime + 1
  /\ \A i, j \in 1 .. len + 1 : i < j => from[i] < from[j]
FileRight(from) ==
  /\ RunRight
  /\ Len(blocks) \in Nat /\ DOMAIN blocks = 1 .. Len(blocks) /\ CutAt(from, Len(blocks))
  /\ \A b \in 1 .. Len(blocks) : BlockRight(blocks[b], from[b], from[b + 1])
  /\ begins \in [1 .. Len(blocks) -> Nat]
  /\ \A b \in 1 .. Len(blocks) : Len(blocks[b].stamps) > 0 => begins[b] <= blocks[b].stamps[1]

LEMMA FstConstants ==
  /\ FstWatched \subseteq FstIds /\ FstWatched # {} /\ Framed \subseteq FstIds /\ MaxTime \in Nat /\ FstQueries \subseteq Seq(Asked)
  /\ None \notin Nat /\ None \notin [FstWatched -> Values \cup {None}] /\ None \notin Values
BY WaveQueryAssumption DEF Fst!FstAssumption, Fst!SamplerAssumption, Fst!TimeAsked, Asked

LEMMA RunIs ==
  ASSUME RunRight
  PROVE  /\ IsWave(wave) /\ Len(wave) \in Nat
         /\ \A k \in 1 .. Len(wave) : /\ wave[k].at \in Nat /\ wave[k].at <= MaxTime /\ wave[k].id \in FstIds
                                      /\ wave[k].value \in Values
<1>1. \A k \in 1 .. Len(wave) : wave[k] \in FstChanges
  BY DEF RunRight
<1>2. Len(wave) \in Nat /\ DOMAIN wave = 1 .. Len(wave)
  BY DEF RunRight
<1> QED BY <1>1, <1>2, FstConstants DEF IsWave, FstChanges

LEMMA HeldIs ==
  ASSUME IsWave(wave), NEW m \in 0 .. Len(wave), NEW t \in Nat, NEW id, NEW v, Held(id, m, v),
         \A k \in 1 .. Len(wave) : wave[k].id = id => (k <= m <=> wave[k].at <= t)
  PROVE  LastIs(wave, id, t, v)
<1>1. Len(wave) \in Nat /\ m \in Nat /\ m <= Len(wave) /\ \A k \in 1 .. Len(wave) : k \in Nat /\ wave[k].at \in Nat
  BY DEF IsWave
<1>2. CASE v = None /\ \A k \in 1 .. m : wave[k].id # id
  <2>1. \A k \in 1 .. Len(wave) : wave[k].id = id => ~(k <= m)
    BY <1>1, <1>2
  <2>2. \A k \in 1 .. Len(wave) : wave[k].id = id => wave[k].at > t
    BY <1>1, <2>1
  <2> QED BY <1>2, <2>2 DEF LastIs
<1>3. ASSUME NEW k \in 1 .. m, wave[k].id = id, wave[k].value = v, \A j \in k + 1 .. m : wave[j].id # id
      PROVE  LastIs(wave, id, t, v)
  <2>1. k \in 1 .. Len(wave) /\ k <= m /\ wave[k].at <= t
    BY <1>1, <1>3
  <2>2. \A j \in k + 1 .. Len(wave) : wave[j].id = id => wave[j].at > t
    <3> SUFFICES ASSUME NEW j \in k + 1 .. Len(wave), wave[j].id = id PROVE wave[j].at > t
      OBVIOUS
    <3>1. j \in 1 .. Len(wave) /\ ~(j \in k + 1 .. m)
      BY <1>1, <1>3, <2>1
    <3>2. ~(j <= m)
      BY <1>1, <2>1, <3>1
    <3> QED BY <1>1, <3>1, <3>2
  <2> QED BY <1>3, <2>1, <2>2 DEF LastIs
<1> QED BY <1>2, <1>3 DEF Held

LEMMA ChainLists ==
  ASSUME RunRight, NEW id, NEW lo, NEW hi
  PROVE  Lists(ChainOf(id, lo, hi), Streamed(id, lo, hi))
<1>1. Streamed(id, lo, hi) \in SUBSET (0 .. Len(wave)) /\ Len(wave) \in Nat
  BY RunIs DEF Streamed
<1> QED BY <1>1, AscendingLists DEF ChainOf

LEMMA StartRight ==
  ASSUME RunRight, NEW lo \in Nat, NEW id, framed \in BOOLEAN
  PROVE  FrameRight(Fst!StartOf(wave, id, lo, framed), id, lo)
<1> DEFINE early == {k \in DOMAIN wave : wave[k].id = id /\ Early(k, lo)}
           last == CHOOSE k \in early : \A j \in early : j <= k
           v == Fst!StartOf(wave, id, lo, framed)
<1>1. IsWave(wave) /\ Len(wave) \in Nat /\ DOMAIN wave = 1 .. Len(wave)
      /\ \A k \in 1 .. Len(wave) : k \in Nat /\ wave[k].at \in Nat /\ wave[k].value \in Values
  BY RunIs DEF IsWave
<1>2. v = IF early = {} THEN None ELSE wave[last].value
  BY DEF Fst!StartOf, Early, InFrame
<1> HIDE DEF v
<1>3. early \in SUBSET (1 .. Len(wave)) /\ \A k \in 1 .. Len(wave) : k \in early <=> wave[k].id = id /\ Early(k, lo)
  BY <1>1
<1> HIDE DEF early
<1>4. CASE early = {}
  <2>1. \A k \in 1 .. Len(wave) : ~(k <= 0)
    BY <1>1
  <2>2. Held(id, 0, v) /\ 0 \in 0 .. Len(wave)
    BY <1>1, <1>2, <1>4 DEF Held
  <2> QED BY <1>2, <1>3, <1>4, <2>1, <2>2 DEF FrameRight, v
<1>5. CASE early # {}
  <2>1. \E k \in early : \A j \in early : j <= k
    BY <1>1, <1>3, <1>5, Greatest
  <2>2. last \in early /\ \A j \in early : j <= last
    BY <2>1
  <2> HIDE DEF last
  <2>3. last \in 1 .. Len(wave) /\ last \in 0 .. Len(wave) /\ wave[last].id = id /\ Early(last, lo) /\ last \in Nat
    BY <1>1, <1>3, <2>2
  <2>4. Held(id, last, v)
    <3>1. last \in 1 .. last /\ last + 1 .. last = {} /\ v = wave[last].value
      BY <1>2, <1>5, <2>3
    <3> QED BY <2>3, <3>1 DEF Held
  <2>5. ASSUME NEW k \in 1 .. Len(wave), wave[k].id = id PROVE k <= last <=> Early(k, lo)
    <3>1. Early(k, lo) => k <= last
      BY <1>3, <2>2, <2>5
    <3>2. k <= last => Early(k, lo)
      <4> SUFFICES ASSUME k <= last PROVE Early(k, lo)
        OBVIOUS
      <4>1. wave[k].at <= wave[last].at /\ wave[k].at \in Nat /\ wave[last].at \in Nat
        BY <1>1, <2>3 DEF RunRight
      <4> QED BY <2>3, <2>5, <4>1 DEF Early, InFrame, Fst!InFrame
    <3> QED BY <3>1, <3>2
  <2>6. v \in Values
    BY <1>1, <1>2, <1>5, <2>3
  <2> QED BY <2>3, <2>4, <2>5, <2>6 DEF FrameRight, v
<1> QED BY <1>4, <1>5

\* The stream the writer makes of a signal has its changes in order.
LEMMA StreamMade ==
  ASSUME RunRight, NEW lo \in Nat, NEW hi \in Nat, NEW id \in FstIds, NEW stamps, StampsRight(stamps, lo, hi), NEW stream,
         LET chain == ChainOf(id, lo, hi)
             index(k) == CHOOSE i \in DOMAIN stamps : stamps[i] = wave[k].at
         IN stream = [i \in DOMAIN chain |-> [index |-> index(chain[i]), value |-> wave[chain[i]].value]]
  PROVE  StreamRight(stream, stamps, ChainOf(id, lo, hi))
<1> DEFINE chain == ChainOf(id, lo, hi)
           index(k) == CHOOSE i \in DOMAIN stamps : stamps[i] = wave[k].at
<1>1. Lists(chain, Streamed(id, lo, hi))
  BY ChainLists
<1>2. DOMAIN stamps = 1 .. Len(stamps) /\ Len(stamps) \in Nat
      /\ \A n \in {wave[k].at : k \in {j \in 1 .. Len(wave) : During(j, lo, hi)}} : \E i \in 1 .. Len(stamps) : stamps[i] = n
  BY DEF StampsRight, Lists
<1>3. \A k \in Streamed(id, lo, hi) : index(k) \in 1 .. Len(stamps) /\ stamps[index(k)] = wave[k].at
  <2> SUFFICES ASSUME NEW k \in Streamed(id, lo, hi) PROVE index(k) \in 1 .. Len(stamps) /\ stamps[index(k)] = wave[k].at
    OBVIOUS
  <2>1. k \in 1 .. Len(wave) /\ During(k, lo, hi)
    BY DEF Streamed
  <2>2. \E i \in 1 .. Len(stamps) : stamps[i] = wave[k].at
    BY <1>2, <2>1
  <2>3. \E i \in DOMAIN stamps : stamps[i] = wave[k].at
    BY <1>2, <2>2
  <2> QED BY <1>2, <2>3
<1> HIDE DEF index
<1>4. stream = [i \in DOMAIN chain |-> [index |-> index(chain[i]), value |-> wave[chain[i]].value]]
  BY DEF index
<1> HIDE DEF chain
<1>5. DOMAIN chain = 1 .. Len(chain) /\ Len(chain) \in Nat /\ \A i \in 1 .. Len(chain) : chain[i] \in Streamed(id, lo, hi)
  BY <1>1 DEF Lists
<1>6. DOMAIN stream = 1 .. Len(chain) /\ Len(stream) = Len(chain)
  BY <1>4, <1>5
<1>7. \A i \in 1 .. Len(chain) : stream[i].index = index(chain[i]) /\ stream[i].value = wave[chain[i]].value
  BY <1>4, <1>5
<1>8. StreamRight(stream, stamps, chain)
  BY <1>3, <1>5, <1>6, <1>7 DEF StreamRight
<1> QED BY <1>8 DEF chain

LEMMA BlockMade ==
  ASSUME RunRight, NEW lo \in Nat, NEW hi \in Nat, framed \in BOOLEAN
  PROVE  BlockRight(Fst!BlockOf(wave, lo, hi, framed), lo, hi)
<1> DEFINE changes == {k \in DOMAIN wave : lo <= wave[k].at /\ wave[k].at < hi}
           times == {wave[k].at : k \in changes}
           stamps == Fst!Ascending(times)
           made == Fst!BlockOf(wave, lo, hi, framed)
           index(k) == CHOOSE i \in DOMAIN stamps : stamps[i] = wave[k].at
           picked(id) == {k \in changes : wave[k].id = id /\ ~Fst!InFrame(wave, k, framed)}
           chain(id) == Fst!Ascending(picked(id))
           stream(id) == [i \in DOMAIN chain(id) |->
                            [index |-> index(chain(id)[i]), value |-> wave[chain(id)[i]].value]]
<1>1. DOMAIN wave = 1 .. Len(wave) /\ Len(wave) \in Nat /\ \A k \in 1 .. Len(wave) : wave[k].at \in 0 .. MaxTime
  <2>1. \A k \in 1 .. Len(wave) : wave[k].at \in Nat /\ wave[k].at <= MaxTime
    BY RunIs
  <2> QED BY <2>1, RunIs, FstConstants DEF IsWave
<1>2. changes = {k \in 1 .. Len(wave) : During(k, lo, hi)}
  BY <1>1 DEF During
<1>3. StampsRight(stamps, lo, hi)
  <2>1. times \in SUBSET (0 .. MaxTime)
    BY <1>1
  <2>2. Lists(stamps, times) /\ Len(stamps) <= MaxTime + 1
    BY <2>1, AscendingLists, FstConstants
  <2>3. times = {wave[k].at : k \in {j \in 1 .. Len(wave) : During(j, lo, hi)}}
    BY <1>2
  <2> QED BY <2>2, <2>3 DEF StampsRight
<1>4. /\ made.stamps = stamps
      /\ made.frame = [id \in Framed |-> Fst!StartOf(wave, id, lo, framed)]
      /\ made.streams = [id \in FstIds |-> stream(id)]
  BY DEF Fst!BlockOf
<1>5. ASSUME NEW id \in FstIds PROVE StreamRight(stream(id), stamps, ChainOf(id, lo, hi))
  <2>1. picked(id) = Streamed(id, lo, hi)
    BY <1>2 DEF Streamed, InFrame
  <2>2. chain(id) = ChainOf(id, lo, hi)
    BY <2>1 DEF ChainOf
  <2> HIDE DEF chain, stamps
  <2>3. stream(id) = [i \in DOMAIN ChainOf(id, lo, hi) |->
                        [index |-> index(ChainOf(id, lo, hi)[i]), value |-> wave[ChainOf(id, lo, hi)[i]].value]]
    BY <2>2
  <2> HIDE DEF stream
  <2> QED BY <1>3, <2>3, StreamMade
<1> HIDE DEF stream, stamps, made
<1>6. \A id \in FstIds : made.streams[id] = stream(id)
  BY <1>4
<1>7. \A id \in Framed : FrameRight(made.frame[id], id, lo)
  BY <1>4, StartRight
<1> QED BY <1>3, <1>4, <1>5, <1>6, <1>7 DEF BlockRight, made

\* What the writer makes of a run is right, however it is cut.
LEMMA FileMade ==
  ASSUME Fst!Init
  PROVE  \E from : FileRight(from)
<1>1. wave \in Fst!Waves /\ framed \in BOOLEAN
  BY DEF Fst!Init
<1>2. RunRight
  <2>1. PICK len \in 0 .. MaxChanges : wave \in [1 .. len -> FstChanges]
    BY <1>1 DEF Fst!Waves, Fst!BoundedSeq, Fst!SeqOf, Fst!Times, FstChanges
  <2>2. len \in Nat
    OBVIOUS
  <2>3. wave \in Seq(FstChanges) /\ DOMAIN wave = 1 .. Len(wave)
    BY <2>1, <2>2
  <2> QED BY <1>1, <2>3 DEF RunRight, Fst!Waves
<1>3. PICK cuts \in SUBSET (1 .. MaxTime) : blocks = Fst!FileOf(wave, cuts, framed)
  BY DEF Fst!Init
<1> DEFINE at == Fst!Ascending(cuts \cup {0})
           len == Len(at)
           from == [b \in 1 .. len + 1 |-> IF b = len + 1 THEN MaxTime + 1 ELSE at[b]]
           to(b) == IF b = Len(at) THEN MaxTime + 1 ELSE at[b + 1]
<1>4. MaxTime \in Nat
  BY FstConstants
<1>5. Lists(at, cuts \cup {0})
  <2>1. cuts \cup {0} \in SUBSET (0 .. MaxTime)
    BY <1>4
  <2> QED BY <1>4, <2>1, AscendingLists
<1>6. blocks = [b \in DOMAIN at |-> Fst!BlockOf(wave, at[b], to(b), framed)]
  BY <1>3 DEF Fst!FileOf
<1> HIDE DEF at
<1>7. /\ len \in Nat /\ DOMAIN at = 1 .. len
      /\ \A k \in 1 .. len : at[k] \in 0 .. MaxTime /\ at[k] \in Nat
      /\ \E k \in 1 .. len : at[k] = 0
      /\ \A j, k \in 1 .. len : j < k => at[j] < at[k]
  <2>1. \A n \in cuts \cup {0} : n \in 0 .. MaxTime /\ n \in Nat
    BY <1>4
  <2>2. /\ len \in Nat /\ DOMAIN at = 1 .. len
        /\ \A k \in 1 .. len : at[k] \in cuts \cup {0}
        /\ \A n \in cuts \cup {0} : \E k \in 1 .. len : at[k] = n
        /\ \A j, k \in 1 .. len : j < k => at[j] < at[k]
    BY <1>5 DEF Lists
  <2>3. \E k \in 1 .. len : at[k] = 0
    BY <2>2
  <2> QED BY <2>1, <2>2, <2>3
<1>8. len # 0 /\ at[1] = 0
  <2>1. PICK k \in 1 .. len : at[k] = 0
    BY <1>7
  <2>2. 1 \in 1 .. len /\ (k = 1 \/ 1 < k)
    BY <1>7
  <2>3. at[1] \in Nat
    BY <1>7, <2>2
  <2> QED BY <1>7, <2>1, <2>2, <2>3
<1> HIDE DEF len
<1>9. CutAt(from, len)
  <2>1. from \in [1 .. len + 1 -> Nat] /\ from[1] = 0 /\ from[len + 1] = MaxTime + 1
    BY <1>4, <1>7, <1>8
  <2>2. ASSUME NEW i \in 1 .. len + 1, NEW j \in 1 .. len + 1, i < j PROVE from[i] < from[j]
    <3>1. i \in 1 .. len /\ from[i] = at[i]
      BY <1>7, <2>2
    <3>2. CASE j = len + 1
      BY <1>4, <1>7, <3>1, <3>2
    <3>3. CASE j # len + 1
      <4>1. j \in 1 .. len /\ from[j] = at[j]
        BY <1>7, <3>3
      <4> QED BY <1>7, <2>2, <3>1, <4>1
    <3> QED BY <3>2, <3>3
  <2> HIDE DEF from
  <2> QED BY <2>1, <2>2 DEF CutAt
<1>10. \A b \in 1 .. len : from[b] = at[b] /\ from[b + 1] = to(b)
  <2> SUFFICES ASSUME NEW b \in 1 .. len PROVE from[b] = at[b] /\ from[b + 1] = to(b)
    OBVIOUS
  <2>1. b \in 1 .. len + 1 /\ b # len + 1 /\ b + 1 \in 1 .. len + 1 /\ (b + 1 = len + 1 <=> b = len)
    BY <1>7
  <2> QED BY <2>1 DEF len
<1>11. Len(blocks) = len /\ DOMAIN blocks = 1 .. len
  BY <1>6, <1>7
<1>12. ASSUME NEW b \in 1 .. len PROVE BlockRight(blocks[b], from[b], from[b + 1])
  <2>1. blocks[b] = Fst!BlockOf(wave, from[b], from[b + 1], framed)
    BY <1>6, <1>7, <1>10
  <2>2. from[b] \in Nat /\ from[b + 1] \in Nat
    BY <1>7, <1>9 DEF CutAt
  <2> HIDE DEF from
  <2> QED BY <1>1, <1>2, <2>1, <2>2, BlockMade
<1> HIDE DEF from
<1>13. begins \in [1 .. len -> Nat] /\ \A b \in 1 .. len : Len(blocks[b].stamps) > 0 => begins[b] <= blocks[b].stamps[1]
  <2>1. begins \in [DOMAIN blocks -> Fst!Times] /\ \A b \in DOMAIN blocks : begins[b] \in Fst!MayBegin(b)
    BY DEF Fst!Init
  <2>2. begins \in [1 .. len -> Nat] /\ \A b \in 1 .. len : begins[b] \in Nat
    BY <1>4, <1>11, <2>1 DEF Fst!Times
  <2>3. ASSUME NEW b \in 1 .. len, Len(blocks[b].stamps) > 0 PROVE begins[b] <= blocks[b].stamps[1]
    <3> DEFINE stamps == blocks[b].stamps
    <3>1. Lists(stamps, {wave[k].at : k \in {j \in 1 .. Len(wave) : During(j, from[b], from[b + 1])}})
      BY <1>12 DEF BlockRight, StampsRight
    <3> HIDE DEF stamps
    <3>2. stamps # <<>> /\ 1 \in 1 .. Len(stamps)
      BY <2>3, <3>1 DEF Lists, stamps
    <3>3. stamps[1] \in Nat
      <4>1. PICK k \in 1 .. Len(wave) : stamps[1] = wave[k].at
        BY <3>1, <3>2 DEF Lists
      <4> QED BY <1>2, <4>1, RunIs
    <3>4. begins[b] \in Fst!MayBegin(b)
      BY <1>11, <2>1
    <3>5. CASE b = 1
      BY <3>3, <3>4, <3>5 DEF Fst!MayBegin, stamps
    <3>6. CASE b # 1
      BY <3>2, <3>4, <3>6 DEF Fst!MayBegin, stamps
    <3> QED BY <3>5, <3>6
  <2> QED BY <2>2, <2>3
<1>14. FileRight(from)
  BY <1>2, <1>7, <1>9, <1>11, <1>12, <1>13 DEF FileRight
<1> QED BY <1>14

-----------------------------------------------------------------------------
(* The replay of an FST file (FstReplay) *)

\* What the blocks of an undamaged file keep to.
Undamaged == Fst!InTheirOrder /\ ~Fst!Overlapping

FstTyped ==
  /\ SamplerTyped /\ InOrderOfTime /\ RowsFilled /\ Current(FstWatched)
  /\ block \in 0 .. Len(blocks) /\ open \in BOOLEAN /\ framed \in BOOLEAN /\ time \in Nat
  /\ DOMAIN position = FstWatched
  /\ open => /\ block >= 1
             /\ \A id \in FstWatched : position[id] \in 1 .. Len(blocks[block].streams[id]) + 1
\* The time is the last of a block that was read, where it is compared with the next one.
TimeRight ==
  outcome = "reading" /\ (open => Len(blocks[block].stamps) = 0) =>
    \/ time = 0
    \/ \E a \in 1 .. block : LET stamps == blocks[a].stamps IN Len(stamps) > 0 /\ time = stamps[Len(stamps)]
FstEnded ==
  /\ outcome = "failed" => Fst!Overlapping
  /\ outcome = "done" =>
       answered = Len(query) /\ \A i \in 1 .. Len(query) : beyond[i] = Fst!Placed(i, 0, MaxTime)

\* The first m changes of a signal are read: between two blocks, or inside one.
Between(id, m, now, next) ==
  /\ Held(id, m, current[id])
  /\ \A k \in 1 .. Len(wave) : wave[k].id = id =>
       IF k <= m THEN wave[k].at <= now /\ wave[k].at < next ELSE wave[k].at >= next
Ahead(id, m, now, next, chain) ==
  /\ Held(id, m, current[id])
  /\ \A k \in 1 .. Len(wave) : wave[k].id = id =>
       IF k <= m THEN wave[k].at <= now /\ wave[k].at < next
       ELSE wave[k].at >= next \/ \E i \in position[id] .. Len(chain) : chain[i] = k
  /\ \A i \in position[id] .. Len(chain) : chain[i] > m /\ wave[chain[i]].at >= now
Read(from, now) ==
  \A id \in FstWatched : \E m \in 0 .. Len(wave) :
    IF open THEN Ahead(id, m, now, from[block + 1], ChainOf(id, from[block], from[block + 1]))
            ELSE Between(id, m, now, from[block + 1])
ReadTo(from) ==
  \E now \in Nat :
    ReplayAt(now) /\ (\A b \in block + 1 .. Len(blocks) : now <= begins[b]) /\ Read(from, now)

FstInv(from) ==
  /\ FileRight(from) /\ FstTyped /\ TimeRight /\ FstEnded
  /\ Undamaged => RowsFollow(FstWatched) /\ (outcome = "reading" => ReadTo(from))

LEMMA FileKept ==
  ASSUME NEW from, UNCHANGED <<wave, blocks, begins, framed>>
  PROVE  /\ FileRight(from) => FileRight(from)'
         /\ Undamaged' <=> Undamaged
         /\ Fst!Overlapping' <=> Fst!Overlapping
         /\ \A id, lo, hi : ChainOf(id, lo, hi)' = ChainOf(id, lo, hi)
         /\ \A id, m, v : Held(id, m, v)' <=> Held(id, m, v)
<1>1. \A id, lo, hi : Streamed(id, lo, hi)' = Streamed(id, lo, hi)
  BY DEF Streamed, During, InFrame, Fst!InFrame
<1>2. \A id, lo, hi : ChainOf(id, lo, hi)' = ChainOf(id, lo, hi)
  BY <1>1 DEF ChainOf
<1>3. /\ Undamaged' <=> Undamaged
      /\ Fst!Overlapping' <=> Fst!Overlapping
  BY DEF Undamaged, Fst!Overlapping, Fst!InTheirOrder
<1>4. \A id, m, v : Held(id, m, v)' <=> Held(id, m, v)
  BY DEF Held
<1>5. \A stamps, lo, hi : StampsRight(stamps, lo, hi)' <=> StampsRight(stamps, lo, hi)
  BY DEF StampsRight, During, Lists
<1>6. \A stream, stamps, chain : StreamRight(stream, stamps, chain)' <=> StreamRight(stream, stamps, chain)
  BY DEF StreamRight
<1>7. \A v, id, lo : FrameRight(v, id, lo)' <=> FrameRight(v, id, lo)
  BY DEF FrameRight, Held, Early, InFrame, Fst!InFrame
<1>8. \A made, lo, hi : BlockRight(made, lo, hi) => BlockRight(made, lo, hi)'
  BY <1>2, <1>5, <1>6, <1>7 DEF BlockRight
<1>9. FileRight(from) => FileRight(from)'
  <2>1. RunRight => RunRight'
    BY DEF RunRight
  <2> QED BY <1>8, <2>1 DEF FileRight
<1> QED BY <1>2, <1>3, <1>4, <1>9

LEMMA CutIs ==
  ASSUME NEW from, FileRight(from)
  PROVE  /\ RunRight /\ Len(blocks) \in Nat /\ DOMAIN blocks = 1 .. Len(blocks) /\ from[1] = 0 /\ from[Len(blocks) + 1] = MaxTime + 1
         /\ \A b \in 1 .. Len(blocks) + 1 : from[b] \in Nat
         /\ \A a, b \in 1 .. Len(blocks) + 1 : a <= b => from[a] <= from[b]
         /\ \A b \in 1 .. Len(blocks) : BlockRight(blocks[b], from[b], from[b + 1]) /\ begins[b] \in Nat
<1>1. \A b \in 1 .. Len(blocks) + 1 : from[b] \in Nat
  BY DEF FileRight, CutAt
<1>2. \A a, b \in 1 .. Len(blocks) + 1 : a <= b => from[a] <= from[b]
  <2> SUFFICES ASSUME NEW a \in 1 .. Len(blocks) + 1, NEW b \in 1 .. Len(blocks) + 1, a <= b PROVE from[a] <= from[b]
    OBVIOUS
  <2>1. CASE a = b
    BY <1>1, <2>1
  <2>2. CASE a # b
    <3>1. a < b
      BY <2>2 DEF FileRight
    <3> QED BY <1>1, <3>1 DEF FileRight, CutAt
  <2> QED BY <2>1, <2>2
<1> QED BY <1>1, <1>2 DEF FileRight, CutAt

LEMMA StampsAre ==
  ASSUME NEW from, FileRight(from), NEW b \in 1 .. Len(blocks)
  PROVE  LET stamps == blocks[b].stamps IN
         /\ Len(stamps) \in Nat /\ Len(stamps) <= MaxTime + 1
         /\ \A i \in 1 .. Len(stamps) : stamps[i] \in Nat /\ from[b] <= stamps[i] /\ stamps[i] < from[b + 1]
         /\ \A i, j \in 1 .. Len(stamps) : i <= j => stamps[i] <= stamps[j]
         /\ \A i, j \in 1 .. Len(stamps) : i < j => stamps[i] < stamps[j]
         /\ \A k \in 1 .. Len(wave) : During(k, from[b], from[b + 1]) => \E i \in 1 .. Len(stamps) : stamps[i] = wave[k].at
         /\ Len(stamps) > 0 => begins[b] <= stamps[1]
<1> DEFINE stamps == blocks[b].stamps
           times == {wave[k].at : k \in {j \in 1 .. Len(wave) : During(j, from[b], from[b + 1])}}
<1>1. RunRight /\ Lists(stamps, times) /\ Len(stamps) <= MaxTime + 1
  BY CutIs DEF BlockRight, StampsRight
<1>2. \A n \in times : n \in Nat /\ from[b] <= n /\ n < from[b + 1]
  BY <1>1, RunIs DEF During
<1>3. \A k \in 1 .. Len(wave) : During(k, from[b], from[b + 1]) => wave[k].at \in times
  OBVIOUS
<1>4. Len(stamps) > 0 => begins[b] <= stamps[1]
  BY DEF FileRight
<1> HIDE DEF stamps, times
<1>5. Len(stamps) \in Nat /\ \A i \in 1 .. Len(stamps) : stamps[i] \in Nat /\ from[b] <= stamps[i] /\ stamps[i] < from[b + 1]
  BY <1>1, <1>2 DEF Lists
<1>6. \A i, j \in 1 .. Len(stamps) : i < j => stamps[i] < stamps[j]
  BY <1>1 DEF Lists
<1>7. \A i, j \in 1 .. Len(stamps) : i <= j => stamps[i] <= stamps[j]
  <2> SUFFICES ASSUME NEW i \in 1 .. Len(stamps), NEW j \in 1 .. Len(stamps), i <= j PROVE stamps[i] <= stamps[j]
    OBVIOUS
  <2>1. i = j \/ i < j
    BY <1>5
  <2> QED BY <1>5, <1>6, <2>1
<1>8. \A k \in 1 .. Len(wave) : During(k, from[b], from[b + 1]) => \E i \in 1 .. Len(stamps) : stamps[i] = wave[k].at
  BY <1>1, <1>3 DEF Lists
<1> QED BY <1>1, <1>4, <1>5, <1>6, <1>7, <1>8 DEF stamps

\* Every change is in a block.
LEMMA SomeBlock ==
  ASSUME NEW from, FileRight(from), NEW k \in 1 .. Len(wave)
  PROVE  \E b \in 1 .. Len(blocks) : During(k, from[b], from[b + 1])
<1>1. /\ RunRight /\ Len(blocks) \in Nat /\ from[1] = 0 /\ from[Len(blocks) + 1] = MaxTime + 1
      /\ \A b \in 1 .. Len(blocks) + 1 : from[b] \in Nat
  BY CutIs
<1>2. wave[k].at \in Nat /\ wave[k].at <= MaxTime /\ MaxTime \in Nat
  BY <1>1, RunIs, FstConstants
<1> DEFINE begun == {b \in 1 .. Len(blocks) : from[b] <= wave[k].at}
<1>3. begun # {}
  <2>1. Len(blocks) # 0
    BY <1>1, <1>2
  <2> QED BY <1>1, <1>2, <2>1
<1>4. PICK b \in begun : \A a \in begun : a <= b
  BY <1>1, <1>3, Greatest
<1>5. b \in 1 .. Len(blocks) /\ from[b] <= wave[k].at /\ b + 1 \notin begun
  BY <1>1, <1>4
<1>6. wave[k].at < from[b + 1]
  <2>1. CASE b = Len(blocks)
    BY <1>1, <1>2, <2>1
  <2>2. CASE b # Len(blocks)
    <3>1. b + 1 \in 1 .. Len(blocks) /\ b + 1 \in 1 .. Len(blocks) + 1
      BY <1>1, <1>5, <2>2
    <3>2. ~(from[b + 1] <= wave[k].at)
      BY <1>5, <3>1
    <3>3. from[b + 1] \in Nat
      BY <1>1, <3>1
    <3> QED BY <1>2, <3>2, <3>3
  <2> QED BY <2>1, <2>2
<1> QED BY <1>5, <1>6 DEF During

\* In an undamaged file a block begins after the changes before it, and before its own.
LEMMA BeginsRight ==
  ASSUME NEW from, FileRight(from), Undamaged, NEW b \in 1 .. Len(blocks), NEW k \in 1 .. Len(wave)
  PROVE  IF wave[k].at < from[b] THEN wave[k].at <= begins[b] ELSE wave[k].at >= begins[b]
<1>1. /\ RunRight /\ Len(blocks) \in Nat /\ DOMAIN blocks = 1 .. Len(blocks)
      /\ \A a \in 1 .. Len(blocks) : begins[a] \in Nat
      /\ \A a \in 1 .. Len(blocks) + 1 : from[a] \in Nat
      /\ \A a, c \in 1 .. Len(blocks) + 1 : a <= c => from[a] <= from[c]
  BY CutIs
<1>2. wave[k].at \in Nat
  BY <1>1, RunIs
<1>3. PICK a \in 1 .. Len(blocks) : During(k, from[a], from[a + 1])
  BY SomeBlock
<1> DEFINE stamps == blocks[a].stamps
<1>4. /\ Len(stamps) \in Nat /\ (Len(stamps) > 0 => begins[a] <= stamps[1])
      /\ \A i \in 1 .. Len(stamps) : stamps[i] \in Nat
      /\ \A i, j \in 1 .. Len(stamps) : i <= j => stamps[i] <= stamps[j]
  BY StampsAre
<1>5. PICK i \in 1 .. Len(stamps) : stamps[i] = wave[k].at
  BY <1>3, StampsAre
<1>6. Fst!InTheirOrder /\ ~Fst!Overlapping
  BY DEF Undamaged
<1>7. a < b => wave[k].at <= begins[b]
  <2> SUFFICES ASSUME a < b PROVE wave[k].at <= begins[b]
    OBVIOUS
  <2>1. stamps # <<>>
    BY <1>4
  <2>2. ~(begins[b] < stamps[Len(stamps)])
    BY <1>1, <1>6, <2>1 DEF Fst!Overlapping, Fst!Last
  <2> HIDE DEF stamps
  <2>3. Len(stamps) \in 1 .. Len(stamps) /\ i <= Len(stamps)
    BY <1>4
  <2>4. stamps[i] <= stamps[Len(stamps)] /\ stamps[Len(stamps)] \in Nat
    BY <1>4, <2>3
  <2>5. begins[b] \in Nat
    BY <1>1
  <2>6. stamps[Len(stamps)] <= begins[b]
    BY <2>2, <2>4, <2>5
  <2> QED BY <1>2, <1>5, <2>4, <2>5, <2>6
<1>8. b <= a => wave[k].at >= begins[b]
  <2> SUFFICES ASSUME b <= a PROVE wave[k].at >= begins[b]
    OBVIOUS
  <2>1. begins[b] <= begins[a]
    <3>1. b \in Nat /\ a \in Nat /\ begins[a] \in Nat
      BY <1>1
    <3>2. CASE b = a
      BY <3>1, <3>2
    <3>3. CASE b < a
      BY <1>1, <1>6, <3>3 DEF Fst!InTheirOrder
    <3> QED BY <3>1, <3>2, <3>3
  <2> HIDE DEF stamps
  <2>2. 1 \in 1 .. Len(stamps) /\ Len(stamps) > 0 /\ 1 <= i
    BY <1>4
  <2>3. begins[a] <= stamps[1] /\ stamps[1] <= stamps[i]
    BY <1>4, <2>2
  <2> QED BY <1>1, <1>2, <1>4, <1>5, <2>1, <2>2, <2>3
<1>9. a < b => wave[k].at < from[b]
  <2> SUFFICES ASSUME a < b PROVE wave[k].at < from[b]
    OBVIOUS
  <2>1. from[a + 1] <= from[b] /\ from[a + 1] \in Nat /\ from[b] \in Nat
    BY <1>1
  <2> QED BY <1>2, <1>3, <2>1 DEF During
<1>10. b <= a => ~(wave[k].at < from[b])
  <2> SUFFICES ASSUME b <= a PROVE ~(wave[k].at < from[b])
    OBVIOUS
  <2>1. from[b] <= from[a] /\ from[a] \in Nat /\ from[b] \in Nat
    BY <1>1
  <2> QED BY <1>2, <1>3, <2>1 DEF During
<1>11. a < b \/ b <= a
  BY <1>1
<1> QED BY <1>7, <1>8, <1>9, <1>10, <1>11

\* The changes up to now are made, and the next ones are not before t.
Ready(now, t) ==
  /\ ReplayAt(now) /\ now <= t
  /\ \A id \in FstWatched : \E m \in 0 .. Len(wave) :
       /\ Held(id, m, current[id])
       /\ \A k \in 1 .. Len(wave) : wave[k].id = id => IF k <= m THEN wave[k].at <= now ELSE wave[k].at >= t

LEMMA RightUpTo ==
  ASSUME SamplerTyped, IsWave(wave), NEW now \in Nat, NEW t \in Nat, Ready(now, t), NEW n,
         \A j \in 1 .. Len(query) : j > answered /\ j <= n => When(j) < t
  PROVE  RightFor(FstWatched, n)
<1> SUFFICES ASSUME NEW j \in 1 .. Len(query), j > answered, j <= n, NEW id \in FstWatched
             PROVE  LastIs(wave, id, When(j), current[id])
  BY DEF RightFor
<1>1. When(j) \in Nat /\ When(j) >= now /\ When(j) < t /\ j \in Nat /\ answered \in Nat
  BY Positions DEF Ready, ReplayAt
<1>2. PICK m \in 0 .. Len(wave) :
        /\ Held(id, m, current[id])
        /\ \A k \in 1 .. Len(wave) : wave[k].id = id => IF k <= m THEN wave[k].at <= now ELSE wave[k].at >= t
  BY DEF Ready
<1>3. ASSUME NEW k \in 1 .. Len(wave), wave[k].id = id PROVE k <= m <=> wave[k].at <= When(j)
  <2>1. wave[k].at \in Nat
    BY DEF IsWave
  <2>2. IF k <= m THEN wave[k].at <= now ELSE wave[k].at >= t
    BY <1>2, <1>3
  <2>3. CASE k <= m
    BY <1>1, <2>1, <2>2, <2>3
  <2>4. CASE ~(k <= m)
    BY <1>1, <2>1, <2>2, <2>4
  <2> QED BY <2>3, <2>4
<1> QED BY <1>1, <1>2, <1>3, HeldIs

\* The replay of an FST file goes to a later time.
LEMMA AdvanceRight ==
  ASSUME FstTyped, IsWave(wave), UNCHANGED wave, NEW t \in Nat, NEW n, PassedIs(t, n)
  PROVE  /\ n \in answered .. Len(query)
         /\ \A now \in Nat : Ready(now, t) => RightFor(FstWatched, n)
         /\ Records(n) => /\ SamplerTyped' /\ InOrderOfTime' /\ RowsFilled'
                          /\ \A now \in Nat : Ready(now, t) =>
                               ReplayAt(t)' /\ (RowsFollow(FstWatched) => RowsFollow(FstWatched)')
<1>1. SamplerTyped /\ InOrderOfTime /\ RowsFilled /\ Current(FstWatched)
  BY DEF FstTyped
<1>2. /\ n \in answered .. Len(query)
      /\ \A k \in 1 .. Len(query) : k > answered /\ k <= n => When(k) < t
      /\ \A now \in Nat : ReplayAt(now) /\ now <= t =>
           \A k \in 1 .. Len(query) : IF k <= n THEN When(k) < t ELSE When(k) >= t
  BY <1>1, PassedRight
<1>3. ASSUME NEW now \in Nat, Ready(now, t) PROVE RightFor(FstWatched, n)
  BY <1>1, <1>2, <1>3, RightUpTo
<1>4. ASSUME Records(n), NEW now \in Nat, Ready(now, t) PROVE ReplayAt(t)'
  <2>1. \A k \in 1 .. Len(query) : IF k <= n THEN When(k) < t ELSE When(k) >= t
    BY <1>2, <1>4 DEF Ready
  <2> QED BY <1>4, <2>1 DEF Records, ReplayAt, When
<1>5. ASSUME Records(n)
      PROVE  SamplerTyped' /\ InOrderOfTime' /\ RowsFilled' /\ (RowsFollow(FstWatched) /\ RightFor(FstWatched, n) => RowsFollow(FstWatched)')
  BY <1>1, <1>2, <1>5, RecordRight
<1> QED BY <1>2, <1>3, <1>4, <1>5

LEMMA AdvancesIs ==
  ASSUME NEW t, Fst!Advance(t), UNCHANGED <<query, pending>>
  PROVE  \E n : PassedIs(t, n) /\ Records(n) /\ n = Fst!Passed(t)
<1>1. PICK n : n = Fst!Passed(t)
  OBVIOUS
<1>2. PassedIs(t, n)
  BY <1>1 DEF Fst!Passed, PassedIs
<1>3. Records(n)
  BY <1>1 DEF Fst!Advance, Fst!RecordedTo, Records
<1> QED BY <1>1, <1>2, <1>3

\* The query ends, early or not.
LEMMA FinishesRight ==
  ASSUME NEW from, FstInv(from), UNCHANGED <<wave, blocks, begins, framed>>, Fst!FinishWith(0, MaxTime),
         Undamaged => RightFor(FstWatched, Len(query)),
         block' \in 0 .. Len(blocks), open' = FALSE, time' \in Nat, position' = position
  PROVE  FstInv(from)'
<1>1. /\ FileRight(from) /\ FstTyped /\ SamplerTyped /\ InOrderOfTime /\ RowsFilled /\ Current(FstWatched)
      /\ framed \in BOOLEAN /\ DOMAIN position = FstWatched
      /\ Undamaged => RowsFollow(FstWatched)
  BY DEF FstInv, FstTyped
<1>2. PICK n : n = Len(query)
  OBVIOUS
<1>3. /\ Records(n) /\ answered' = n /\ outcome' = "done" /\ UNCHANGED <<query, pending, current>>
      /\ beyond' = [i \in DOMAIN query |-> Fst!Placed(i, 0, MaxTime)]
  BY <1>2 DEF Fst!FinishWith, Fst!RecordedTo, Records
<1>4. n \in answered .. Len(query) /\ DOMAIN query = 1 .. Len(query)
  BY <1>1, <1>2, Positions
<1>5. /\ SamplerTyped' /\ InOrderOfTime' /\ RowsFilled'
      /\ RowsFollow(FstWatched) /\ RightFor(FstWatched, n) => RowsFollow(FstWatched)'
  BY <1>1, <1>3, <1>4, RecordRight
<1>6. FileRight(from)' /\ (Undamaged' <=> Undamaged)
  BY <1>1, FileKept
<1>7. FstTyped'
  <2>1. Current(FstWatched)'
    BY <1>1, <1>3 DEF Current
  <2>2. open' \in BOOLEAN /\ ~open'
    BY Zenon
  <2>3. framed' \in BOOLEAN /\ DOMAIN position' = FstWatched
    BY <1>1
  <2>4. (block \in 0 .. Len(blocks))'
    OBVIOUS
  <2> QED BY <1>5, <2>1, <2>2, <2>3, <2>4 DEF FstTyped
<1>8. TimeRight'
  BY <1>3 DEF TimeRight
<1>9. FstEnded'
  <2>1. \A i \in 1 .. Len(query) : Fst!Placed(i, 0, MaxTime)' = Fst!Placed(i, 0, MaxTime)
    BY <1>3 DEF Fst!Placed
  <2> QED BY <1>2, <1>3, <1>4, <2>1 DEF FstEnded
<1>10. Undamaged' => RowsFollow(FstWatched)' /\ outcome' # "reading"
  BY <1>1, <1>2, <1>3, <1>5, <1>6
<1> QED BY <1>6, <1>7, <1>8, <1>9, <1>10 DEF FstInv

LEMMA EndsAtRight ==
  ASSUME NEW from, FstInv(from), UNCHANGED <<wave, blocks, begins, framed>>, NEW t \in Nat, Fst!EndsAt(t),
         Undamaged => \E now \in Nat : Ready(now, t),
         block' \in 0 .. Len(blocks), time' \in Nat
  PROVE  FstInv(from)'
<1>1. Fst!FinishWith(0, MaxTime) /\ Fst!Passed(t) = Len(query) /\ open' = FALSE /\ position' = position
  BY DEF Fst!EndsAt, Fst!AllAnswered
<1>2. PICK n : n = Len(query)
  OBVIOUS
<1>3. PassedIs(t, n)
  BY <1>1, <1>2 DEF Fst!Passed, PassedIs
<1>4. FstTyped /\ IsWave(wave)
  BY CutIs, RunIs DEF FstInv
<1>5. Undamaged => RightFor(FstWatched, n)
  BY <1>3, <1>4, AdvanceRight
<1> QED BY <1>1, <1>2, <1>5, FinishesRight

\* A step that goes to a later time and reads on.
LEMMA ReadsOn ==
  ASSUME NEW from, FstInv(from), UNCHANGED <<wave, blocks, begins, framed>>, NEW t \in Nat, Fst!Advance(t),
         UNCHANGED <<query, pending, beyond, outcome>>, outcome = "reading",
         current' \in [FstWatched -> Values \cup {None}],
         block' \in 1 .. Len(blocks), open' \in BOOLEAN, time' \in Nat, DOMAIN position' = FstWatched,
         \A id \in FstWatched : position'[id] \in 1 .. Len(blocks[block'].streams[id]) + 1,
         TimeRight',
         Undamaged => /\ \E now \in Nat : Ready(now, t)
                      /\ (\A b \in block + 1 .. Len(blocks) : t <= begins[b])'
                      /\ Read(from, t)'
  PROVE  FstInv(from)'
<1>1. /\ FileRight(from) /\ FstTyped /\ framed \in BOOLEAN
      /\ Undamaged => RowsFollow(FstWatched)
      /\ Len(blocks) \in Nat
  BY CutIs DEF FstInv, FstTyped
<1>2. IsWave(wave)
  BY <1>1, CutIs, RunIs
<1>3. PICK n : PassedIs(t, n) /\ Records(n)
  BY AdvancesIs
<1>4. /\ SamplerTyped' /\ InOrderOfTime' /\ RowsFilled'
      /\ \A now \in Nat : Ready(now, t) => ReplayAt(t)' /\ (RowsFollow(FstWatched) => RowsFollow(FstWatched)')
  BY <1>1, <1>2, <1>3, AdvanceRight
<1>5. FileRight(from)' /\ (Undamaged' <=> Undamaged)
  BY <1>1, FileKept
<1>6. FstTyped'
  <2>1. Current(FstWatched)'
    BY FstConstants DEF Current
  <2>2. block' \in 0 .. Len(blocks) /\ block' >= 1
    BY <1>1
  <2>3. framed' \in BOOLEAN
    BY <1>1
  <2> QED BY <1>4, <2>1, <2>2, <2>3 DEF FstTyped
<1>7. FstEnded'
  BY DEF FstEnded
<1>8. Undamaged' => RowsFollow(FstWatched)' /\ ReadTo(from)'
  <2> SUFFICES ASSUME Undamaged PROVE RowsFollow(FstWatched)' /\ ReadTo(from)'
    BY <1>5
  <2>1. ReplayAt(t)' /\ RowsFollow(FstWatched)'
    BY <1>1, <1>4
  <2> QED BY <2>1 DEF ReadTo
<1> QED BY <1>5, <1>6, <1>7, <1>8 DEF FstInv

LEMMA FstInitially ==
  ASSUME Fst!Init
  PROVE  \E from : FstInv(from)
<1>1. PICK from : FileRight(from)
  BY FileMade
<1>2. /\ Fst!SamplerInit /\ framed \in BOOLEAN /\ block = 0 /\ open = FALSE
      /\ position = [id \in FstWatched |-> 1] /\ time = 0
  BY DEF Fst!Init
<1>3. /\ query \in FstQueries /\ pending \in [DOMAIN query -> DOMAIN query] /\ Fst!SortedBy(pending, query)
      /\ answered = 0 /\ rows = [i \in DOMAIN query |-> None] /\ current = [id \in FstWatched |-> None] /\ outcome = "reading"
  BY <1>2 DEF Fst!SamplerInit
<1>4. query \in Seq(Asked) /\ DOMAIN query = 1 .. Len(query) /\ Len(query) \in Nat
  BY <1>3, FstConstants
<1>5. SamplerTyped
  BY <1>3, <1>4 DEF SamplerTyped
<1>6. InOrderOfTime
  BY <1>3, <1>4, SortedIs DEF Fst!SortedBy
<1>7. Current(FstWatched)
  <2>1. current \in [FstWatched -> Values \cup {None}]
    BY <1>3
  <2> QED BY <1>3, <2>1, FstConstants DEF Current
<1>8. RunRight /\ IsWave(wave) /\ Len(wave) \in Nat /\ Len(blocks) \in Nat /\ from[1] = 0
      /\ \A b \in 1 .. Len(blocks) : begins[b] \in Nat
  BY <1>1, CutIs, RunIs
<1>9. \A k \in 1 .. Len(query) : pending[k] \in DOMAIN query /\ ~(k <= 0) /\ When(k) \in Nat
  BY <1>3, <1>4, <1>5, Positions
<1>10. RowsFilled /\ RowsFollow(FstWatched)
  BY <1>3, <1>9 DEF RowsFilled, RowsFollow, RowOf
<1>11. ReplayAt(0)
  BY <1>3, <1>9 DEF ReplayAt
<1>12. FstTyped
  <2>1. open \in BOOLEAN /\ ~open
    BY <1>2, Zenon
  <2>2. block \in 0 .. Len(blocks) /\ time \in Nat /\ DOMAIN position = FstWatched
    BY <1>2, <1>8
  <2> QED BY <1>2, <1>5, <1>6, <1>7, <1>10, <2>1, <2>2 DEF FstTyped
<1>13. ASSUME NEW id \in FstWatched PROVE Between(id, 0, 0, from[block + 1])
  <2>1. current[id] = None /\ block + 1 = 1
    BY <1>2, <1>3
  <2>2. Held(id, 0, current[id])
    BY <2>1 DEF Held
  <2>3. \A k \in 1 .. Len(wave) : ~(k <= 0) /\ wave[k].at >= 0
    BY <1>8 DEF IsWave
  <2> QED BY <1>8, <2>1, <2>2, <2>3 DEF Between
<1>14. ReadTo(from)
  <2>1. Read(from, 0)
    BY <1>2, <1>8, <1>13 DEF Read
  <2>2. \A b \in block + 1 .. Len(blocks) : 0 <= begins[b]
    BY <1>2, <1>8
  <2> QED BY <1>11, <2>1, <2>2 DEF ReadTo
<1>15. TimeRight /\ FstEnded
  BY <1>2, <1>3 DEF TimeRight, FstEnded
<1> QED BY <1>1, <1>10, <1>12, <1>14, <1>15 DEF FstInv

-----------------------------------------------------------------------------
(* The next change of each stream *)

ChainAt(from, id) == ChainOf(id, from[block], from[block + 1])

LEMMA OpenIs ==
  ASSUME NEW from, FileRight(from), FstTyped, open
  PROVE  /\ block \in 1 .. Len(blocks) /\ block \in Nat /\ block + 1 \in 1 .. Len(blocks) + 1
         /\ from[block] \in Nat /\ from[block + 1] \in Nat /\ from[block] <= from[block + 1]
         /\ BlockRight(blocks[block], from[block], from[block + 1])
<1>1. block \in 1 .. Len(blocks) /\ Len(blocks) \in Nat
  BY CutIs DEF FstTyped
<1>2. block \in Nat /\ block \in 1 .. Len(blocks) + 1 /\ block + 1 \in 1 .. Len(blocks) + 1 /\ block <= block + 1
  BY <1>1
<1> QED BY <1>1, <1>2, CutIs

LEMMA ChainIs ==
  ASSUME NEW from, FileRight(from), FstTyped, open, NEW id \in FstWatched
  PROVE  LET chain == ChainAt(from, id)
             stamps == blocks[block].stamps IN
         /\ Len(chain) \in Nat /\ position[id] \in 1 .. Len(chain) + 1
         /\ \A i \in 1 .. Len(chain) : /\ chain[i] \in 1 .. Len(wave) /\ wave[chain[i]].id = id
                                       /\ wave[chain[i]].at < from[block + 1]
         /\ \A i, j \in 1 .. Len(chain) : i < j => chain[i] < chain[j]
         /\ \A i, j \in 1 .. Len(chain) : i <= j => chain[i] <= chain[j] /\ wave[chain[i]].at <= wave[chain[j]].at
         /\ IF position[id] > Len(chain) THEN Fst!Index(id) = Fst!Infinity
            ELSE /\ Fst!Index(id) \in 1 .. Len(stamps)
                 /\ stamps[Fst!Index(id)] = wave[chain[position[id]]].at
                 /\ Fst!Stream(id)[position[id]].value = wave[chain[position[id]]].value
<1> DEFINE chain == ChainAt(from, id)
           stamps == blocks[block].stamps
           stream == blocks[block].streams[id]
           p == position[id]
<1>1. RunRight /\ BlockRight(blocks[block], from[block], from[block + 1]) /\ id \in FstIds
  BY OpenIs, CutIs, FstConstants
<1>2. StreamRight(stream, stamps, chain) /\ Lists(chain, Streamed(id, from[block], from[block + 1]))
  BY <1>1, ChainLists DEF BlockRight, ChainAt
<1>3. Fst!Index(id) = (IF p > Len(stream) THEN Fst!Infinity ELSE stream[p].index) /\ Fst!Stream(id) = stream
  BY DEF Fst!Index, Fst!Stream
<1>4. p \in 1 .. Len(stream) + 1
  BY DEF FstTyped
<1> HIDE DEF chain, stamps, stream, p
<1>5. /\ Len(chain) \in Nat /\ Len(stream) = Len(chain)
      /\ \A i \in 1 .. Len(chain) :
           /\ stream[i].index \in 1 .. Len(stamps) /\ stamps[stream[i].index] = wave[chain[i]].at
           /\ stream[i].value = wave[chain[i]].value
  BY <1>2 DEF StreamRight, Lists
<1>6. /\ \A i \in 1 .. Len(chain) : /\ chain[i] \in 1 .. Len(wave) /\ wave[chain[i]].id = id
                                    /\ wave[chain[i]].at < from[block + 1]
      /\ \A i, j \in 1 .. Len(chain) : i < j => chain[i] < chain[j]
  BY <1>2 DEF Lists, Streamed, During
<1>7. ASSUME NEW i \in 1 .. Len(chain), NEW j \in 1 .. Len(chain), i <= j
      PROVE  chain[i] <= chain[j] /\ wave[chain[i]].at <= wave[chain[j]].at
  <2>1. chain[i] \in 1 .. Len(wave) /\ chain[j] \in 1 .. Len(wave) /\ Len(wave) \in Nat
    BY <1>1, <1>6, RunIs
  <2>2. chain[i] <= chain[j]
    <3>1. CASE i = j
      BY <2>1, <3>1
    <3>2. CASE i < j
      BY <1>6, <2>1, <3>2
    <3> QED BY <1>5, <1>7, <3>1, <3>2
  <2> QED BY <1>1, <2>1, <2>2 DEF RunRight
<1>8. IF p > Len(chain) THEN Fst!Index(id) = Fst!Infinity
      ELSE /\ Fst!Index(id) \in 1 .. Len(stamps)
           /\ stamps[Fst!Index(id)] = wave[chain[p]].at
           /\ Fst!Stream(id)[p].value = wave[chain[p]].value
  <2>1. CASE p > Len(chain)
    BY <1>3, <1>5, <2>1
  <2>2. CASE ~(p > Len(chain))
    <3>1. p \in 1 .. Len(chain)
      BY <1>4, <1>5, <2>2
    <3> QED BY <1>3, <1>5, <2>2, <3>1
  <2> QED BY <2>1, <2>2
<1> QED BY <1>4, <1>5, <1>6, <1>7, <1>8 DEF chain, stamps, p

\* The least index in the streams is that of a watched signal's next change.
LEMMA NextIs ==
  ASSUME NEW from, FileRight(from), FstTyped, open
  PROVE  /\ \E id \in FstWatched : Fst!Index(id) = Fst!NextIndex
         /\ \A id \in FstWatched : Fst!NextIndex <= Fst!Index(id)
         /\ Fst!Infinity \in Nat /\ Fst!NextIndex \in 1 .. Fst!Infinity
         /\ \A id \in FstWatched : Fst!Index(id) \in Nat
         /\ \A id \in FstWatched : position[id] <= Len(ChainAt(from, id)) => Fst!Index(id) # Fst!Infinity
         /\ Fst!NextIndex # Fst!Infinity => Fst!NextIndex \in 1 .. Len(blocks[block].stamps)
<1> DEFINE stamps == blocks[block].stamps
           indices == {Fst!Index(id) : id \in FstWatched}
           inf == Fst!Infinity
           least == Fst!NextIndex
<1>1. inf \in Nat /\ inf = MaxTime + 2 /\ Len(stamps) \in Nat /\ Len(stamps) <= MaxTime + 1 /\ MaxTime \in Nat
  BY OpenIs, StampsAre, FstConstants DEF Fst!Infinity
<1>2. ASSUME NEW id \in FstWatched
      PROVE  /\ IF position[id] > Len(ChainAt(from, id)) THEN Fst!Index(id) = inf ELSE Fst!Index(id) \in 1 .. Len(stamps)
             /\ position[id] \in Nat /\ Len(ChainAt(from, id)) \in Nat
  <2>1. Len(ChainAt(from, id)) \in Nat /\ position[id] \in 1 .. Len(ChainAt(from, id)) + 1
    BY ChainIs
  <2>2. IF position[id] > Len(ChainAt(from, id)) THEN Fst!Index(id) = inf ELSE Fst!Index(id) \in 1 .. Len(stamps)
    BY ChainIs
  <2> QED BY <2>1, <2>2
<1>3. least = CHOOSE n \in 1 .. inf : (\E id \in FstWatched : Fst!Index(id) = n) /\ \A id \in FstWatched : n <= Fst!Index(id)
  BY DEF Fst!NextIndex
<1> HIDE DEF stamps, inf, least
<1>4. \A id \in FstWatched : /\ Fst!Index(id) \in 1 .. inf
                             /\ Fst!Index(id) = inf \/ Fst!Index(id) \in 1 .. Len(stamps)
                             /\ position[id] <= Len(ChainAt(from, id)) => Fst!Index(id) # inf
  <2> SUFFICES ASSUME NEW id \in FstWatched
               PROVE  /\ Fst!Index(id) \in 1 .. inf
                      /\ Fst!Index(id) = inf \/ Fst!Index(id) \in 1 .. Len(stamps)
                      /\ position[id] <= Len(ChainAt(from, id)) => Fst!Index(id) # inf
    OBVIOUS
  <2>1. CASE position[id] > Len(ChainAt(from, id))
    BY <1>1, <1>2, <2>1
  <2>2. CASE ~(position[id] > Len(ChainAt(from, id)))
    BY <1>1, <1>2, <2>2
  <2> QED BY <2>1, <2>2
<1>5. \E n \in 1 .. inf : (\E id \in FstWatched : Fst!Index(id) = n) /\ \A id \in FstWatched : n <= Fst!Index(id)
  <2>1. indices \in SUBSET Nat /\ indices # {} /\ indices \in SUBSET (1 .. inf)
    BY <1>1, <1>4, FstConstants
  <2>2. PICK n \in indices : \A k \in indices : n <= k
    BY <2>1, Least
  <2> QED BY <2>1, <2>2
<1>6. /\ least \in 1 .. inf
      /\ \E id \in FstWatched : Fst!Index(id) = least
      /\ \A id \in FstWatched : least <= Fst!Index(id)
  BY <1>3, <1>5
<1>7. least # inf => least \in 1 .. Len(stamps)
  BY <1>4, <1>6
<1>8. \A id \in FstWatched : Fst!Index(id) \in Nat
  BY <1>1, <1>4
<1> QED BY <1>1, <1>4, <1>6, <1>7, <1>8 DEF stamps, inf, least

-----------------------------------------------------------------------------
(* A block is opened *)

\* The start values are those of the changes before the block: its streams are all there is to come.
LEMMA OpensAt ==
  ASSUME NEW from, FileRight(from), Undamaged, framed \in BOOLEAN, UNCHANGED <<wave, blocks, begins, framed>>,
         NEW b \in 1 .. Len(blocks), NEW id \in FstWatched, position'[id] = 1, NEW m \in 0 .. Len(wave), Held(id, m, current'[id]),
         \A k \in 1 .. Len(wave) : wave[k].id = id => (k <= m <=> Early(k, from[b]))
  PROVE  Ahead(id, m, begins[b], from[b + 1], ChainOf(id, from[b], from[b + 1]))'
<1> DEFINE chain == ChainOf(id, from[b], from[b + 1])
           now == begins[b]
           lo == from[b]
           hi == from[b + 1]
<1>1. /\ RunRight /\ lo \in Nat /\ hi \in Nat /\ lo < hi /\ now \in Nat
  <2>1. Len(blocks) \in Nat
    BY CutIs
  <2>2. b \in 1 .. Len(blocks) + 1 /\ b + 1 \in 1 .. Len(blocks) + 1 /\ b < b + 1
    BY <2>1
  <2> QED BY <2>2, CutIs DEF FileRight, CutAt
<1>2. \A k \in 1 .. Len(wave) : wave[k].at \in Nat /\ k \in Nat /\ Len(wave) \in Nat
  BY <1>1, RunIs
<1>3. \A k \in 1 .. Len(wave) : IF wave[k].at < lo THEN wave[k].at <= now ELSE wave[k].at >= now
  BY BeginsRight
<1>4. Lists(chain, Streamed(id, lo, hi))
  BY <1>1, ChainLists
<1>5. position'[id] = 1 /\ begins' = begins /\ wave' = wave
  OBVIOUS
<1>6. ChainOf(id, lo, hi)' = ChainOf(id, lo, hi) /\ (Held(id, m, current[id])' <=> Held(id, m, current'[id]))
  BY FileKept DEF Held
<1> HIDE DEF chain, now, lo, hi
<1>7. ASSUME NEW k \in 1 .. Len(wave), wave[k].id = id
      PROVE  IF k <= m THEN wave[k].at <= now /\ wave[k].at < hi
             ELSE wave[k].at >= hi \/ \E i \in 1 .. Len(chain) : chain[i] = k
  <2>1. k <= m <=> Early(k, lo)
    BY <1>7 DEF lo
  <2>2. CASE Early(k, lo)
    <3>1. wave[k].at < lo \/ wave[k].at = 0
      BY <2>2 DEF Early, InFrame, Fst!InFrame
    <3> QED BY <1>1, <1>2, <1>3, <2>1, <2>2, <3>1
  <2>3. CASE ~Early(k, lo) /\ wave[k].at < hi
    <3>1. lo <= wave[k].at
      BY <1>1, <1>2, <2>3 DEF Early
    <3>2. ~InFrame(k)
      <4>1. SUFFICES ASSUME InFrame(k) PROVE FALSE
        OBVIOUS
      <4>2. wave[k].at = 0
        BY <4>1 DEF InFrame, Fst!InFrame
      <4>3. lo = 0
        BY <1>1, <3>1, <4>2
      <4> QED BY <2>3, <4>1, <4>3 DEF Early
    <3>3. k \in Streamed(id, lo, hi)
      BY <1>7, <2>3, <3>1, <3>2 DEF Streamed, During
    <3> QED BY <1>4, <2>1, <2>3, <3>3 DEF Lists
  <2> QED BY <1>1, <1>2, <2>1, <2>2, <2>3
<1>8. ASSUME NEW i \in 1 .. Len(chain) PROVE chain[i] > m /\ wave[chain[i]].at >= now
  <2>1. PICK k : k = chain[i]
    OBVIOUS
  <2>2. k \in 1 .. Len(wave) /\ lo <= wave[k].at /\ wave[k].id = id /\ ~InFrame(k)
    BY <1>4, <2>1 DEF Lists, Streamed, During
  <2>3. ~Early(k, lo)
    BY <1>1, <1>2, <2>2 DEF Early
  <2>4. ~(k <= m)
    BY <2>2, <2>3 DEF lo
  <2>5. wave[k].at >= now
    BY <1>1, <1>2, <1>3, <2>2
  <2> QED BY <1>2, <2>1, <2>2, <2>4, <2>5
<1> QED BY <1>5, <1>6, <1>7, <1>8 DEF Ahead, chain, now, lo, hi

\* Opening a block keeps the invariant.
LEMMA OpenBlockKeeps ==
  ASSUME NEW from, FstInv(from), Fst!OpenBlock
  PROVE  FstInv(from)'
<1>0. PICK b, t : b = block + 1 /\ t = begins[b]
  OBVIOUS
<1>1. /\ outcome = "reading" /\ ~open /\ block < Len(blocks) /\ block' = b /\ time' = time
      /\ UNCHANGED <<wave, blocks, begins, framed>>
  BY <1>0 DEF Fst!OpenBlock, Fst!file
<1>2. /\ FileRight(from) /\ FstTyped /\ TimeRight /\ FstEnded
      /\ Undamaged => RowsFollow(FstWatched) /\ ReadTo(from)
  BY <1>1 DEF FstInv
<1>3. /\ RunRight /\ Len(blocks) \in Nat /\ DOMAIN blocks = 1 .. Len(blocks)
      /\ \A a \in 1 .. Len(blocks) : begins[a] \in Nat
      /\ \A a \in 1 .. Len(blocks) + 1 : from[a] \in Nat
      /\ \A a, c \in 1 .. Len(blocks) + 1 : a <= c => from[a] <= from[c]
  BY <1>2, CutIs
<1>4. block \in 0 .. Len(blocks) /\ framed \in BOOLEAN /\ time \in Nat /\ DOMAIN position = FstWatched /\ Current(FstWatched)
      /\ SamplerTyped
  BY <1>2 DEF FstTyped
<1>5. b \in 1 .. Len(blocks) /\ b \in Nat /\ b \in 0 .. Len(blocks) /\ b \in 1 .. Len(blocks) + 1 /\ b + 1 \in 1 .. Len(blocks) + 1
  BY <1>0, <1>1, <1>3, <1>4
<1>6. t \in Nat
  BY <1>0, <1>3, <1>5
<1>7. IsWave(wave) /\ \A k \in 1 .. Len(wave) : wave[k].at \in Nat
  BY <1>3, RunIs
<1>8. time = 0 \/ \E a \in 1 .. block : LET stamps == blocks[a].stamps IN Len(stamps) > 0 /\ time = stamps[Len(stamps)]
  BY <1>1, <1>2 DEF TimeRight
<1>9. ASSUME Undamaged, NEW now \in Nat, ReplayAt(now), \A a \in block + 1 .. Len(blocks) : now <= begins[a], Read(from, now)
      PROVE  /\ Ready(now, t) /\ now <= t
             /\ \A id \in FstWatched : \E m \in 0 .. Len(wave) : Between(id, m, now, from[b])
  <2>1. now <= t
    <3>1. b \in block + 1 .. Len(blocks)
      BY <1>0, <1>3, <1>4, <1>5
    <3> QED BY <1>0, <1>9, <3>1
  <2>2. \A id \in FstWatched : \E m \in 0 .. Len(wave) : Between(id, m, now, from[b])
    BY <1>0, <1>1, <1>9 DEF Read
  <2>3. ASSUME NEW id \in FstWatched, NEW m \in 0 .. Len(wave), Between(id, m, now, from[b]),
               NEW k \in 1 .. Len(wave), wave[k].id = id
        PROVE  IF k <= m THEN wave[k].at <= now ELSE wave[k].at >= t
    <3>1. IF k <= m THEN wave[k].at <= now /\ wave[k].at < from[b] ELSE wave[k].at >= from[b]
      BY <2>3 DEF Between
    <3>2. IF wave[k].at < from[b] THEN wave[k].at <= t ELSE wave[k].at >= t
      BY <1>0, <1>2, <1>5, <1>9, BeginsRight
    <3>3. from[b] \in Nat /\ wave[k].at \in Nat
      BY <1>3, <1>5, <1>7
    <3> QED BY <3>1, <3>2, <3>3
  <2>4. \A id \in FstWatched : \E m \in 0 .. Len(wave) :
          /\ Held(id, m, current[id])
          /\ \A k \in 1 .. Len(wave) : wave[k].id = id => IF k <= m THEN wave[k].at <= now ELSE wave[k].at >= t
    <3> SUFFICES ASSUME NEW id \in FstWatched
                 PROVE  \E m \in 0 .. Len(wave) :
                          /\ Held(id, m, current[id])
                          /\ \A k \in 1 .. Len(wave) : wave[k].id = id => IF k <= m THEN wave[k].at <= now ELSE wave[k].at >= t
      OBVIOUS
    <3>1. PICK m \in 0 .. Len(wave) : Between(id, m, now, from[b])
      BY <2>2
    <3> QED BY <2>3, <3>1 DEF Between
  <2> QED BY <1>9, <2>1, <2>2, <2>4 DEF Ready
<1>10. Undamaged => \E now \in Nat : Ready(now, t)
  BY <1>2, <1>9 DEF ReadTo
<1>11. CASE Fst!Overlaps(b) /\ Fst!Fails /\ UNCHANGED <<open, position>>
  <2>1. UNCHANGED <<query, pending, answered, rows, current, beyond, open, position>> /\ outcome' = "failed"
    BY <1>11 DEF Fst!Fails
  <2>2. Fst!Overlapping
    <3>1. t < time
      BY <1>0, <1>11 DEF Fst!Overlaps
    <3>2. PICK a \in 1 .. block : LET stamps == blocks[a].stamps IN Len(stamps) > 0 /\ time = stamps[Len(stamps)]
      BY <1>4, <1>6, <1>8, <3>1
    <3>3. a \in DOMAIN blocks /\ b \in DOMAIN blocks /\ a < b
      BY <1>0, <1>3, <1>4, <1>5
    <3>4. blocks[a].stamps # <<>>
      BY <3>2
    <3> QED BY <1>0, <3>1, <3>2, <3>3, <3>4 DEF Fst!Overlapping, Fst!Last
  <2>3. FileRight(from)' /\ (Undamaged' <=> Undamaged) /\ Fst!Overlapping'
    BY <1>1, <1>2, <2>2, FileKept
  <2>4. FstTyped'
    <3>1. SamplerTyped' /\ InOrderOfTime' /\ RowsFilled' /\ Current(FstWatched)'
      BY <1>2, <2>1 DEF FstTyped, SamplerTyped, InOrderOfTime, When, RowsFilled, RowOf, Current
    <3>2. open' = open /\ ~open /\ open \in BOOLEAN
      BY <1>1, <1>2, <2>1 DEF FstTyped
    <3> QED BY <1>1, <1>4, <1>5, <2>1, <3>1, <3>2 DEF FstTyped
  <2>5. TimeRight' /\ FstEnded'
    BY <2>1, <2>3 DEF TimeRight, FstEnded
  <2>6. ~Undamaged'
    BY <2>3 DEF Undamaged
  <2> QED BY <2>3, <2>4, <2>5, <2>6 DEF FstInv
<1>12. CASE Fst!EndsAt(t)
  BY <1>1, <1>4, <1>5, <1>6, <1>10, <1>12, EndsAtRight
<1>13. ASSUME Fst!Advance(t), current' = Fst!StartValues(b), open' = TRUE, position' = [id \in FstWatched |-> 1],
              UNCHANGED <<query, pending, beyond, outcome>>
       PROVE  FstInv(from)'
  <2>1. BlockRight(blocks[b], from[b], from[b + 1])
    BY <1>2, <1>5, CutIs
  <2>2. ASSUME NEW id \in FstWatched
        PROVE  /\ current'[id] \in Values \cup {None} /\ position'[id] = 1
               /\ 1 \in 1 .. Len(blocks[b].streams[id]) + 1
    <3>1. current'[id] = IF id \in Framed THEN blocks[b].frame[id] ELSE current[id]
      BY <1>13 DEF Fst!StartValues
    <3>2. id \in Framed => FrameRight(blocks[b].frame[id], id, from[b])
      BY <2>1 DEF BlockRight
    <3>3. Len(blocks[b].streams[id]) \in Nat
      <4>1. StreamRight(blocks[b].streams[id], blocks[b].stamps, ChainOf(id, from[b], from[b + 1]))
        BY <2>1, FstConstants DEF BlockRight
      <4>2. Len(ChainOf(id, from[b], from[b + 1])) \in Nat
        BY <1>3, ChainLists DEF Lists
      <4> QED BY <4>1, <4>2 DEF StreamRight
    <3>4. current[id] \in Values \cup {None}
      BY <1>4 DEF Current
    <3>5. current'[id] \in Values \cup {None}
      BY <3>1, <3>2, <3>4 DEF FrameRight
    <3> QED BY <1>13, <3>3, <3>5
  <2>3. current' \in [FstWatched -> Values \cup {None}] /\ DOMAIN position' = FstWatched
    BY <1>13, <2>2 DEF Fst!StartValues
  <2>4. ASSUME Undamaged PROVE (\A a \in block + 1 .. Len(blocks) : t <= begins[a])'
    <3>1. \A a \in b + 1 .. Len(blocks) : t <= begins[a]
      <4> SUFFICES ASSUME NEW a \in b + 1 .. Len(blocks) PROVE t <= begins[a]
        OBVIOUS
      <4>1. a \in DOMAIN blocks /\ b \in DOMAIN blocks /\ b < a
        BY <1>3, <1>5
      <4> QED BY <1>0, <2>4, <4>1 DEF Undamaged, Fst!InTheirOrder
    <3>2. begins' = begins /\ blocks' = blocks /\ block' = b
      BY <1>1
    <3> QED BY <3>1, <3>2
  <2>5. ASSUME Undamaged, NEW id \in FstWatched
        PROVE  \E m \in 0 .. Len(wave) : Ahead(id, m, t, from[b + 1], ChainOf(id, from[b], from[b + 1]))'
    <3>1. \E m \in 0 .. Len(wave) :
            /\ Held(id, m, current'[id])
            /\ \A k \in 1 .. Len(wave) : wave[k].id = id => (k <= m <=> Early(k, from[b]))
      <4>1. CASE id \in Framed
        <5>1. current'[id] = blocks[b].frame[id]
          BY <1>13, <4>1 DEF Fst!StartValues
        <5>2. FrameRight(blocks[b].frame[id], id, from[b])
          BY <2>1, <4>1 DEF BlockRight
        <5> QED BY <5>1, <5>2 DEF FrameRight
      <4>2. CASE id \notin Framed
        <5>1. current'[id] = current[id]
          BY <1>13, <4>2 DEF Fst!StartValues
        <5>2. PICK now \in Nat : ReplayAt(now) /\ (\A a \in block + 1 .. Len(blocks) : now <= begins[a]) /\ Read(from, now)
          BY <1>2, <2>5 DEF ReadTo
        <5>3. PICK m \in 0 .. Len(wave) : Between(id, m, now, from[b])
          BY <1>9, <2>5, <5>2
        <5>4. ASSUME NEW k \in 1 .. Len(wave), wave[k].id = id PROVE k <= m <=> Early(k, from[b])
          <6>1. ~InFrame(k)
            BY <4>2, <5>4 DEF InFrame, Fst!InFrame
          <6>2. IF k <= m THEN wave[k].at < from[b] ELSE wave[k].at >= from[b]
            BY <5>3, <5>4 DEF Between
          <6>3. from[b] \in Nat /\ wave[k].at \in Nat
            BY <1>3, <1>5, <1>7
          <6>4. k <= m <=> wave[k].at < from[b]
            BY <6>2, <6>3
          <6> QED BY <6>1, <6>4 DEF Early
        <5> QED BY <5>1, <5>3, <5>4 DEF Between
      <4> QED BY <4>1, <4>2
    <3>2. PICK m \in 0 .. Len(wave) :
            /\ Held(id, m, current'[id])
            /\ \A k \in 1 .. Len(wave) : wave[k].id = id => (k <= m <=> Early(k, from[b]))
      BY <3>1
    <3>3. Ahead(id, m, begins[b], from[b + 1], ChainOf(id, from[b], from[b + 1]))'
      BY <1>1, <1>2, <1>4, <1>5, <2>2, <2>5, <3>2, OpensAt
    <3>4. begins'[b] = t
      BY <1>0, <1>1
    <3> QED BY <3>3, <3>4
  <2>6. ASSUME Undamaged PROVE Read(from, t)'
    BY <1>1, <1>13, <2>5, <2>6 DEF Read
  <2>7. TimeRight'
    <3>1. \A a \in 1 .. block : a \in 1 .. b
      BY <1>0, <1>4
    <3> QED BY <1>1, <1>8, <3>1 DEF TimeRight
  <2>8. open' \in BOOLEAN
    BY <1>13, Zenon
  <2>9. /\ block' \in 1 .. Len(blocks) /\ time' \in Nat
        /\ \A id \in FstWatched : position'[id] \in 1 .. Len(blocks[block'].streams[id]) + 1
    BY <1>1, <1>4, <1>5, <2>2
  <2> QED BY <1>1, <1>6, <1>10, <1>13, <2>3, <2>4, <2>6, <2>7, <2>8, <2>9, ReadsOn
<1>14. \/ Fst!Overlaps(b) /\ Fst!Fails /\ UNCHANGED <<open, position>>
       \/ Fst!EndsAt(t)
       \/ /\ Fst!Advance(t) /\ current' = Fst!StartValues(b) /\ open' = TRUE /\ position' = [id \in FstWatched |-> 1]
          /\ UNCHANGED <<query, pending, beyond, outcome>>
  BY <1>0, <1>1 DEF Fst!OpenBlock
<1> QED BY <1>11, <1>12, <1>13, <1>14

-----------------------------------------------------------------------------
(* The changes of one time are made *)

\* The next changes of the open block are at t, those of the index next; its own are from lo to before hi.
NextAt(from, t, next, lo, hi) ==
  /\ open /\ lo = from[block] /\ hi = from[block + 1] /\ t \in Nat /\ t < hi
  /\ next \in 1 .. Len(blocks[block].stamps) /\ next # Fst!Infinity /\ t = blocks[block].stamps[next]
  /\ \A id \in FstWatched : next <= Fst!Index(id) /\ Fst!Index(id) \in Nat
\* What there is to read of a signal in the open block.
ChainRight(chain, id, hi, next) ==
  /\ Len(chain) \in Nat /\ position[id] \in 1 .. Len(chain) + 1 /\ position[id] \in Nat /\ Len(Fst!Stream(id)) = Len(chain)
  /\ \A i \in 1 .. Len(chain) : chain[i] \in 1 .. Len(wave) /\ wave[chain[i]].id = id /\ wave[chain[i]].at < hi
  /\ \A i, j \in 1 .. Len(chain) : i < j => chain[i] < chain[j]
  /\ \A i, j \in 1 .. Len(chain) : i <= j => chain[i] <= chain[j] /\ wave[chain[i]].at <= wave[chain[j]].at
  /\ position[id] <= Len(chain) => /\ Fst!Index(id) \in 1 .. Len(blocks[block].stamps)
                                   /\ blocks[block].stamps[Fst!Index(id)] = wave[chain[position[id]]].at
                                   /\ Fst!Stream(id)[position[id]].value = wave[chain[position[id]]].value
  /\ Fst!Index(id) = next => position[id] <= Len(chain)

LEMMA StreamIs ==
  ASSUME NEW from, FileRight(from), FstTyped, NEW t, NEW next, NEW lo, NEW hi, NextAt(from, t, next, lo, hi), NEW id \in FstWatched
  PROVE  ChainRight(ChainOf(id, lo, hi), id, hi, next)
<1> DEFINE c == ChainAt(from, id)
           p == position[id]
           stamps == blocks[block].stamps
           index == Fst!Index(id)
<1>1. lo = from[block] /\ hi = from[block + 1] /\ open /\ next # Fst!Infinity
  BY DEF NextAt
<1>2. ChainOf(id, lo, hi) = c
  BY <1>1 DEF ChainAt
<1>3. /\ Len(c) \in Nat /\ p \in 1 .. Len(c) + 1
      /\ \A i \in 1 .. Len(c) : c[i] \in 1 .. Len(wave) /\ wave[c[i]].id = id /\ wave[c[i]].at < from[block + 1]
      /\ \A i, j \in 1 .. Len(c) : i < j => c[i] < c[j]
      /\ \A i, j \in 1 .. Len(c) : i <= j => c[i] <= c[j] /\ wave[c[i]].at <= wave[c[j]].at
  BY <1>1, ChainIs
<1>4. IF p > Len(c) THEN index = Fst!Infinity
      ELSE /\ index \in 1 .. Len(stamps) /\ stamps[index] = wave[c[p]].at
           /\ Fst!Stream(id)[p].value = wave[c[p]].value
  BY <1>1, ChainIs
<1>5. Len(Fst!Stream(id)) = Len(c)
  <2>1. StreamRight(blocks[block].streams[id], stamps, c)
    BY <1>1, OpenIs, FstConstants DEF BlockRight, ChainAt
  <2> HIDE DEF c
  <2> QED BY <2>1 DEF StreamRight, Fst!Stream
<1> HIDE DEF c, p, stamps, index
<1>6. p \in Nat /\ (p <= Len(c) <=> ~(p > Len(c)))
  BY <1>3
<1>7. index = next => p <= Len(c)
  BY <1>1, <1>4, <1>6
<1>8. p <= Len(c) => /\ index \in 1 .. Len(stamps) /\ stamps[index] = wave[c[p]].at
                     /\ Fst!Stream(id)[p].value = wave[c[p]].value
  BY <1>4, <1>6
<1>9. ChainRight(c, id, hi, next)
  BY <1>1, <1>3, <1>5, <1>6, <1>7, <1>8 DEF ChainRight, p, stamps, index
<1> QED BY <1>2, <1>9

LEMMA TimesAre ==
  ASSUME NEW from, FileRight(from), FstTyped, NEW t, NEW next, NEW lo, NEW hi, NextAt(from, t, next, lo, hi)
  PROVE  /\ RunRight /\ Len(wave) \in Nat /\ hi \in Nat /\ t \in Nat /\ t < hi
         /\ \A k \in 1 .. Len(wave) : k \in Nat /\ wave[k].at \in Nat
         /\ \A i \in 1 .. Len(blocks[block].stamps) : next <= i => t <= blocks[block].stamps[i]
<1>1. open /\ hi = from[block + 1] /\ t \in Nat /\ t < hi /\ next \in 1 .. Len(blocks[block].stamps) /\ t = blocks[block].stamps[next]
  BY DEF NextAt
<1>2. /\ RunRight /\ Len(wave) \in Nat /\ hi \in Nat
      /\ \A k \in 1 .. Len(wave) : k \in Nat /\ wave[k].at \in Nat
  BY <1>1, OpenIs, CutIs, RunIs
<1>3. \A i, j \in 1 .. Len(blocks[block].stamps) : i <= j => blocks[block].stamps[i] <= blocks[block].stamps[j]
  BY <1>1, OpenIs, StampsAre
<1> QED BY <1>1, <1>2, <1>3

\* What is left of a signal's changes is not before t.
LEMMA StreamWaits ==
  ASSUME NEW from, FileRight(from), FstTyped, NEW t, NEW next, NEW lo, NEW hi, NextAt(from, t, next, lo, hi), NEW id \in FstWatched,
         NEW now, NEW m, Ahead(id, m, now, hi, ChainOf(id, lo, hi))
  PROVE  /\ \A i \in position[id] .. Len(ChainOf(id, lo, hi)) : wave[ChainOf(id, lo, hi)[i]].at >= t
         /\ \A k \in 1 .. Len(wave) : wave[k].id = id => IF k <= m THEN wave[k].at <= now ELSE wave[k].at >= t
<1> DEFINE chain == ChainOf(id, lo, hi)
           p == position[id]
           stamps == blocks[block].stamps
           index == Fst!Index(id)
<1>1. /\ Len(chain) \in Nat /\ p \in 1 .. Len(chain) + 1 /\ p \in Nat
      /\ \A i \in 1 .. Len(chain) : chain[i] \in 1 .. Len(wave)
      /\ \A i, j \in 1 .. Len(chain) : i <= j => wave[chain[i]].at <= wave[chain[j]].at
      /\ p <= Len(chain) => index \in 1 .. Len(stamps) /\ stamps[index] = wave[chain[p]].at
  BY StreamIs DEF ChainRight
<1>2. /\ hi \in Nat /\ t \in Nat /\ t < hi /\ \A k \in 1 .. Len(wave) : wave[k].at \in Nat
      /\ \A i \in 1 .. Len(stamps) : next <= i => t <= stamps[i]
  BY TimesAre
<1>3. next <= index
  BY DEF NextAt
<1>4. \A k \in 1 .. Len(wave) : wave[k].id = id =>
        IF k <= m THEN wave[k].at <= now ELSE wave[k].at >= hi \/ \E i \in p .. Len(chain) : chain[i] = k
  BY DEF Ahead
<1> HIDE DEF chain, p, stamps, index
<1>5. \A i \in p .. Len(chain) : wave[chain[i]].at >= t
  <2> SUFFICES ASSUME NEW i \in p .. Len(chain) PROVE wave[chain[i]].at >= t
    OBVIOUS
  <2>1. i \in 1 .. Len(chain) /\ p \in 1 .. Len(chain) /\ p <= i /\ p <= Len(chain)
    BY <1>1
  <2>2. index \in 1 .. Len(stamps) /\ stamps[index] = wave[chain[p]].at
    BY <1>1, <2>1
  <2>3. t <= wave[chain[p]].at
    BY <1>2, <1>3, <2>2
  <2>4. wave[chain[p]].at <= wave[chain[i]].at
    BY <1>1, <2>1
  <2>5. wave[chain[i]].at \in Nat /\ wave[chain[p]].at \in Nat /\ t \in Nat
    BY <1>1, <1>2, <2>1
  <2> QED BY <2>3, <2>4, <2>5
<1>6. ASSUME NEW k \in 1 .. Len(wave), wave[k].id = id
      PROVE  IF k <= m THEN wave[k].at <= now ELSE wave[k].at >= t
  <2>1. CASE k <= m
    BY <1>4, <1>6, <2>1
  <2>2. CASE ~(k <= m)
    <3>1. wave[k].at >= hi \/ \E i \in p .. Len(chain) : chain[i] = k
      BY <1>4, <1>6, <2>2
    <3>2. wave[k].at >= hi => wave[k].at >= t
      BY <1>2
    <3> QED BY <1>5, <2>2, <3>1, <3>2
  <2> QED BY <2>1, <2>2
<1> QED BY <1>5, <1>6 DEF chain, p

\* The changes at t are made, and the others wait.
LEMMA StreamStepsRight ==
  ASSUME NEW from, FileRight(from), FstTyped, UNCHANGED <<wave, blocks, begins, framed>>,
         NEW t, NEW next, NEW lo, NEW hi, NextAt(from, t, next, lo, hi), NEW id \in FstWatched,
         NEW now \in Nat, now <= t, NEW m \in 0 .. Len(wave), Ahead(id, m, now, hi, ChainOf(id, lo, hi)),
         position'[id] = IF Fst!Index(id) = next THEN position[id] + 1 ELSE position[id],
         current'[id] = IF Fst!Index(id) = next THEN Fst!Stream(id)[position[id]].value ELSE current[id]
  PROVE  \E n \in 0 .. Len(wave) : Ahead(id, n, t, hi, ChainOf(id, lo, hi))'
<1> DEFINE chain == ChainOf(id, lo, hi)
           p == position[id]
           index == Fst!Index(id)
<1>1. /\ Len(chain) \in Nat /\ p \in 1 .. Len(chain) + 1 /\ p \in Nat
      /\ \A i \in 1 .. Len(chain) : chain[i] \in 1 .. Len(wave) /\ wave[chain[i]].id = id /\ wave[chain[i]].at < hi
      /\ \A i, j \in 1 .. Len(chain) : i < j => chain[i] < chain[j]
      /\ index = next => /\ p \in 1 .. Len(chain) /\ t = wave[chain[p]].at
                         /\ Fst!Stream(id)[p].value = wave[chain[p]].value
  <2>1. ChainRight(chain, id, hi, next)
    BY StreamIs
  <2>2. t = blocks[block].stamps[next]
    BY DEF NextAt
  <2> HIDE DEF chain
  <2> QED BY <2>1, <2>2 DEF ChainRight
<1>2. /\ RunRight /\ Len(wave) \in Nat /\ hi \in Nat /\ now \in Nat /\ t \in Nat /\ now <= t /\ t < hi /\ m \in Nat
      /\ \A k \in 1 .. Len(wave) : k \in Nat /\ wave[k].at \in Nat
  BY TimesAre
<1>4. /\ Held(id, m, current[id])
      /\ \A k \in 1 .. Len(wave) : wave[k].id = id =>
           IF k <= m THEN wave[k].at <= now /\ wave[k].at < hi
           ELSE wave[k].at >= hi \/ \E i \in p .. Len(chain) : chain[i] = k
      /\ \A i \in p .. Len(chain) : chain[i] > m
  BY DEF Ahead
<1>5. /\ position'[id] = (IF index = next THEN p + 1 ELSE p)
      /\ current'[id] = IF index = next THEN Fst!Stream(id)[p].value ELSE current[id]
  OBVIOUS
<1>6. ChainOf(id, lo, hi)' = chain /\ \A n, v : Held(id, n, v)' <=> Held(id, n, v)
  BY FileKept
<1>8. \A i \in p .. Len(chain) : wave[chain[i]].at >= t
  BY StreamWaits
<1> HIDE DEF chain, p, index
<1>10. \E n \in 0 .. Len(wave) : Ahead(id, n, t, hi, ChainOf(id, lo, hi))'
  <2>1. CASE index # next
    <3>1. current'[id] = current[id] /\ position'[id] = p
      BY <1>5, <2>1
    <3>2. Held(id, m, current[id])'
      BY <1>4, <1>6, <3>1
    <3>3. ASSUME NEW k \in 1 .. Len(wave), wave[k].id = id
          PROVE  IF k <= m THEN wave[k].at <= t /\ wave[k].at < hi
                 ELSE wave[k].at >= hi \/ \E i \in p .. Len(chain) : chain[i] = k
      <4>1. CASE k <= m
        BY <1>2, <1>4, <3>3, <4>1
      <4>2. CASE ~(k <= m)
        BY <1>4, <3>3, <4>2
      <4> QED BY <4>1, <4>2
    <3>4. Ahead(id, m, t, hi, ChainOf(id, lo, hi))'
      BY <1>4, <1>6, <1>8, <3>1, <3>2, <3>3 DEF Ahead
    <3>5. m \in 0 .. Len(wave)
      OBVIOUS
    <3> QED BY <3>4, <3>5
  <2>2. CASE index = next
    <3>0. PICK n : n = chain[p]
      OBVIOUS
    <3>2. p \in 1 .. Len(chain) /\ p \in p .. Len(chain)
      BY <1>1, <2>2
    <3>3. n \in 1 .. Len(wave) /\ wave[n].id = id /\ wave[n].at < hi /\ n > m /\ wave[n].at = t /\ n \in Nat
          /\ n \in 0 .. Len(wave) /\ m \in Nat
      BY <1>1, <1>2, <1>4, <2>2, <3>0, <3>2
    <3>4. position'[id] = p + 1 /\ current'[id] = wave[n].value
      BY <1>1, <1>5, <2>2, <3>0
    <3>5. \A i \in p + 1 .. Len(chain) : i \in p .. Len(chain) /\ i \in 1 .. Len(chain) /\ p < i /\ n < chain[i]
      BY <1>1, <3>0, <3>2
    <3>6. \A i \in p .. Len(chain) : i = p \/ i \in p + 1 .. Len(chain)
      BY <1>1
    <3>7. Held(id, n, current[id])'
      <4>1. n \in 1 .. n /\ n + 1 .. n = {}
        BY <3>3
      <4>2. Held(id, n, wave[n].value)
        BY <3>3, <4>1 DEF Held
      <4> QED BY <1>6, <3>4, <4>2
    <3>8. ASSUME NEW k \in 1 .. Len(wave), wave[k].id = id
          PROVE  IF k <= n THEN wave[k].at <= t /\ wave[k].at < hi
                 ELSE wave[k].at >= hi \/ \E i \in p + 1 .. Len(chain) : chain[i] = k
      <4>1. CASE k <= n
        <5>1. wave[k].at <= wave[n].at
          BY <1>2, <3>3, <4>1 DEF RunRight
        <5>2. wave[k].at \in Nat /\ wave[n].at \in Nat
          BY <1>2, <3>3
        <5> QED BY <1>2, <3>3, <4>1, <5>1, <5>2
      <4>2. CASE ~(k <= n)
        <5>1. ~(k <= m) /\ k # n
          BY <1>2, <3>3, <4>2
        <5>2. wave[k].at >= hi \/ \E i \in p .. Len(chain) : chain[i] = k
          BY <1>4, <3>8, <5>1
        <5> QED BY <3>0, <3>6, <4>2, <5>1, <5>2
      <4> QED BY <4>1, <4>2
    <3>9. \A i \in p + 1 .. Len(chain) : chain[i] > n /\ wave[chain[i]].at >= t
      BY <1>1, <1>2, <1>8, <3>3, <3>5
    <3>10. Ahead(id, n, t, hi, ChainOf(id, lo, hi))'
      BY <1>6, <3>4, <3>7, <3>8, <3>9 DEF Ahead
    <3> QED BY <3>3, <3>10
  <2> QED BY <2>1, <2>2
<1> QED BY <1>10

\* Making a change keeps the invariant.
LEMMA ReplayKeeps ==
  ASSUME NEW from, FstInv(from), Fst!Replay
  PROVE  FstInv(from)'
<1>0. PICK next, t, lo, hi : next = Fst!NextIndex /\ t = blocks[block].stamps[next] /\ lo = from[block] /\ hi = from[block + 1]
  OBVIOUS
<1>1. /\ outcome = "reading" /\ open /\ next # Fst!Infinity /\ time' = t /\ block' = block
      /\ UNCHANGED <<wave, blocks, begins, framed>>
  BY <1>0 DEF Fst!Replay, Fst!file
<1>2. /\ FileRight(from) /\ FstTyped /\ FstEnded
      /\ Undamaged => RowsFollow(FstWatched) /\ ReadTo(from)
      /\ block \in 0 .. Len(blocks) /\ DOMAIN position = FstWatched /\ Current(FstWatched)
  BY <1>1 DEF FstInv, FstTyped
<1>3. /\ block \in 1 .. Len(blocks) /\ block \in Nat /\ Len(blocks) \in Nat
      /\ lo \in Nat /\ hi \in Nat /\ BlockRight(blocks[block], from[block], from[block + 1])
  BY <1>0, <1>1, <1>2, OpenIs, CutIs
<1>4. /\ \E id \in FstWatched : Fst!Index(id) = next
      /\ \A id \in FstWatched : next <= Fst!Index(id) /\ Fst!Index(id) \in Nat
      /\ next \in 1 .. Len(blocks[block].stamps) /\ next \in Nat
  <2>1. next \in 1 .. Fst!Infinity /\ Fst!Infinity \in Nat
    BY <1>0, <1>1, <1>2, NextIs
  <2>2. next \in Nat
    BY <2>1
  <2> QED BY <1>0, <1>1, <1>2, <2>2, NextIs
<1>5. /\ t \in Nat /\ t < hi
      /\ Len(blocks[block].stamps) \in Nat
      /\ \A i \in 1 .. Len(blocks[block].stamps) : blocks[block].stamps[i] \in Nat
      /\ \A i, j \in 1 .. Len(blocks[block].stamps) : i <= j => blocks[block].stamps[i] <= blocks[block].stamps[j]
  BY <1>0, <1>2, <1>3, <1>4, StampsAre
<1>13. NextAt(from, t, next, lo, hi)
  BY <1>0, <1>1, <1>4, <1>5 DEF NextAt
<1>6. ASSUME NEW id \in FstWatched
      PROVE  LET chain == ChainOf(id, lo, hi)
                 p == position[id] IN
             /\ Len(Fst!Stream(id)) = Len(chain) /\ Len(chain) \in Nat /\ p \in 1 .. Len(chain) + 1
             /\ Fst!Index(id) = next => /\ p \in 1 .. Len(chain) /\ wave[chain[p]].at = t
                                        /\ Fst!Stream(id)[p].value \in Values
  <2> DEFINE chain == ChainOf(id, lo, hi)
             p == position[id]
  <2>1. ChainRight(chain, id, hi, next)
    BY <1>2, <1>13, StreamIs
  <2> HIDE DEF chain
  <2>2. /\ Len(Fst!Stream(id)) = Len(chain) /\ Len(chain) \in Nat /\ p \in 1 .. Len(chain) + 1
        /\ Fst!Index(id) = next => p \in 1 .. Len(chain) /\ wave[chain[p]].at = t
        /\ Fst!Index(id) = next => chain[p] \in 1 .. Len(wave) /\ Fst!Stream(id)[p].value = wave[chain[p]].value
    BY <1>0, <2>1 DEF ChainRight
  <2>3. \A k \in 1 .. Len(wave) : wave[k].value \in Values
    BY <1>2, CutIs, RunIs
  <2> QED BY <2>2, <2>3 DEF chain
<1>7. ASSUME Undamaged, NEW now \in Nat, Read(from, now)
      PROVE  now <= t
  <2>1. PICK id \in FstWatched : Fst!Index(id) = next
    BY <1>4
  <2>2. PICK m \in 0 .. Len(wave) : Ahead(id, m, now, hi, ChainOf(id, lo, hi))
    BY <1>0, <1>1, <1>7 DEF Read
  <2> DEFINE chain == ChainOf(id, lo, hi)
             p == position[id]
  <2>3. Len(chain) \in Nat /\ p \in 1 .. Len(chain) /\ wave[chain[p]].at = t
    BY <1>6, <2>1
  <2>4. \A i \in p .. Len(chain) : wave[chain[i]].at >= now
    BY <2>2 DEF Ahead
  <2> HIDE DEF chain, p
  <2>5. p \in p .. Len(chain)
    BY <2>3
  <2>6. wave[chain[p]].at >= now
    BY <2>4, <2>5
  <2> QED BY <1>5, <2>3, <2>6
<1>8. ASSUME Undamaged, NEW now \in Nat, ReplayAt(now), Read(from, now)
      PROVE  Ready(now, t)
  <2>1. now <= t
    BY <1>7, <1>8
  <2>2. ASSUME NEW id \in FstWatched
        PROVE  \E m \in 0 .. Len(wave) :
                 /\ Held(id, m, current[id])
                 /\ \A k \in 1 .. Len(wave) : wave[k].id = id => IF k <= m THEN wave[k].at <= now ELSE wave[k].at >= t
    <3>1. PICK m \in 0 .. Len(wave) : Ahead(id, m, now, hi, ChainOf(id, lo, hi))
      BY <1>0, <1>1, <1>8 DEF Read
    <3>2. ASSUME NEW k \in 1 .. Len(wave), wave[k].id = id PROVE IF k <= m THEN wave[k].at <= now ELSE wave[k].at >= t
      BY <1>2, <1>13, <3>1, <3>2, StreamWaits
    <3> QED BY <3>1, <3>2 DEF Ahead
  <2> QED BY <1>8, <2>1, <2>2 DEF Ready
<1>9. Undamaged => \E now \in Nat : Ready(now, t)
  BY <1>2, <1>8 DEF ReadTo
<1>10. CASE Fst!EndsAt(t)
  BY <1>1, <1>2, <1>5, <1>9, <1>10, EndsAtRight
<1>11. ASSUME Fst!Advance(t), UNCHANGED <<query, pending, beyond, outcome, open>>,
              position' = [id \in FstWatched |-> IF Fst!Index(id) = next THEN position[id] + 1 ELSE position[id]],
              current' = [id \in FstWatched |-> IF Fst!Index(id) = next THEN Fst!Stream(id)[position[id]].value ELSE current[id]]
       PROVE  FstInv(from)'
  <2>1. current' \in [FstWatched -> Values \cup {None}] /\ DOMAIN position' = FstWatched
    <3>1. \A id \in FstWatched : current[id] \in Values \cup {None}
      BY <1>2 DEF Current
    <3>2. \A id \in FstWatched : (IF Fst!Index(id) = next THEN Fst!Stream(id)[position[id]].value ELSE current[id]) \in Values \cup {None}
      BY <1>6, <3>1
    <3> QED BY <1>11, <3>2
  <2>2. ASSUME NEW id \in FstWatched PROVE position'[id] \in 1 .. Len(blocks[block].streams[id]) + 1
    <3>1. Fst!Stream(id) = blocks[block].streams[id]
      BY DEF Fst!Stream
    <3> DEFINE len == Len(ChainOf(id, lo, hi))
    <3>2. /\ Len(Fst!Stream(id)) = len /\ len \in Nat /\ position[id] \in 1 .. len + 1
          /\ Fst!Index(id) = next => position[id] \in 1 .. len
      BY <1>6
    <3>3. position'[id] = IF Fst!Index(id) = next THEN position[id] + 1 ELSE position[id]
      BY <1>11
    <3> HIDE DEF len
    <3>4. position'[id] \in 1 .. len + 1
      BY <3>2, <3>3
    <3> QED BY <3>1, <3>2, <3>4
  <2>3. TimeRight'
    <3>1. Len(blocks[block].stamps) > 0 /\ open'
      BY <1>1, <1>4, <1>5, <1>11
    <3>2. ~(Len(blocks[block].stamps) = 0)'
      BY <1>1, <3>1
    <3> QED BY <3>1, <3>2 DEF TimeRight
  <2>4. ASSUME Undamaged PROVE (\A b \in block + 1 .. Len(blocks) : t <= begins[b])'
    <3> DEFINE stamps == blocks[block].stamps
    <3>1. ASSUME NEW b \in block + 1 .. Len(blocks) PROVE t <= begins[b]
      <4>1. block \in DOMAIN blocks /\ b \in DOMAIN blocks /\ block < b /\ b \in 1 .. Len(blocks)
        BY <1>2, <1>3, CutIs
      <4>2. stamps # <<>> /\ Len(stamps) \in 1 .. Len(stamps) /\ next <= Len(stamps)
        BY <1>4, <1>5
      <4>3. ~(begins[b] < stamps[Len(stamps)])
        BY <2>4, <4>1, <4>2 DEF Undamaged, Fst!Overlapping, Fst!Last
      <4>4. begins[b] \in Nat
        BY <1>2, <4>1, CutIs
      <4> HIDE DEF stamps
      <4>5. t <= stamps[Len(stamps)] /\ stamps[Len(stamps)] \in Nat
        BY <1>0, <1>4, <1>5, <4>2 DEF stamps
      <4> QED BY <1>5, <4>3, <4>4, <4>5
    <3>2. begins' = begins /\ blocks' = blocks /\ block' = block
      BY <1>1
    <3> QED BY <3>1, <3>2
  <2>5. ASSUME Undamaged, NEW id \in FstWatched
        PROVE  \E m \in 0 .. Len(wave) : Ahead(id, m, t, hi, ChainOf(id, lo, hi))'
    <3>1. PICK now \in Nat : ReplayAt(now) /\ Read(from, now)
      BY <1>2, <2>5 DEF ReadTo
    <3>2. now <= t
      BY <1>7, <2>5, <3>1
    <3>3. PICK m \in 0 .. Len(wave) : Ahead(id, m, now, hi, ChainOf(id, lo, hi))
      BY <1>0, <1>1, <3>1 DEF Read
    <3>4. /\ position'[id] = IF Fst!Index(id) = next THEN position[id] + 1 ELSE position[id]
          /\ current'[id] = IF Fst!Index(id) = next THEN Fst!Stream(id)[position[id]].value ELSE current[id]
      BY <1>11
    <3> QED BY <1>1, <1>2, <1>13, <3>2, <3>3, <3>4, StreamStepsRight
  <2>6. ASSUME Undamaged PROVE Read(from, t)'
    <3>1. block' = block /\ wave' = wave /\ open' /\ lo = from[block'] /\ hi = from[block' + 1]
      BY <1>0, <1>1, <1>11
    <3> QED BY <2>5, <2>6, <3>1 DEF Read
  <2>7. open' \in BOOLEAN
    BY <1>2, <1>11 DEF FstTyped
  <2>8. /\ block' \in 1 .. Len(blocks) /\ time' \in Nat
        /\ \A id \in FstWatched : position'[id] \in 1 .. Len(blocks[block'].streams[id]) + 1
    BY <1>1, <1>3, <1>5, <2>2
  <2> QED BY <1>1, <1>5, <1>9, <1>11, <2>1, <2>3, <2>4, <2>6, <2>7, <2>8, ReadsOn
<1>12. \/ Fst!EndsAt(t)
       \/ /\ Fst!Advance(t) /\ UNCHANGED <<query, pending, beyond, outcome, open>>
          /\ position' = [id \in FstWatched |-> IF Fst!Index(id) = next THEN position[id] + 1 ELSE position[id]]
          /\ current' = [id \in FstWatched |-> IF Fst!Index(id) = next THEN Fst!Stream(id)[position[id]].value ELSE current[id]]
  BY <1>0, <1>1 DEF Fst!Replay, Fst!Stepped
<1> QED BY <1>10, <1>11, <1>12

-----------------------------------------------------------------------------
(* A block ends, and the file *)

\* Leaving a block keeps the invariant.
LEMMA EndBlockKeeps ==
  ASSUME NEW from, FstInv(from), Fst!EndBlock
  PROVE  FstInv(from)'
<1> DEFINE stamps == blocks[block].stamps
<1>1. /\ outcome = "reading" /\ open /\ Fst!NextIndex = Fst!Infinity /\ open' = FALSE
      /\ time' = IF stamps = <<>> THEN time ELSE Fst!Last(stamps)
      /\ UNCHANGED <<query, pending, answered, rows, current, beyond, outcome, wave, blocks, begins, framed, block, position>>
  BY DEF Fst!EndBlock, Fst!samplerVars, Fst!file
<1>2. /\ FileRight(from) /\ FstTyped /\ TimeRight /\ FstEnded
      /\ Undamaged => RowsFollow(FstWatched) /\ ReadTo(from)
  BY <1>1 DEF FstInv
<1>3. /\ Len(stamps) \in Nat /\ \A i \in 1 .. Len(stamps) : stamps[i] \in Nat
      /\ block \in 1 .. Len(blocks) /\ block \in Nat /\ time \in Nat /\ DOMAIN stamps = 1 .. Len(stamps)
  BY <1>1, <1>2, OpenIs, StampsAre DEF FstTyped, BlockRight, StampsRight, Lists
<1>4. FileRight(from)' /\ (Undamaged' <=> Undamaged) /\ (Fst!Overlapping' <=> Fst!Overlapping)
      /\ \A id, m, v : Held(id, m, v)' <=> Held(id, m, v)
  BY <1>1, <1>2, FileKept
<1>5. time' \in Nat /\ TimeRight'
  <2>1. CASE Len(stamps) = 0
    <3>1. time' = time
      <4>1. stamps = <<>> \/ stamps # <<>>
        OBVIOUS
      <4>2. stamps = <<>>
        BY <1>2, <1>1, <2>1, OpenIs DEF BlockRight, StampsRight, Lists
      <4> QED BY <1>1, <4>2
    <3>2. time = 0 \/ \E a \in 1 .. block : LET s == blocks[a].stamps IN Len(s) > 0 /\ time = s[Len(s)]
      BY <1>1, <1>2, <2>1 DEF TimeRight
    <3> QED BY <1>1, <1>3, <3>1, <3>2 DEF TimeRight
  <2>2. CASE Len(stamps) # 0
    <3>1. time' = stamps[Len(stamps)] /\ Len(stamps) > 0 /\ Len(stamps) \in 1 .. Len(stamps)
      BY <1>1, <1>3, <2>2 DEF Fst!Last
    <3>2. block \in 1 .. block
      BY <1>3
    <3>3. time' \in Nat
      BY <1>3, <3>1
    <3>4. \E a \in 1 .. block' : LET s == blocks'[a].stamps IN Len(s) > 0 /\ time' = s[Len(s)]
      BY <1>1, <3>1, <3>2
    <3> QED BY <3>3, <3>4 DEF TimeRight
  <2> QED BY <2>1, <2>2
<1>6. FstTyped'
  <2>1. SamplerTyped' /\ InOrderOfTime' /\ RowsFilled' /\ Current(FstWatched)'
    BY <1>1, <1>2 DEF FstTyped, SamplerTyped, InOrderOfTime, When, RowsFilled, RowOf, Current
  <2>2. open' \in BOOLEAN /\ ~open'
    BY <1>1, Zenon
  <2> QED BY <1>1, <1>2, <1>5, <2>1, <2>2 DEF FstTyped
<1>7. FstEnded'
  BY <1>1 DEF FstEnded
<1>8. Undamaged' => RowsFollow(FstWatched)'
  BY <1>1, <1>2, <1>4 DEF RowsFollow, RowOf, When
<1>9. ASSUME Undamaged PROVE ReadTo(from)'
  <2>1. PICK now \in Nat : ReplayAt(now) /\ (\A b \in block + 1 .. Len(blocks) : now <= begins[b]) /\ Read(from, now)
    BY <1>2, <1>9 DEF ReadTo
  <2>2. ASSUME NEW id \in FstWatched PROVE \E m \in 0 .. Len(wave) : Between(id, m, now, from[block + 1])'
    <3>1. PICK m \in 0 .. Len(wave) : Ahead(id, m, now, from[block + 1], ChainOf(id, from[block], from[block + 1]))
      BY <1>1, <2>1 DEF Read
    <3> DEFINE chain == ChainAt(from, id)
    <3>2. Fst!Index(id) = Fst!Infinity
      <4>1. Fst!NextIndex <= Fst!Index(id) /\ Fst!Index(id) \in Nat /\ Fst!Infinity \in Nat
        BY <1>1, <1>2, NextIs
      <4>2. Len(stamps) <= MaxTime + 1 /\ MaxTime \in Nat /\ Fst!Infinity = MaxTime + 2
        BY <1>2, <1>3, StampsAre, FstConstants DEF Fst!Infinity
      <4>3. Fst!Index(id) = Fst!Infinity \/ Fst!Index(id) \in 1 .. Len(stamps)
        BY <1>1, <1>2, ChainIs
      <4> HIDE DEF stamps
      <4> QED BY <1>1, <1>3, <4>1, <4>2, <4>3
    <3>3. Len(chain) \in Nat /\ position[id] \in 1 .. Len(chain) + 1 /\ ~(position[id] <= Len(chain))
      BY <1>1, <1>2, <3>2, ChainIs, NextIs
    <3>4. position[id] .. Len(chain) = {}
      BY <3>3
    <3>5. ASSUME NEW k \in 1 .. Len(wave), wave[k].id = id
          PROVE  IF k <= m THEN wave[k].at <= now /\ wave[k].at < from[block + 1] ELSE wave[k].at >= from[block + 1]
      BY <3>1, <3>4, <3>5 DEF Ahead, ChainAt
    <3>6. Held(id, m, current[id])' /\ wave' = wave /\ block' = block
      BY <1>1, <1>4, <3>1 DEF Ahead
    <3> QED BY <3>5, <3>6 DEF Between
  <2>3. Read(from, now)'
    BY <1>1, <2>2 DEF Read
  <2>4. ReplayAt(now)' /\ (\A b \in block + 1 .. Len(blocks) : now <= begins[b])'
    BY <1>1, <2>1 DEF ReplayAt, When
  <2> QED BY <2>3, <2>4 DEF ReadTo
<1> QED BY <1>4, <1>5, <1>6, <1>7, <1>8, <1>9 DEF FstInv

\* Ending the replay keeps the invariant.
LEMMA FstFinishKeeps ==
  ASSUME NEW from, FstInv(from), Fst!Finish
  PROVE  FstInv(from)'
<1>1. /\ outcome = "reading" /\ ~open /\ block = Len(blocks) /\ Fst!FinishWith(0, MaxTime)
      /\ UNCHANGED <<wave, blocks, begins, framed, block, open, position, time>>
  BY DEF Fst!Finish, Fst!file
<1>2. /\ FileRight(from) /\ FstTyped /\ SamplerTyped /\ InOrderOfTime /\ open \in BOOLEAN /\ time \in Nat
      /\ block \in 0 .. Len(blocks)
      /\ Undamaged => ReadTo(from)
  BY <1>1 DEF FstInv, FstTyped
<1>3. from[block + 1] = MaxTime + 1 /\ IsWave(wave) /\ \A k \in 1 .. Len(wave) : wave[k].at \in Nat /\ wave[k].at <= MaxTime
  BY <1>1, <1>2, CutIs, RunIs
<1>4. ASSUME Undamaged PROVE RightFor(FstWatched, Len(query))
  <2>1. PICK now \in Nat : ReplayAt(now) /\ Read(from, now)
    BY <1>2, <1>4 DEF ReadTo
  <2> DEFINE len == Len(query)
             t == now + 1 + (IF len = 0 THEN 0 ELSE When(len))
  <2>2. len \in Nat /\ answered \in Nat /\ \A k \in 1 .. len : k \in Nat /\ When(k) \in Nat
    BY <1>2, Positions
  <2>3. len # 0 => len \in 1 .. len
    BY <2>2
  <2>4. t \in Nat /\ now <= t
    BY <2>2, <2>3
  <2>5. ASSUME NEW j \in 1 .. len PROVE When(j) < t
    <3>1. len # 0 /\ len \in 1 .. len /\ (j = len \/ j < len)
      BY <2>2
    <3>2. CASE j = len
      BY <2>2, <3>1, <3>2
    <3>3. CASE j < len
      <4>1. When(j) <= When(len)
        BY <1>2, <3>1, <3>3 DEF InOrderOfTime
      <4> QED BY <2>2, <3>1, <4>1
    <3> QED BY <3>1, <3>2, <3>3
  <2>6. ASSUME NEW id \in FstWatched
        PROVE  \E m \in 0 .. Len(wave) :
                 /\ Held(id, m, current[id])
                 /\ \A k \in 1 .. Len(wave) : wave[k].id = id => IF k <= m THEN wave[k].at <= now ELSE wave[k].at >= t
    <3>1. PICK m \in 0 .. Len(wave) : Between(id, m, now, from[block + 1])
      BY <1>1, <2>1 DEF Read
    <3>2. ASSUME NEW k \in 1 .. Len(wave), wave[k].id = id PROVE k <= m /\ wave[k].at <= now
      <4>1. IF k <= m THEN wave[k].at <= now ELSE wave[k].at >= MaxTime + 1
        BY <1>3, <3>1, <3>2 DEF Between
      <4> QED BY <1>3, <4>1, FstConstants
    <3> QED BY <3>1, <3>2 DEF Between
  <2> HIDE DEF t
  <2>7. Ready(now, t)
    BY <2>1, <2>4, <2>6 DEF Ready
  <2> QED BY <1>2, <1>3, <2>4, <2>5, <2>7, RightUpTo
<1>5. open' = FALSE
  BY <1>1, <1>2
<1> QED BY <1>1, <1>2, <1>4, <1>5, FinishesRight

-----------------------------------------------------------------------------
(* Every step of the replay, and the rows *)

FstRuns == reading = "fst" => \E from : FstInv(from)

LEMMA FstRunsKept == FstRuns /\ [Next]_vars => FstRuns'
<1> SUFFICES ASSUME FstRuns, [Next]_vars, reading' = "fst" PROVE (\E from : FstInv(from))'
  BY DEF FstRuns
<1>1. reading = "fst" /\ (Fst!Next \/ UNCHANGED <<outcome, samplerVars, readerVars, fstVars>>)
  BY DEF Next, ReadVcd, ReadFst, ReadFile, ReadTable, ReadTimes, vars
<1>2. PICK from : FstInv(from)
  BY <1>1 DEF FstRuns
<1>3. CASE Fst!Next
  <2>1. FstInv(from)'
    BY <1>2, <1>3, OpenBlockKeeps, ReplayKeeps, EndBlockKeeps, FstFinishKeeps DEF Fst!Next
  <2> QED BY <2>1
<1>4. CASE UNCHANGED <<outcome, samplerVars, readerVars, fstVars>>
  <2>1. UNCHANGED <<query, pending, answered, rows, current, beyond, outcome, time, wave, blocks, begins, framed, block, open, position>>
    BY <1>4 DEF samplerVars, readerVars, fstVars
  <2>2. FileRight(from)' /\ (Undamaged' <=> Undamaged) /\ (Fst!Overlapping' <=> Fst!Overlapping)
        /\ (\A id, lo, hi : ChainOf(id, lo, hi)' = ChainOf(id, lo, hi))
        /\ \A id, m, v : Held(id, m, v)' <=> Held(id, m, v)
    BY <1>2, <2>1, FileKept DEF FstInv
  <2>3. FstTyped'
    <3>1. SamplerTyped' /\ InOrderOfTime' /\ RowsFilled' /\ Current(FstWatched)'
      BY <1>2, <2>1 DEF FstInv, FstTyped, SamplerTyped, InOrderOfTime, When, RowsFilled, RowOf, Current
    <3> QED BY <1>2, <2>1, <3>1 DEF FstInv, FstTyped
  <2>4. TimeRight'
    BY <1>2, <2>1 DEF FstInv, TimeRight
  <2>5. FstEnded'
    <3>1. \A i : Fst!Placed(i, 0, MaxTime)' = Fst!Placed(i, 0, MaxTime)
      BY <2>1 DEF Fst!Placed
    <3> QED BY <1>2, <2>1, <2>2, <3>1 DEF FstInv, FstEnded
  <2>6. RowsFollow(FstWatched) => RowsFollow(FstWatched)'
    BY <2>1 DEF RowsFollow, RowOf, When
  <2>7. ReadTo(from) => ReadTo(from)'
    <3>1. \A id, m, now, next : Between(id, m, now, next) => Between(id, m, now, next)'
      BY <2>1, <2>2 DEF Between
    <3>2. \A id, m, now, next, chain : Ahead(id, m, now, next, chain) => Ahead(id, m, now, next, chain)'
      BY <2>1, <2>2 DEF Ahead
    <3>3. \A now : Read(from, now) => Read(from, now)'
      BY <2>1, <2>2, <3>1, <3>2 DEF Read
    <3>4. \A now : ReplayAt(now) => ReplayAt(now)'
      BY <2>1 DEF ReplayAt, When
    <3> QED BY <2>1, <3>3, <3>4 DEF ReadTo
  <2>8. FstInv(from)'
    BY <1>2, <2>1, <2>2, <2>3, <2>4, <2>5, <2>6, <2>7 DEF FstInv
  <2> QED BY <2>8
<1> QED BY <1>1, <1>3, <1>4

\* The invariant gives the property.
LEMMA FstRowsRightIf ==
  ASSUME NEW from, FstInv(from)
  PROVE  Fst!LastChange /\ Fst!MarkedOutside /\ Fst!RefusesDamagedOnly
<1>1. /\ SamplerTyped /\ InOrderOfTime /\ RowsFilled /\ RunRight /\ IsWave(wave)
      /\ Undamaged => RowsFollow(FstWatched)
  BY CutIs, RunIs DEF FstInv, FstTyped
<1>2. DOMAIN query = 1 .. Len(query)
  BY <1>1 DEF SamplerTyped
<1>3. ASSUME NEW i \in 1 .. Len(query)
      PROVE  /\ query[i].ticks \in Nat /\ query[i].between \in BOOLEAN
             /\ Undamaged /\ rows[i] # None => \A id \in FstWatched : LastIs(wave, id, query[i].ticks, rows[i][id])
             /\ outcome = "done" => rows[i] # None
  <2>1. query[i] \in Asked
    BY <1>1 DEF SamplerTyped
  <2>2. PICK k \in 1 .. Len(query) : pending[k] = i
    BY <1>1 DEF InOrderOfTime
  <2>3. When(k) = query[i].ticks /\ RowOf(k) = rows[i]
    BY <2>2 DEF When, RowOf
  <2>4. IF k <= answered THEN rows[i] # None ELSE rows[i] = None
    BY <1>1, <2>3 DEF RowsFilled
  <2>5. Undamaged /\ k <= answered => \A id \in FstWatched : LastIs(wave, id, query[i].ticks, rows[i][id])
    BY <1>1, <2>3 DEF RowsFollow
  <2>6. outcome = "done" => k <= answered
    BY DEF FstInv, FstEnded
  <2> QED BY <2>1, <2>4, <2>5, <2>6 DEF Asked
<1>4. Fst!LastChange
  <2> SUFFICES ASSUME Undamaged, NEW i \in 1 .. Len(query), rows[i] # None, NEW id \in FstWatched
               PROVE  rows[i][id] = Fst!ValueAt(wave, id, query[i].ticks)
    BY <1>2 DEF Fst!LastChange, Fst!RowsFollow, Undamaged
  <2>1. query[i].ticks \in Nat /\ LastIs(wave, id, query[i].ticks, rows[i][id])
    BY <1>3
  <2> QED BY <1>1, <2>1, LastIsValue DEF Fst!ValueAt, Fst!ChangesOf
<1>5. Fst!MarkedOutside
  <2> SUFFICES ASSUME outcome = "done", NEW i \in 1 .. Len(query)
               PROVE  /\ rows[i] # None
                      /\ beyond[i] = "before" <=> Fst!Halves(i) < 2 * 0
                      /\ beyond[i] = "after" <=> Fst!Halves(i) > 2 * MaxTime /\ Fst!Halves(i) >= 2 * 0
    BY <1>2 DEF Fst!MarkedOutside, Fst!EndsWith
  <2>1. query[i].ticks \in Nat /\ query[i].between \in BOOLEAN /\ rows[i] # None
    BY <1>3
  <2>2. MaxTime \in Nat
    BY FstConstants
  <2>3. beyond[i] = Fst!Placed(i, 0, MaxTime)
    BY DEF FstInv, FstEnded
  <2>4. CASE query[i].between = TRUE
    BY <2>1, <2>2, <2>3, <2>4 DEF Fst!Placed, Fst!Halves
  <2>5. CASE query[i].between = FALSE
    BY <2>1, <2>2, <2>3, <2>5 DEF Fst!Placed, Fst!Halves
  <2> QED BY <2>1, <2>4, <2>5
<1>6. Fst!RefusesDamagedOnly
  BY DEF FstInv, FstEnded, Fst!RefusesDamagedOnly
<1> QED BY <1>4, <1>5, <1>6

(***************************************************************************)
(* Every value wave_query reports from an FST file is the last change of   *)
(* the run at or before the time asked for, however the run was cut into   *)
(* blocks, with the values at time 0 as changes or as start values, and    *)
(* wherever the replay stops; every time has its row, marked as outside    *)
(* the file exactly when it is; and a file is refused only when its blocks *)
(* overlap (vhdl/fst.ts, vhdl/wave.ts).                                    *)
(***************************************************************************)
THEOREM FstRows == Spec => []FstRowsRight
<1>1. FstRuns => FstRowsRight
  BY FstRowsRightIf DEF FstRuns, FstRowsRight
<1>2. Init => FstRuns
  BY FstInitially DEF Init, FstRuns
<1>3. Spec => []FstRuns
  BY <1>2, FstRunsKept, PTL DEF Spec
<1> QED BY <1>1, <1>3, PTL

-----------------------------------------------------------------------------
(* The times: a query in any unit, of a file of any timescale *)

\* A finite set of numbers has a least and a greatest.
LEMMA FiniteHasEnds ==
  ASSUME NEW S \in SUBSET Int, IsFiniteSet(S), S # {}
  PROVE  (\E u \in S : \A v \in S : u <= v) /\ (\E u \in S : \A v \in S : v <= u)
<1> DEFINE Ends(R) == (\E u \in R : \A v \in R : u <= v) /\ (\E u \in R : \A v \in R : v <= u)
           T == {n \in Nat : \A R \in SUBSET Int : IsFiniteSet(R) /\ R # {} /\ Cardinality(R) = n => Ends(R)}
<1>1. 0 \in T
  BY FS_EmptySet
<1>2. ASSUME NEW n \in Nat, n \in T PROVE n + 1 \in T
  <2> SUFFICES ASSUME NEW R \in SUBSET Int, IsFiniteSet(R), R # {}, Cardinality(R) = n + 1 PROVE Ends(R)
    OBVIOUS
  <2>1. PICK x \in R : TRUE
    OBVIOUS
  <2> DEFINE Q == R \ {x}
  <2>5. IsFiniteSet(Q) /\ Cardinality(Q) = Cardinality(R) - 1
    BY <2>1, FS_RemoveElement
  <2>2. IsFiniteSet(Q) /\ Cardinality(Q) = n
    BY <2>5
  <2>3. CASE Q = {}
    BY <2>1, <2>3
  <2>4. CASE Q # {}
    <3>1. Ends(Q)
      BY <1>2, <2>2, <2>4
    <3>2. PICK a \in Q, b \in Q : \A v \in Q : a <= v /\ v <= b
      BY <3>1
    <3>3. \A v \in R : v \in Q \/ v = x
      OBVIOUS
    <3>4. \E u \in R : \A v \in R : u <= v
      <4>1. CASE a <= x
        BY <3>2, <3>3, <4>1
      <4>2. CASE x <= a
        BY <2>1, <3>2, <3>3, <4>2
      <4> QED BY <3>2, <4>1, <4>2
    <3>5. \E u \in R : \A v \in R : v <= u
      <4>1. CASE x <= b
        BY <3>2, <3>3, <4>1
      <4>2. CASE b <= x
        BY <2>1, <3>2, <3>3, <4>2
      <4> QED BY <3>2, <4>1, <4>2
    <3> QED BY <3>4, <3>5
  <2> QED BY <2>3, <2>4
<1> HIDE DEF T
<1>3. \A n \in Nat : n \in T
  BY <1>1, <1>2, SetInduction
<1>4. Cardinality(S) \in T
  BY <1>3, FS_CardinalityType
<1> QED BY <1>4 DEF T

-----------------------------------------------------------------------------
(* Times in ticks (WaveTime) *)

Ten(n) == Time!TenTo[n]

LEMMA TenIs == ArePowers(Time!TenTo, 10)
<1>1. \E f : ArePowers(f, 10)
  BY PowersExist
<1> QED BY <1>1 DEF ArePowers, Time!TenTo

LEMMA TenTimes ==
  /\ Ten(0) = 1
  /\ \A n \in Nat : Ten(n) \in Nat \ {0} /\ Ten(n + 1) = 10 * Ten(n)
  /\ \A m, n \in Nat : Ten(m + n) = Ten(m) * Ten(n)
  /\ \A m, n \in Nat : m < n => Ten(m) < Ten(n)
<1>1. 10 \in Nat \ {0} /\ 10 \in Nat \ {0, 1}
  OBVIOUS
<1> DEFINE ten == 10
<1>2. ten \in Nat \ {0} /\ ten \in Nat \ {0, 1} /\ ArePowers(Time!TenTo, ten)
  BY <1>1, TenIs
<1> HIDE DEF ten
<1>3. Ten(0) = 1 /\ \A n \in Nat : Ten(n) \in Nat \ {0} /\ Ten(n + 1) = ten * Ten(n)
  BY <1>2, PowersAre DEF Ten
<1>4. \A m, n \in Nat : Ten(m + n) = Ten(m) * Ten(n)
  BY <1>2, PowersOfSums DEF Ten
<1>5. \A m, n \in Nat : m < n => Ten(m) < Ten(n)
  BY <1>2, LargerPowers DEF Ten
<1> QED BY <1>3, <1>4, <1>5 DEF ten

LEMMA SmallestIs == Time!Smallest \in Units /\ (\A v \in Units : Time!Smallest <= v) /\ Units \in SUBSET Int
<1>1. Units \in SUBSET Int /\ \E least, most \in Units : Units \subseteq least .. most
  BY WaveQueryAssumption DEF Time!TimeAssumption
<1>2. \E u \in Units : \A v \in Units : u <= v
  BY <1>1
<1> QED BY <1>1, <1>2 DEF Time!Smallest

TimesAsked == [digits : Nat, places : Nat, unit : Units \cup {None}]
ScaleRight == timescale \in Time!Timescales \cup {None}
HasTicks(t) == t.unit = None \/ timescale # None

\* A time and its tick, in the units they are compared in.
LEMMA ComparedIn ==
  ASSUME ScaleRight, NEW t \in TimesAsked, HasTicks(t)
  PROVE  /\ t.unit # None => /\ t.unit - Time!Smallest \in Nat /\ timescale.exponent - Time!Smallest \in Nat
                             /\ timescale.magnitude \in Nat \ {0} /\ timescale.exponent \in Int /\ t.unit \in Int
         /\ Time!TimeOf(t) \in Nat /\ Time!TickOf(t) \in Nat \ {0}
<1>1. t.digits \in Nat /\ t.places \in Nat /\ t.unit \in Units \cup {None} /\ Units \subseteq Int
      /\ Magnitudes \subseteq Nat \ {0}
  BY WaveQueryAssumption DEF TimesAsked, Time!TimeAssumption
<1>2. t.unit # None => timescale.exponent \in Units /\ timescale.magnitude \in Magnitudes
  BY DEF ScaleRight, HasTicks, Time!Timescales
<1>3. t.unit # None => /\ t.unit - Time!Smallest \in Nat /\ timescale.exponent - Time!Smallest \in Nat
                       /\ timescale.magnitude \in Nat \ {0} /\ timescale.exponent \in Int /\ t.unit \in Int
  <2> SUFFICES ASSUME t.unit # None
               PROVE  /\ t.unit - Time!Smallest \in Nat /\ timescale.exponent - Time!Smallest \in Nat
                      /\ timescale.magnitude \in Nat \ {0} /\ timescale.exponent \in Int /\ t.unit \in Int
    OBVIOUS
  <2>1. t.unit \in Units /\ timescale.exponent \in Units /\ timescale.magnitude \in Nat \ {0}
    BY <1>1, <1>2
  <2>2. t.unit \in Int /\ timescale.exponent \in Int /\ Time!Smallest \in Int
    BY <1>1, <2>1, SmallestIs
  <2>3. Time!Smallest <= t.unit /\ Time!Smallest <= timescale.exponent
    BY <2>1, SmallestIs
  <2> QED BY <2>1, <2>2, <2>3
<1>4. Ten(t.places) \in Nat \ {0}
  BY <1>1, TenTimes
<1>5. CASE t.unit = None
  BY <1>1, <1>4, <1>5 DEF Time!TimeOf, Time!TickOf, Ten
<1>6. CASE t.unit # None
  <2>1. Ten(t.unit - Time!Smallest) \in Nat \ {0} /\ Ten(timescale.exponent - Time!Smallest) \in Nat \ {0}
    BY <1>3, <1>6, TenTimes
  <2>2. Time!TimeOf(t) = t.digits * Ten(t.unit - Time!Smallest)
    BY <1>6 DEF Time!TimeOf, Ten
  <2>3. Time!TickOf(t) = Ten(t.places) * (timescale.magnitude * Ten(timescale.exponent - Time!Smallest))
    BY <1>6 DEF Time!TickOf, Ten
  <2>4. timescale.magnitude * Ten(timescale.exponent - Time!Smallest) \in Nat \ {0}
    BY <1>3, <1>6, <2>1
  <2>5. \A a, b \in Nat : a * b \in Nat
    OBVIOUS
  <2>6. \A a, b \in Nat \ {0} : a * b \in Nat \ {0}
    OBVIOUS
  <2>7. Time!TimeOf(t) \in Nat
    BY <1>1, <2>1, <2>2, <2>5
  <2>8. Time!TickOf(t) \in Nat \ {0}
    BY <1>4, <2>3, <2>4, <2>6
  <2> QED BY <1>3, <2>7, <2>8
<1> QED BY <1>3, <1>5, <1>6

\* Both are the numerator and the denominator of the code, times the same.
LEMMA SameFraction ==
  ASSUME ScaleRight, NEW t \in TimesAsked, HasTicks(t)
  PROVE  \E numerator \in Nat, denominator \in Nat \ {0}, scale \in Nat \ {0} :
           /\ Time!TimeOf(t) = numerator * scale /\ Time!TickOf(t) = denominator * scale
           /\ Time!Ticks(t) = [ticks |-> numerator \div denominator, between |-> numerator % denominator # 0]
<1> DEFINE exponent == (IF t.unit = None THEN 0 ELSE t.unit - timescale.exponent) - t.places
           numerator == t.digits * (IF exponent >= 0 THEN Ten(exponent) ELSE 1)
           denominator == Time!Divisor(t) * (IF exponent >= 0 THEN 1 ELSE Ten(-exponent))
           up == t.unit - Time!Smallest
           down == timescale.exponent - Time!Smallest
<1>1. Time!Ticks(t) = [ticks |-> numerator \div denominator, between |-> numerator % denominator # 0]
  BY DEF HasTicks, Time!Ticks, Time!Between, Ten
<1>2. t.digits \in Nat /\ t.places \in Nat
  BY DEF TimesAsked
<1>3. t.unit # None => up \in Nat /\ down \in Nat /\ timescale.magnitude \in Nat \ {0} /\ timescale.exponent \in Int /\ t.unit \in Int
  BY ComparedIn
<1>4. /\ \A n \in Nat : Ten(n) \in Nat \ {0}
      /\ \A m, n \in Nat : Ten(m + n) = Ten(m) * Ten(n)
      /\ Ten(0) = 1
  BY TenTimes
<1>5. Time!TimeOf(t) = t.digits * (IF t.unit = None THEN 1 ELSE Ten(up))
  BY DEF Time!TimeOf, Ten
<1>6. Time!TickOf(t) = Ten(t.places) * (IF t.unit = None THEN 1 ELSE timescale.magnitude * Ten(down))
  BY DEF Time!TickOf, Ten
<1>7. Time!Divisor(t) = IF t.unit = None THEN 1 ELSE timescale.magnitude
  BY DEF Time!Divisor
<1>8. Time!Smallest \in Int
  BY SmallestIs, WaveQueryAssumption DEF Time!TimeAssumption
<1> HIDE DEF Ten
<1>9. CASE t.unit = None /\ t.places = 0
  <2> DEFINE one == 1
  <2>0. exponent = 0
    BY <1>9
  <2>1. numerator = t.digits * Ten(0) /\ denominator = 1 * 1
    BY <1>7, <1>9, <2>0
  <2>2. Time!TimeOf(t) = t.digits * 1 /\ Time!TickOf(t) = 1 * 1
    BY <1>2, <1>4, <1>5, <1>6, <1>9
  <2> HIDE DEF exponent, numerator, denominator
  <2>3. /\ numerator \in Nat /\ denominator \in Nat \ {0} /\ one \in Nat \ {0}
        /\ Time!TimeOf(t) = numerator * one /\ Time!TickOf(t) = denominator * one
    <3>0. Ten(0) = 1
      BY <1>4
    <3>1. numerator = t.digits /\ denominator = 1
      BY <1>2, <2>1, <3>0
    <3>2. Time!TimeOf(t) = t.digits /\ Time!TickOf(t) = 1
      BY <1>2, <2>2
    <3> QED BY <1>2, <3>1, <3>2
  <2> HIDE DEF one
  <2> QED BY <1>1, <2>3
<1>10. CASE t.unit = None /\ t.places # 0
  <2>1. exponent = -t.places /\ numerator = t.digits * 1 /\ denominator = 1 * Ten(t.places)
    BY <1>2, <1>7, <1>10
  <2>2. Time!TimeOf(t) = t.digits * 1 /\ Time!TickOf(t) = Ten(t.places) * 1 /\ Ten(t.places) \in Nat \ {0}
    BY <1>2, <1>4, <1>5, <1>6, <1>10
  <2> HIDE DEF exponent, numerator, denominator
  <2> DEFINE one == 1
  <2>3. /\ numerator \in Nat /\ denominator \in Nat \ {0} /\ one \in Nat \ {0}
        /\ Time!TimeOf(t) = numerator * one /\ Time!TickOf(t) = denominator * one
    BY <1>2, <2>1, <2>2
  <2> HIDE DEF one
  <2> QED BY <1>1, <2>3
<1>11. CASE t.unit # None /\ exponent >= 0
  <2>1. exponent \in Nat /\ up = exponent + (down + t.places) /\ down \in Nat /\ down + t.places \in Nat
    BY <1>2, <1>3, <1>8, <1>11
  <2>2. numerator = t.digits * Ten(exponent) /\ denominator = timescale.magnitude * 1
    BY <1>7, <1>11
  <2> HIDE DEF exponent, numerator, denominator, up, down
  <2> DEFINE scale == Ten(down + t.places)
  <2>3. /\ scale \in Nat \ {0} /\ Ten(up) = Ten(exponent) * scale /\ scale = Ten(down) * Ten(t.places)
        /\ Ten(exponent) \in Nat \ {0} /\ Ten(down) \in Nat \ {0} /\ Ten(t.places) \in Nat \ {0}
    BY <1>2, <1>4, <2>1
  <2> HIDE DEF scale
  <2>4. numerator \in Nat /\ denominator \in Nat \ {0} /\ timescale.magnitude \in Nat \ {0}
    BY <1>2, <1>3, <1>11, <2>2, <2>3
  <2>5. Time!TimeOf(t) = numerator * scale
    <3>1. Time!TimeOf(t) = t.digits * (Ten(exponent) * scale)
      BY <1>5, <1>11, <2>3
    <3>2. \A a, b, c \in Nat : a * (b * c) = (a * b) * c
      OBVIOUS
    <3> QED BY <1>2, <2>2, <2>3, <3>1, <3>2
  <2>6. Time!TickOf(t) = denominator * scale
    <3>1. Time!TickOf(t) = Ten(t.places) * (timescale.magnitude * Ten(down))
      BY <1>6, <1>11
    <3>2. \A a, b, c \in Nat : a * (b * c) = (b * 1) * (c * a)
      OBVIOUS
    <3> QED BY <2>2, <2>3, <2>4, <3>1, <3>2
  <2> QED BY <1>1, <2>3, <2>4, <2>5, <2>6
<1>12. CASE t.unit # None /\ ~(exponent >= 0)
  <2>1. -exponent \in Nat /\ down + t.places = up + (-exponent) /\ down \in Nat /\ up \in Nat
    BY <1>2, <1>3, <1>8, <1>12
  <2>2. numerator = t.digits * 1 /\ denominator = timescale.magnitude * Ten(-exponent)
    BY <1>7, <1>12
  <2> HIDE DEF exponent, numerator, denominator, up, down
  <2>3. /\ Ten(down) * Ten(t.places) = Ten(up) * Ten(-exponent)
        /\ Ten(-exponent) \in Nat \ {0} /\ Ten(down) \in Nat \ {0} /\ Ten(t.places) \in Nat \ {0} /\ Ten(up) \in Nat \ {0}
    <3> DEFINE more == -exponent
    <3>1. more \in Nat /\ down + t.places = up + more
      BY <2>1
    <3> HIDE DEF more
    <3>2. Ten(down) * Ten(t.places) = Ten(up) * Ten(more)
      <4>1. Ten(down + t.places) = Ten(down) * Ten(t.places)
        BY <1>2, <1>4, <2>1
      <4>2. Ten(up + more) = Ten(up) * Ten(more)
        BY <1>4, <2>1, <3>1
      <4> QED BY <3>1, <4>1, <4>2
    <3> QED BY <1>2, <1>4, <2>1, <3>1, <3>2 DEF more
  <2>4. numerator \in Nat /\ denominator \in Nat \ {0} /\ timescale.magnitude \in Nat \ {0}
    <3>1. timescale.magnitude \in Nat \ {0} /\ numerator \in Nat
      BY <1>2, <1>3, <1>12, <2>2
    <3>2. \A a, b \in Nat \ {0} : a * b \in Nat \ {0}
      OBVIOUS
    <3> QED BY <2>2, <2>3, <3>1, <3>2
  <2>5. Time!TimeOf(t) = numerator * Ten(up)
    BY <1>2, <1>5, <1>12, <2>2, <2>3
  <2>6. Time!TickOf(t) = denominator * Ten(up)
    <3>1. Time!TickOf(t) = Ten(t.places) * (timescale.magnitude * Ten(down))
      BY <1>6, <1>12
    <3>2. \A a, b, c \in Nat : a * (b * c) = b * (c * a)
      OBVIOUS
    <3>3. Time!TickOf(t) = timescale.magnitude * (Ten(up) * Ten(-exponent))
      BY <2>3, <2>4, <3>1, <3>2
    <3>4. \A a, b, c \in Nat : a * (b * c) = (a * c) * b
      OBVIOUS
    <3> QED BY <2>2, <2>3, <2>4, <3>3, <3>4
  <2> QED BY <1>1, <2>3, <2>4, <2>5, <2>6
<1> QED BY <1>9, <1>10, <1>11, <1>12

\* What a time is in ticks.
LEMMA TicksAre ==
  ASSUME ScaleRight, NEW t \in TimesAsked, HasTicks(t)
  PROVE  Time!Ticks(t) = [ticks |-> Time!TimeOf(t) \div Time!TickOf(t),
                          between |-> (Time!TimeOf(t) \div Time!TickOf(t)) * Time!TickOf(t) # Time!TimeOf(t)]
<1>1. PICK n \in Nat, d \in Nat \ {0}, k \in Nat \ {0} :
        /\ Time!TimeOf(t) = n * k /\ Time!TickOf(t) = d * k
        /\ Time!Ticks(t) = [ticks |-> n \div d, between |-> n % d # 0]
  BY SameFraction
<1> DEFINE q == n \div d
           r == n % d
<1>2. q \in Int /\ r \in 0 .. d - 1 /\ n = d * q + r
  BY Division
<1>3. (n * k) \div (d * k) = q
  BY CancelsDivision
<1> HIDE DEF q, r
<1>4. q * (d * k) # n * k <=> r # 0
  <2>1. n * k = q * (d * k) + r * k
    BY <1>2
  <2>2. r * k = 0 <=> r = 0
    BY <1>2
  <2>3. q * (d * k) \in Int /\ r * k \in Int
    BY <1>2
  <2> QED BY <2>1, <2>2, <2>3
<1> QED BY <1>1, <1>3, <1>4 DEF q, r

-----------------------------------------------------------------------------
(* A count of ticks as a text (WaveTime) *)

\* Zeros at the end are left out, and the value stays.
LEMMA StrippedIs ==
  ASSUME NEW t, t.digits \in Nat, t.places \in Nat, t = [digits |-> t.digits, places |-> t.places, unit |-> t.unit]
  PROVE  \E most \in 0 .. t.places, digits \in Nat :
           /\ Time!Stripped(t) = [digits |-> digits, places |-> t.places - most, unit |-> t.unit]
           /\ t.digits = digits * Ten(most)
           /\ t.places > most => digits % 10 # 0
<1> DEFINE zeros == {k \in 0 .. t.places : t.digits % Ten(k) = 0}
           most == CHOOSE k \in zeros : \A j \in zeros : j <= k
           digits == t.digits \div Ten(most)
<1>1. Ten(0) = 1 /\ \A n \in Nat : Ten(n) \in Nat \ {0} /\ Ten(n + 1) = 10 * Ten(n)
  BY TenTimes
<1>2. t.digits % Ten(0) = 0
  BY <1>1
<1>3. zeros \in SUBSET Int /\ IsFiniteSet(zeros) /\ zeros # {}
  <2>1. 0 \in zeros
    BY <1>2
  <2>2. IsFiniteSet(0 .. t.places)
    <3>1. 0 \in Int /\ t.places \in Int
      OBVIOUS
    <3> QED BY <3>1, FS_Interval
  <2> QED BY <2>1, <2>2, FS_Subset
<1>4. Time!Stripped(t) = [t EXCEPT !.digits = @ \div Ten(most), !.places = @ - most]
  BY DEF Time!Stripped, Ten
<1>5. most \in zeros /\ \A j \in zeros : j <= most
  <2> HIDE DEF zeros
  <2>1. \E k \in zeros : \A j \in zeros : j <= k
    BY <1>3, FiniteHasEnds
  <2> QED BY <2>1
<1>6. most \in 0 .. t.places /\ t.digits % Ten(most) = 0 /\ Ten(most) \in Nat \ {0} /\ Ten(most + 1) = 10 * Ten(most)
  <2>1. most \in 0 .. t.places /\ t.digits % Ten(most) = 0
    BY <1>5
  <2> QED BY <1>1, <2>1
<1>7. \A j \in 0 .. t.places : t.digits % Ten(j) = 0 => j <= most
  BY <1>5
<1> HIDE DEF most, zeros
<1>8. digits \in Nat /\ t.digits = digits * Ten(most)
  BY <1>6, WholeQuotient
<1>9. Time!Stripped(t) = [digits |-> digits, places |-> t.places - most, unit |-> t.unit]
  BY <1>4
<1> HIDE DEF digits
<1>10. ASSUME t.places > most, digits % 10 = 0 PROVE FALSE
  <2>1. digits = 10 * (digits \div 10) /\ digits \div 10 \in Int
    BY <1>8, <1>10
  <2> DEFINE tenth == digits \div 10
  <2>2. digits = 10 * tenth /\ tenth \in Int
    BY <2>1
  <2> HIDE DEF tenth
  <2>3. t.digits = tenth * Ten(most + 1)
    <3>1. \A a, b \in Int : (10 * a) * b = a * (10 * b)
      OBVIOUS
    <3> QED BY <1>6, <1>8, <2>2, <3>1
  <2>4. most + 1 \in 0 .. t.places /\ Ten(most + 1) \in Nat \ {0}
    BY <1>1, <1>6, <1>10
  <2>5. t.digits % Ten(most + 1) = 0
    BY <2>2, <2>3, <2>4, Multiple
  <2> QED BY <1>6, <1>7, <2>4, <2>5
<1> QED BY <1>6, <1>8, <1>9, <1>10

\* What FormatTime gives: the count in a unit, and that unit is the largest that fits.
Given(t, n) ==
  /\ t \in TimesAsked /\ HasTicks(t) /\ Time!TimeOf(t) = n * Time!TickOf(t)
  /\ timescale # None =>
       /\ t.digits >= Ten(t.places) \/ (n = 0 /\ t.unit = timescale.exponent)
       /\ \A u \in Units : u > t.unit => t.digits < Ten(u - t.unit + t.places)
       /\ t.places > 0 => t.digits % 10 # 0

\* A count of ticks is formatted as the same fraction, with no zeros behind.
LEMMA FormatIs ==
  ASSUME ScaleRight, NEW n \in Nat
  PROVE  Given(Time!FormatTime(n), n)
<1>1. CASE timescale = None
  <2> DEFINE t == [digits |-> n, places |-> 0, unit |-> None]
  <2>1. Time!FormatTime(n) = t
    BY <1>1 DEF Time!FormatTime
  <2>2. Ten(0) = 1
    BY TenTimes
  <2>3. Time!TimeOf(t) = n * 1 /\ Time!TickOf(t) = 1 * 1
    BY <2>2 DEF Time!TimeOf, Time!TickOf, Ten
  <2>4. t \in TimesAsked /\ HasTicks(t)
    BY DEF TimesAsked, HasTicks
  <2>5. Time!TimeOf(t) = n * Time!TickOf(t)
    BY <2>3
  <2> HIDE DEF t
  <2> QED BY <1>1, <2>1, <2>4, <2>5 DEF Given
<1>2. CASE timescale # None
  <2> DEFINE e == timescale.exponent
             S == Time!Smallest
             m == timescale.magnitude
             smallest == n * m * Ten(e - S)
             fitting == {u \in Units : smallest >= Ten(u - S)}
             unit == IF fitting = {} THEN e ELSE CHOOSE u \in fitting : \A v \in fitting : v <= u
             t == [digits |-> smallest, places |-> unit - S, unit |-> unit]
  <2>1. Time!FormatTime(n) = Time!Stripped(t)
    BY <1>2 DEF Time!FormatTime, Time!AtLeastOne, Ten
  <2>2. e \in Units /\ m \in Nat \ {0} /\ e \in Int /\ S \in Int /\ \A u \in Units : u \in Int /\ u - S \in Nat
    <3>1. e \in Units /\ m \in Magnitudes /\ Magnitudes \subseteq Nat \ {0}
      BY <1>2, WaveQueryAssumption DEF ScaleRight, Time!Timescales, Time!TimeAssumption
    <3>2. S \in Int /\ \A u \in Units : u \in Int /\ S <= u
      BY SmallestIs
    <3> HIDE DEF S, e, m
    <3> QED BY <3>1, <3>2
  <2>3. /\ Ten(0) = 1 /\ \A k \in Nat : Ten(k) \in Nat \ {0} /\ Ten(k + 1) = 10 * Ten(k)
        /\ \A j, k \in Nat : Ten(j + k) = Ten(j) * Ten(k)
        /\ \A j, k \in Nat : j < k => Ten(j) < Ten(k)
    BY TenTimes
  <2>4. /\ unit \in Units
        /\ fitting # {} => unit \in fitting
        /\ \A u \in fitting : u <= unit
    <3>1. fitting \in SUBSET Int /\ fitting \in SUBSET Units
      BY <2>2
    <3>2. ASSUME fitting # {} PROVE unit \in fitting /\ \A u \in fitting : u <= unit
      <4>1. PICK least \in Units, most \in Units : Units \subseteq least .. most
        BY WaveQueryAssumption DEF Time!TimeAssumption
      <4>2. IsFiniteSet(least .. most) /\ fitting \in SUBSET (least .. most)
        BY <2>2, <3>1, <4>1, FS_Interval
      <4> HIDE DEF fitting
      <4>3. IsFiniteSet(fitting)
        BY <4>2, FS_Subset
      <4>4. \E u \in fitting : \A v \in fitting : v <= u
        BY <3>1, <3>2, <4>3, FiniteHasEnds
      <4> QED BY <3>2, <4>4
    <3> HIDE DEF fitting
    <3> QED BY <2>2, <3>1, <3>2
  <2>5. smallest \in Nat
    <3>1. Ten(e - S) \in Nat \ {0}
      BY <2>2, <2>3
    <3>2. n * m \in Nat
      BY <2>2
    <3> QED BY <3>1, <3>2
  <2>6. \A u \in Units : smallest >= Ten(u - S) <=> u \in fitting
    OBVIOUS
  <2>7. fitting = {} => unit = e /\ n = 0
    <3> SUFFICES ASSUME fitting = {} PROVE n = 0
      BY DEF unit
    <3>1. Ten(e - S) \in Nat \ {0} /\ ~(smallest >= Ten(e - S))
      BY <2>2, <2>3, <2>6
    <3>2. n # 0 => n * m >= 1
      BY <2>2
    <3>3. \A a \in Nat, b \in Nat \ {0} : a >= 1 => a * b >= b
      OBVIOUS
    <3>4. n * m \in Nat
      BY <2>2
    <3> QED BY <3>1, <3>2, <3>3, <3>4
  <2> HIDE DEF fitting
  <2>8. unit \in Units /\ unit \in Int /\ unit - S \in Nat
    <3> HIDE DEF unit, S
    <3> QED BY <2>2, <2>4
  <2>9. t.digits = smallest /\ t.places = unit - S /\ t.unit = unit
        /\ t = [digits |-> t.digits, places |-> t.places, unit |-> t.unit]
    OBVIOUS
  <2> HIDE DEF unit, t
  <2>10. PICK most \in 0 .. t.places, digits \in Nat :
           /\ Time!Stripped(t) = [digits |-> digits, places |-> t.places - most, unit |-> t.unit]
           /\ t.digits = digits * Ten(most)
           /\ t.places > most => digits % 10 # 0
    BY <2>5, <2>8, <2>9, StrippedIs
  <2> DEFINE places == unit - S - most
             g == [digits |-> digits, places |-> places, unit |-> unit]
  <2>11. /\ Time!FormatTime(n) = g /\ g.digits = digits /\ g.places = places /\ g.unit = unit
         /\ places \in Nat /\ most \in Nat /\ unit - S = places + most
         /\ smallest = digits * Ten(most)
         /\ places > 0 => digits % 10 # 0
    BY <2>1, <2>8, <2>9, <2>10
  <2>12. unit # None
    <3>1. None \notin Int
      BY WaveQueryAssumption DEF Time!TimeAssumption
    <3> QED BY <2>8, <3>1
  <2>13. Time!TimeOf(g) = digits * Ten(unit - S) /\ Time!TickOf(g) = Ten(places) * (m * Ten(e - S))
    BY <2>11, <2>12 DEF Time!TimeOf, Time!TickOf, Ten
  <2>14. g \in TimesAsked /\ HasTicks(g)
    BY <1>2, <2>8, <2>10, <2>11 DEF TimesAsked, HasTicks
  <2> HIDE DEF g, places
  <2>15. Ten(unit - S) = Ten(places) * Ten(most) /\ Ten(places) \in Nat \ {0} /\ Ten(most) \in Nat \ {0}
    <3>1. places \in Nat /\ most \in Nat /\ unit - S = places + most
      BY <2>11
    <3> HIDE DEF Ten, S
    <3>2. Ten(places + most) = Ten(places) * Ten(most)
      BY <2>3, <3>1
    <3> QED BY <2>3, <3>1, <3>2
  <2>16. Time!TimeOf(g) = n * Time!TickOf(g)
    <3>1. Time!TimeOf(g) = (digits * Ten(most)) * Ten(places)
      <4>1. \A a, b, c \in Nat : a * (b * c) = (a * c) * b
        OBVIOUS
      <4> QED BY <2>10, <2>13, <2>15, <4>1
    <3>2. n * Time!TickOf(g) = (n * m * Ten(e - S)) * Ten(places)
      <4>1. \A a, b, c, d \in Nat : a * (b * (c * d)) = (a * c * d) * b
        OBVIOUS
      <4>2. Ten(e - S) \in Nat
        BY <2>2, <2>3
      <4> QED BY <2>2, <2>13, <2>15, <4>1, <4>2
    <3> QED BY <2>11, <3>1, <3>2
  <2>17. digits >= Ten(places) \/ (n = 0 /\ unit = e)
    <3> SUFFICES ASSUME fitting # {} PROVE digits >= Ten(places)
      BY <2>7
    <3>1. digits * Ten(most) >= Ten(places) * Ten(most)
      BY <2>4, <2>6, <2>8, <2>11, <2>15
    <3>2. \A a, b \in Nat, c \in Nat \ {0} : a * c >= b * c => a >= b
      OBVIOUS
    <3> QED BY <2>10, <2>15, <3>1, <3>2
  <2>18. ASSUME NEW u \in Units, u > unit PROVE digits < Ten(u - unit + places)
    <3>1. u \notin fitting
      BY <2>2, <2>4, <2>8, <2>18
    <3>2. u - S \in Nat /\ u - unit + places \in Nat /\ u - S = (u - unit + places) + most
      BY <2>2, <2>8, <2>11, <2>18
    <3>3. Ten(u - S) = Ten(u - unit + places) * Ten(most) /\ Ten(u - unit + places) \in Nat \ {0}
      BY <2>3, <2>11, <3>2
    <3>4. digits * Ten(most) < Ten(u - unit + places) * Ten(most)
      <4>1. smallest < Ten(u - S)
        <5>1. Ten(u - S) \in Nat /\ ~(smallest >= Ten(u - S))
          BY <2>3, <2>6, <3>1, <3>2
        <5> HIDE DEF smallest
        <5> QED BY <2>5, <5>1
      <4> QED BY <2>11, <3>3, <4>1
    <3>5. \A a, b \in Nat, c \in Nat \ {0} : a * c < b * c => a < b
      OBVIOUS
    <3> QED BY <2>10, <2>15, <3>3, <3>4, <3>5
  <2>19. Given(g, n)
    BY <2>11, <2>14, <2>16, <2>17, <2>18 DEF Given
  <2> QED BY <2>11, <2>19
<1> QED BY <1>1, <1>2

-----------------------------------------------------------------------------
(* Every query of times *)

TimesRun == reading = "times" =>
  /\ ScaleRight /\ text \in TimesAsked /\ count \in Nat
  /\ asked = None \/ asked = Time!Ticks(text)
  /\ given = None \/ given = Time!FormatTime(count)

LEMMA TimesRunAlways == Spec => []TimesRun
<1>1. Init => TimesRun
  BY WaveQueryAssumption DEF Init, TimesRun, Time!Init, ScaleRight, Time!TimeAssumption, TimesAsked
<1>2. TimesRun /\ [Next]_vars => TimesRun'
  <2> SUFFICES ASSUME TimesRun, [Next]_vars, reading' = "times" PROVE TimesRun'
    BY DEF TimesRun
  <2>1. CASE ReadTimes
    <3>1. /\ timescale' = timescale /\ text' = text /\ count' = count
          /\ asked' = Time!Ticks(text) /\ given' = Time!FormatTime(count) /\ reading = "times"
      BY <2>1 DEF ReadTimes, Time!Query
    <3>2. Time!Ticks(text)' = Time!Ticks(text) /\ Time!FormatTime(count)' = Time!FormatTime(count)
      BY <3>1 DEF Time!Ticks, Time!FormatTime, Time!Divisor
    <3> QED BY <3>1, <3>2 DEF TimesRun, ScaleRight
  <2>2. CASE UNCHANGED <<reading, timesVars>>
    <3>1. timescale' = timescale /\ text' = text /\ count' = count /\ asked' = asked /\ given' = given /\ reading = "times"
      BY <2>2 DEF timesVars
    <3>2. Time!Ticks(text)' = Time!Ticks(text) /\ Time!FormatTime(count)' = Time!FormatTime(count)
      BY <3>1 DEF Time!Ticks, Time!FormatTime, Time!Divisor
    <3> QED BY <3>1, <3>2 DEF TimesRun, ScaleRight
  <2> QED BY <2>1, <2>2 DEF Next, ReadVcd, ReadFst, ReadFile, ReadTable, vars
<1> QED BY <1>1, <1>2, PTL DEF Spec

\* The run gives the property: the text's fraction and the tick's are compared.
LEMMA TimesRightIf == TimesRun => TimesInTicks
<1> SUFFICES ASSUME TimesRun, reading = "times" PROVE Time!LastTickBefore /\ Time!GivenIsAsked /\ Time!LargestUnit
  BY DEF TimesInTicks
<1>1. /\ ScaleRight /\ text \in TimesAsked /\ count \in Nat
      /\ asked = None \/ asked = Time!Ticks(text)
      /\ given = None \/ given = Time!FormatTime(count)
  BY DEF TimesRun
<1>2. Time!LastTickBefore
  <2> SUFFICES ASSUME asked # None, HasTicks(text)
               PROVE  /\ asked.ticks = Time!TimeOf(text) \div Time!TickOf(text)
                      /\ asked.between <=> asked.ticks * Time!TickOf(text) # Time!TimeOf(text)
    BY DEF Time!LastTickBefore, HasTicks
  <2>1. asked = [ticks |-> Time!TimeOf(text) \div Time!TickOf(text),
                 between |-> (Time!TimeOf(text) \div Time!TickOf(text)) * Time!TickOf(text) # Time!TimeOf(text)]
    BY <1>1, TicksAre
  <2> QED BY <2>1
<1>3. given # None => Given(given, count)
  BY <1>1, FormatIs
<1>4. Time!GivenIsAsked
  <2> SUFFICES ASSUME given # None PROVE Time!Ticks(given) = [ticks |-> count, between |-> FALSE]
    BY DEF Time!GivenIsAsked
  <2> DEFINE T == Time!TimeOf(given)
             D == Time!TickOf(given)
  <2>1. given \in TimesAsked /\ HasTicks(given) /\ T = count * D
    BY <1>3 DEF Given
  <2>2. D \in Nat \ {0}
    BY <1>1, <2>1, ComparedIn
  <2>3. Time!Ticks(given) = [ticks |-> T \div D, between |-> (T \div D) * D # T]
    BY <1>1, <2>1, TicksAre
  <2> HIDE DEF T, D
  <2>4. T \div D = count
    <3>1. T \in Int /\ count \in Int /\ count * D <= T /\ T < count * D + D
      BY <1>1, <2>1, <2>2
    <3> QED BY <2>2, <3>1, QuotientIs
  <2> QED BY <2>1, <2>3, <2>4
<1>5. Time!LargestUnit
  BY <1>3 DEF Given, Time!LargestUnit, Ten
<1> QED BY <1>2, <1>4, <1>5

(***************************************************************************)
(* Any time is read as the last tick that is not after it, and is between  *)
(* ticks exactly when it is not that tick; any count of ticks is given     *)
(* back as a time that is read as that count, in the largest unit that     *)
(* keeps it at least 1 (ticks and formatTime of vhdl/wave.ts).             *)
(***************************************************************************)
THEOREM TimesRight == Spec => []TimesInTicks
BY TimesRunAlways, TimesRightIf, PTL
-----------------------------------------------------------------------------
(* Where the changes of each signal are *)

LEMMA ChainConstants == Chain!ChainAssumption
BY WaveQueryAssumption

WellLaid ==
  /\ layout \in [Chain!Handles -> {None} \cup [length : Lengths] \cup [alias : Chain!Handles]]
  /\ \A h \in Chain!Handles : Chain!Shares(h) => layout[h].alias < h

LEMMA SignalsAre ==
  ASSUME WellLaid, NEW h \in Chain!Handles
  PROVE  /\ Chain!Own(h) => layout[h].length \in Nat \ {0}
         /\ Chain!Shares(h) => layout[h].alias \in Chain!Handles /\ layout[h].alias < h
BY ChainConstants DEF WellLaid, Chain!Own, Chain!Shares, Chain!ChainAssumption

LEMMA StartIs ==
  ASSUME WellLaid
  PROVE  /\ \A h \in 1 .. Count + 1 : Chain!Start[h] \in Nat \ {0}
         /\ Chain!Start[1] = 1
         /\ \A h \in Chain!Handles : Chain!Start[h + 1] = Chain!Start[h] + (IF Chain!Own(h) THEN layout[h].length ELSE 0)
<1> DEFINE long == [h \in Chain!Handles |-> IF Chain!Own(h) THEN layout[h].length ELSE 0]
           S == Nat \ {0}
           step == [p \in S \X (1 .. Count) |-> p[1] + long[p[2]]]
           Fn(f) == [h \in 1 .. Count + 1 |-> IF h = 1 THEN 1 ELSE f[h - 1] + (IF Chain!Own(h - 1) THEN layout[h - 1].length ELSE 0)]
<1>1. Count \in Nat \ {0} /\ Chain!Handles = 1 .. Count
  BY ChainConstants DEF Chain!ChainAssumption, Chain!Handles
<1>2. \A h \in Chain!Handles : long[h] \in Nat
  BY SignalsAre
<1>3. \A h \in Chain!Handles : long[h] = IF Chain!Own(h) THEN layout[h].length ELSE 0
  OBVIOUS
<1> HIDE DEF long
<1>4. step \in Steps(S, Count)
  BY <1>1, <1>2 DEF Steps
<1>5. \A x \in S, n \in 1 .. Count : step[<<x, n>>] = x + long[n]
  OBVIOUS
<1> HIDE DEF S, step
<1>6. 1 \in S
  BY DEF S
<1>7. PICK g : Unfolds(g, S, 1, Count, step)
  <2> DEFINE one == 1
  <2>1. one \in S
    BY <1>6
  <2> HIDE DEF one
  <2>2. \E g : Unfolds(g, S, one, Count, step)
    BY <1>1, <1>4, <2>1, RecursionExists
  <2> QED BY <2>2 DEF one
<1>8. g \in [0 .. Count -> S] /\ g[0] = 1 /\ \A n \in 1 .. Count : g[n] = g[n - 1] + long[n]
  <2> SUFFICES ASSUME NEW n \in 1 .. Count PROVE g[n] = g[n - 1] + long[n]
    BY <1>7 DEF Unfolds
  <2>0. n - 1 \in 0 .. Count
    BY <1>1
  <2>1. g \in [0 .. Count -> S] /\ g[n] = step[<<g[n - 1], n>>]
    BY <1>7, Zenon DEF Unfolds
  <2>2. g[n - 1] \in S
    BY <2>0, <2>1
  <2> QED BY <1>5, <2>1, <2>2
<1> DEFINE s == [h \in 1 .. Count + 1 |-> g[h - 1]]
<1>9. s = Fn(s)
  <2> SUFFICES ASSUME NEW h \in 1 .. Count + 1
               PROVE  g[h - 1] = IF h = 1 THEN 1 ELSE s[h - 1] + (IF Chain!Own(h - 1) THEN layout[h - 1].length ELSE 0)
    BY Zenon
  <2>0. CASE h = 1
    BY <1>8, <2>0
  <2> SUFFICES ASSUME h # 1
               PROVE  g[h - 1] = s[h - 1] + (IF Chain!Own(h - 1) THEN layout[h - 1].length ELSE 0)
    BY <2>0
  <2>1. h - 1 \in 1 .. Count /\ h - 1 \in 1 .. Count + 1
    BY <1>1
  <2>2. s[h - 1] = g[h - 1 - 1]
    BY <2>1
  <2> HIDE DEF s
  <2> QED BY <1>1, <1>3, <1>8, <2>1, <2>2
<1> HIDE DEF s
<1>10. Chain!Start = Fn(Chain!Start)
  <2>1. \E f : f = Fn(f)
    BY <1>9
  <2> QED BY <2>1 DEF Chain!Start
<1>11. /\ Chain!Start[1] = 1
       /\ \A h \in Chain!Handles : Chain!Start[h + 1] = Chain!Start[h] + long[h]
  <2>1. 1 \in 1 .. Count + 1 /\ \A h \in Chain!Handles : h + 1 \in 1 .. Count + 1 /\ h + 1 # 1 /\ h + 1 - 1 = h
    BY <1>1
  <2>2. ASSUME NEW f, f = Fn(f) PROVE f[1] = 1 /\ \A h \in Chain!Handles : f[h + 1] = f[h] + (IF Chain!Own(h) THEN layout[h].length ELSE 0)
    <3>1. \A h \in 1 .. Count + 1 : f[h] = IF h = 1 THEN 1 ELSE f[h - 1] + (IF Chain!Own(h - 1) THEN layout[h - 1].length ELSE 0)
      BY <2>2, Zenon
    <3> HIDE DEF Fn
    <3>2. f[1] = 1
      BY <2>1, <3>1
    <3>3. ASSUME NEW h \in Chain!Handles PROVE f[h + 1] = f[h] + (IF Chain!Own(h) THEN layout[h].length ELSE 0)
      <4> DEFINE k == h + 1
      <4>1. k \in 1 .. Count + 1 /\ k # 1 /\ h = k - 1
        BY <1>1
      <4> HIDE DEF k
      <4>2. f[k] = f[h] + (IF Chain!Own(h) THEN layout[h].length ELSE 0)
        BY <3>1, <4>1, Zenon
      <4> QED BY <4>2, Zenon DEF k
    <3> QED BY <3>2, <3>3
  <2> HIDE DEF Fn
  <2> QED BY <1>3, <1>10, <2>2
<1>12. \A h \in 1 .. Count + 1 : Chain!Start[h] \in Nat \ {0}
  <2> DEFINE T == {n \in Nat : n <= Count => Chain!Start[n + 1] \in Nat \ {0}}
  <2>1. 0 \in T
    BY <1>11
  <2>2. ASSUME NEW n \in Nat, n \in T PROVE n + 1 \in T
    <3> SUFFICES ASSUME n + 1 <= Count PROVE Chain!Start[n + 1 + 1] \in Nat \ {0}
      OBVIOUS
    <3>1. n + 1 \in Chain!Handles /\ Chain!Start[n + 1] \in Nat \ {0}
      BY <1>1, <2>2
    <3>2. Chain!Start[n + 1 + 1] = Chain!Start[n + 1] + long[n + 1]
      BY <1>11, <3>1
    <3> QED BY <1>2, <3>1, <3>2
  <2> HIDE DEF T
  <2>3. \A n \in Nat : n \in T
    BY <2>1, <2>2, SetInduction
  <2>4. \A n \in Nat : n <= Count => Chain!Start[n + 1] \in Nat \ {0}
    BY <2>3 DEF T
  <2> SUFFICES ASSUME NEW h \in 1 .. Count + 1 PROVE Chain!Start[h] \in Nat \ {0}
    OBVIOUS
  <2>5. h - 1 \in Nat /\ h - 1 <= Count /\ h - 1 + 1 = h
    BY <1>1
  <2> QED BY <2>4, <2>5
<1> QED BY <1>3, <1>11, <1>12

\* What a signal's chain is, when f has those of the signals before it.
Linked(f) == f = [h \in Chain!Handles |->
  IF Chain!Own(h) THEN [offset |-> Chain!Start[h], length |-> layout[h].length]
  ELSE IF Chain!Shares(h) THEN f[layout[h].alias] ELSE None]

LEMMA LinkedOnce ==
  ASSUME WellLaid, NEW f, NEW g, Linked(f), Linked(g)
  PROVE  f = g
<1> DEFINE T == {n \in Nat : \A h \in Chain!Handles : h <= n => f[h] = g[h]}
<1>1. Count \in Nat \ {0} /\ Chain!Handles = 1 .. Count
  BY ChainConstants DEF Chain!ChainAssumption, Chain!Handles
<1>2. 0 \in T
  BY <1>1
<1>3. ASSUME NEW n \in Nat, n \in T PROVE n + 1 \in T
  <2> SUFFICES ASSUME NEW h \in Chain!Handles, h = n + 1 PROVE f[h] = g[h]
    BY <1>1, <1>3
  <2>1. Chain!Shares(h) => layout[h].alias \in Chain!Handles /\ layout[h].alias <= n
    BY <1>1, SignalsAre
  <2>2. Chain!Shares(h) => f[layout[h].alias] = g[layout[h].alias]
    BY <1>3, <2>1
  <2>3. \A e : Linked(e) => e[h] = IF Chain!Own(h) THEN [offset |-> Chain!Start[h], length |-> layout[h].length]
                                  ELSE IF Chain!Shares(h) THEN e[layout[h].alias] ELSE None
    BY Zenon DEF Linked
  <2> QED BY <2>2, <2>3, Zenon
<1> HIDE DEF T
<1>4. \A n \in Nat : n \in T
  BY <1>2, <1>3, SetInduction
<1>5. \A h \in Chain!Handles : f[h] = g[h]
  BY <1>1, <1>4 DEF T
<1>6. f = [h \in Chain!Handles |-> f[h]] /\ g = [h \in Chain!Handles |-> g[h]]
  BY DEF Linked
<1> QED BY <1>5, <1>6

\* The chains of any table are the solution of the writer's equation.
LEMMA LinkedExists ==
  ASSUME WellLaid
  PROVE  \E f : Linked(f)
<1> DEFINE Part(f, n) == f = [h \in 1 .. n |->
             IF Chain!Own(h) THEN [offset |-> Chain!Start[h], length |-> layout[h].length]
             ELSE IF Chain!Shares(h) THEN f[layout[h].alias] ELSE None]
           T == {n \in Nat : n <= Count => \E f : Part(f, n)}
<1>1. Count \in Nat \ {0} /\ Chain!Handles = 1 .. Count
  BY ChainConstants DEF Chain!ChainAssumption, Chain!Handles
<1>2. 0 \in T
  <2> DEFINE f == [h \in 1 .. 0 |-> None]
  <2>1. Part(f, 0)
    OBVIOUS
  <2> QED BY <2>1
<1>3. ASSUME NEW n \in Nat, n \in T PROVE n + 1 \in T
  <2> SUFFICES ASSUME n + 1 <= Count PROVE \E f : Part(f, n + 1)
    OBVIOUS
  <2>1. PICK f : Part(f, n)
    BY <1>1, <1>3
  <2> DEFINE V(k, x) == IF Chain!Own(k) THEN [offset |-> Chain!Start[k], length |-> layout[k].length]
                        ELSE IF Chain!Shares(k) THEN x ELSE None
             e == [h \in 1 .. n + 1 |-> IF h = n + 1 THEN V(n + 1, f[layout[n + 1].alias]) ELSE f[h]]
  <2>2. \A h \in 1 .. n : f[h] = V(h, f[layout[h].alias])
    BY <2>1
  <2>3. \A h \in 1 .. n : e[h] = f[h]
    OBVIOUS
  <2>4. e[n + 1] = V(n + 1, f[layout[n + 1].alias]) /\ e = [h \in 1 .. n + 1 |-> e[h]]
    OBVIOUS
  <2>5. \A h \in 1 .. n + 1 : Chain!Shares(h) => layout[h].alias \in 1 .. n
    BY <1>1, SignalsAre
  <2> HIDE DEF e
  <2>6. \A h \in 1 .. n + 1 : e[h] = V(h, e[layout[h].alias])
    <3> SUFFICES ASSUME NEW h \in 1 .. n + 1 PROVE e[h] = V(h, e[layout[h].alias])
      OBVIOUS
    <3>1. Chain!Shares(h) => e[layout[h].alias] = f[layout[h].alias]
      BY <2>3, <2>5
    <3>2. e[h] = V(h, f[layout[h].alias])
      <4>1. CASE h = n + 1
        BY <2>4, <4>1
      <4>2. CASE h # n + 1
        <5>1. h \in 1 .. n
          BY <4>2
        <5> QED BY <2>2, <2>3, <5>1, Zenon
      <4> QED BY <4>1, <4>2
    <3> QED BY <3>1, <3>2
  <2>7. Part(e, n + 1)
    BY <2>4, <2>6
  <2> QED BY <2>7
<1> HIDE DEF T
<1>4. \A n \in Nat : n \in T
  BY <1>2, <1>3, SetInduction
<1>5. \E f : Part(f, Count)
  BY <1>1, <1>4 DEF T
<1> QED BY <1>1, <1>5 DEF Linked

LEMMA ChainOfIs == ASSUME WellLaid PROVE Linked(Chain!ChainOf)
<1>1. \E f : Linked(f)
  BY LinkedExists
<1> QED BY <1>1 DEF Chain!ChainOf, Linked

-----------------------------------------------------------------------------
(* The table as it is written, and as it is read *)

WStates == [table : Seq(Int), zeros : Nat, offset : Nat, alias : Nat]
Written0 == [table |-> <<>>, zeros |-> 0, offset |-> 0, alias |-> 0]

LEMMA WrittenIn ==
  ASSUME WellLaid, NEW w \in WStates, NEW h \in Chain!Handles
  PROVE  Chain!Written(w, h) \in WStates
<1>1. h \in 1 .. Count + 1 /\ Chain!Skipping(w) \in Seq(Int)
  BY ChainConstants DEF Chain!ChainAssumption, Chain!Handles, WStates, Chain!Skipping
<1>2. Chain!Start[h] \in Nat /\ (~Chain!Own(h) /\ Chain!Shares(h) => layout[h].alias \in Nat)
  BY <1>1, StartIs, SignalsAre DEF Chain!Handles
<1>3. \A e \in Int : w.table \o Chain!Skipping(w) \o <<e>> \in Seq(Int)
  BY <1>1 DEF WStates
<1>4. CASE Chain!Own(h)
  <2>1. w.table \o Chain!Skipping(w) \o <<2 * (Chain!Start[h] - w.offset) + 1>> \in Seq(Int)
    BY <1>2, <1>3 DEF WStates
  <2> HIDE DEF Chain!Skipping
  <2> QED BY <1>2, <1>4, <2>1 DEF Chain!Written, WStates
<1>5. CASE ~Chain!Own(h) /\ Chain!Shares(h)
  <2> DEFINE e == IF repeats /\ w.alias = layout[h].alias THEN 1 ELSE 1 - 2 * layout[h].alias
  <2>1. w.table \o Chain!Skipping(w) \o <<e>> \in Seq(Int)
    BY <1>2, <1>3, <1>5
  <2> QED BY <1>2, <1>5, <2>1 DEF Chain!Written, WStates
<1>6. CASE ~Chain!Own(h) /\ ~Chain!Shares(h)
  BY <1>6 DEF Chain!Written, WStates
<1> QED BY <1>4, <1>5, <1>6

LEMMA WritingIs ==
  ASSUME WellLaid
  PROVE  /\ Chain!Writing[0] = Written0
         /\ \A h \in 0 .. Count : Chain!Writing[h] \in WStates
         /\ \A h \in Chain!Handles : Chain!Writing[h] = Chain!Written(Chain!Writing[h - 1], h)
<1> DEFINE step == [p \in WStates \X (1 .. Count) |-> Chain!Written(p[1], p[2])]
           Fn(f) == [h \in 0 .. Count |-> IF h = 0 THEN Written0 ELSE Chain!Written(f[h - 1], h)]
<1>1. Count \in Nat \ {0} /\ Chain!Handles = 1 .. Count /\ Written0 \in WStates
  BY ChainConstants DEF Chain!ChainAssumption, Chain!Handles, Written0, WStates
<1>2. step \in Steps(WStates, Count)
  BY <1>1, WrittenIn DEF Steps
<1>3. \A w \in WStates, n \in 1 .. Count : step[<<w, n>>] = Chain!Written(w, n)
  OBVIOUS
<1> HIDE DEF step
<1>4. PICK g : Unfolds(g, WStates, Written0, Count, step)
  <2> DEFINE S == WStates
             base == Written0
  <2>1. base \in S /\ step \in Steps(S, Count) /\ Count \in Nat
    BY <1>1, <1>2
  <2> HIDE DEF S, base
  <2>2. \E g : Unfolds(g, S, base, Count, step)
    BY <2>1, RecursionExists
  <2> QED BY <2>2 DEF S, base
<1>5. g \in [0 .. Count -> WStates] /\ g[0] = Written0 /\ \A n \in 1 .. Count : g[n] = Chain!Written(g[n - 1], n)
  <2> SUFFICES ASSUME NEW n \in 1 .. Count PROVE g[n] = Chain!Written(g[n - 1], n)
    BY <1>4 DEF Unfolds
  <2>1. n - 1 \in 0 .. Count
    BY <1>1
  <2>2. g \in [0 .. Count -> WStates] /\ g[n] = step[<<g[n - 1], n>>]
    BY <1>4, Zenon DEF Unfolds
  <2>3. g[n - 1] \in WStates
    BY <2>1, <2>2
  <2> QED BY <1>3, <2>2, <2>3
<1>6. g = Fn(g)
  <2> SUFFICES ASSUME NEW h \in 0 .. Count PROVE g[h] = IF h = 0 THEN Written0 ELSE Chain!Written(g[h - 1], h)
    BY <1>5
  <2>1. h = 0 \/ h \in 1 .. Count
    OBVIOUS
  <2> QED BY <1>5, <2>1, Zenon
<1>7. Chain!Writing = Fn(Chain!Writing)
  <2>1. \E f : f = Fn(f)
    BY <1>6
  <2> QED BY <2>1 DEF Chain!Writing, Written0
<1>8. /\ Chain!Writing[0] = Written0
      /\ \A h \in Chain!Handles : Chain!Writing[h] = Chain!Written(Chain!Writing[h - 1], h)
  <2>1. \A f : f = Fn(f) => f[0] = Written0 /\ \A h \in Chain!Handles : f[h] = Chain!Written(f[h - 1], h)
    <3> SUFFICES ASSUME NEW f, f = Fn(f) PROVE f[0] = Written0 /\ \A h \in Chain!Handles : f[h] = Chain!Written(f[h - 1], h)
      OBVIOUS
    <3>1. \A h \in 0 .. Count : f[h] = IF h = 0 THEN Written0 ELSE Chain!Written(f[h - 1], h)
      BY Zenon
    <3>2. 0 \in 0 .. Count /\ \A h \in Chain!Handles : h \in 0 .. Count /\ h # 0
      BY <1>1
    <3> HIDE DEF Fn
    <3> QED BY <3>1, <3>2, Zenon
  <2> HIDE DEF Fn
  <2> QED BY <1>7, <2>1, Zenon
<1>9. \A h \in 0 .. Count : Chain!Writing[h] \in WStates
  <2> DEFINE T == {n \in Nat : n <= Count => Chain!Writing[n] \in WStates}
  <2>1. 0 \in T
    BY <1>1, <1>8
  <2>2. ASSUME NEW n \in Nat, n \in T PROVE n + 1 \in T
    <3> SUFFICES ASSUME n + 1 <= Count PROVE Chain!Writing[n + 1] \in WStates
      OBVIOUS
    <3> DEFINE k == n + 1
    <3>1. k \in Chain!Handles /\ n = k - 1 /\ Chain!Writing[n] \in WStates
      BY <1>1, <2>2
    <3> HIDE DEF k
    <3>2. Chain!Writing[k] = Chain!Written(Chain!Writing[n], k)
      BY <1>8, <3>1, Zenon
    <3>3. Chain!Writing[k] \in WStates
      BY <3>1, <3>2, WrittenIn
    <3> QED BY <3>3 DEF k
  <2> HIDE DEF T
  <2>3. \A n \in Nat : n \in T
    BY <2>1, <2>2, SetInduction
  <2> QED BY <1>1, <2>3 DEF T
<1> QED BY <1>8, <1>9

RStates == [index : Int, offset : Int, previous : Int, alias : Int, full : BOOLEAN,
            offsets : [Chain!Handles -> Int], aliases : [Chain!Handles -> Int], lengths : [Chain!Handles -> Int]]

LEMMA ClosesIs ==
  ASSUME NEW r \in RStates, NEW offset \in Int
  PROVE  /\ Chain!Closes(r, offset) \in RStates
         /\ Chain!Closes(r, offset) = [r EXCEPT !.lengths = Chain!Closes(r, offset).lengths]
         /\ \A g \in Chain!Handles : Chain!Closes(r, offset).lengths[g] = IF g = r.previous THEN offset - r.offsets[g] ELSE r.lengths[g]
<1>1. \A g \in Chain!Handles : g \in Nat \ {0}
  BY ChainConstants DEF Chain!ChainAssumption, Chain!Handles
<1>2. CASE r.previous = 0
  BY <1>1, <1>2 DEF Chain!Closes, RStates
<1>3. CASE r.previous # 0
  <2> DEFINE L == [r.lengths EXCEPT ![r.previous] = offset - r.offsets[r.previous]]
  <2>1. Chain!Closes(r, offset) = [r EXCEPT !.lengths = L]
    BY <1>3 DEF Chain!Closes, RStates
  <2>2. r.lengths \in [Chain!Handles -> Int] /\ r.offsets \in [Chain!Handles -> Int]
    BY DEF RStates
  <2>3. L \in [Chain!Handles -> Int] /\ \A g \in Chain!Handles : L[g] = IF g = r.previous THEN offset - r.offsets[g] ELSE r.lengths[g]
    <3> DEFINE l == r.lengths
               o == r.offsets
               p == r.previous
    <3>1. l \in [Chain!Handles -> Int] /\ o \in [Chain!Handles -> Int] /\ L = [l EXCEPT ![p] = offset - o[p]]
      BY <2>2
    <3> HIDE DEF l, o, p, L
    <3>2. \A g \in Chain!Handles : L[g] = IF g = p THEN offset - o[g] ELSE l[g]
      BY <3>1
    <3>3. \A g \in Chain!Handles : L[g] \in Int
      BY <3>1, <3>2
    <3>4. L \in [Chain!Handles -> Int]
      BY <3>1, <3>3
    <3> QED BY <3>2, <3>4 DEF l, o, p
  <2> HIDE DEF L
  <2> QED BY <2>1, <2>3 DEF RStates
<1> QED BY <1>2, <1>3

\* What each kind of entry does.
LEMMA SkipIs ==
  ASSUME NEW r \in RStates, NEW e \in Int, e % 2 = 0
  PROVE  Chain!Step(r, e) = [r EXCEPT !.index = @ + e \div 2] /\ Chain!Step(r, e) \in RStates
BY DEF Chain!Step, RStates

LEMMA FullIs ==
  ASSUME NEW r \in RStates, NEW e \in Int, e % 2 # 0, r.index + 1 > Count
  PROVE  Chain!Step(r, e) = [r EXCEPT !.full = TRUE] /\ Chain!Step(r, e) \in RStates
BY DEF Chain!Step, RStates

LEMMA OwnIs ==
  ASSUME NEW r \in RStates, NEW e \in Int, e % 2 # 0, ~(r.index + 1 > Count), e \div 2 > 0
  PROVE  LET h == r.index + 1
             to == r.offset + e \div 2
             s == Chain!Step(r, e) IN
         /\ s \in RStates
         /\ s.index = h /\ s.offset = to /\ s.previous = h /\ s.alias = r.alias /\ s.full = r.full
         /\ s.offsets = [r.offsets EXCEPT ![h] = to] /\ s.aliases = r.aliases
         /\ \A g \in Chain!Handles : s.lengths[g] = IF g = r.previous THEN to - r.offsets[g] ELSE r.lengths[g]
<1> DEFINE h == r.index + 1
           to == r.offset + e \div 2
           c == Chain!Closes(r, to)
           s == Chain!Step(r, e)
<1>1. h \in Int /\ to \in Int /\ e \div 2 \in Int
  BY DEF RStates
<1>2. c \in RStates /\ c = [r EXCEPT !.lengths = c.lengths]
      /\ \A g \in Chain!Handles : c.lengths[g] = IF g = r.previous THEN to - r.offsets[g] ELSE r.lengths[g]
  BY <1>1, ClosesIs
<1>3. s = [c EXCEPT !.index = h, !.offset = @ + e \div 2, !.offsets[h] = to, !.previous = h]
  BY DEF Chain!Step
<1> HIDE DEF c, s, h, to
<1>4. /\ c.offset = r.offset /\ c.offsets = r.offsets /\ c.aliases = r.aliases /\ c.alias = r.alias /\ c.full = r.full
      /\ c.offsets \in [Chain!Handles -> Int]
  BY <1>2 DEF RStates
<1>5. [c.offsets EXCEPT ![h] = to] \in [Chain!Handles -> Int]
  BY <1>1, <1>4
<1>6. c.offset + e \div 2 = to
  BY <1>4 DEF to
<1>7. s = [c EXCEPT !.index = h, !.offset = to, !.offsets = [c.offsets EXCEPT ![h] = to], !.previous = h]
  BY <1>2, <1>3, <1>6 DEF RStates
<1>8. s \in RStates
  BY <1>1, <1>2, <1>5, <1>7 DEF RStates
<1>9. /\ s.index = h /\ s.offset = to /\ s.previous = h /\ s.alias = c.alias /\ s.full = c.full
      /\ s.offsets = [c.offsets EXCEPT ![h] = to] /\ s.aliases = c.aliases /\ s.lengths = c.lengths
  BY <1>2, <1>7 DEF RStates
<1>10. /\ s \in RStates
       /\ s.index = h /\ s.offset = to /\ s.previous = h /\ s.alias = r.alias /\ s.full = r.full
       /\ s.offsets = [r.offsets EXCEPT ![h] = to] /\ s.aliases = r.aliases
       /\ \A g \in Chain!Handles : s.lengths[g] = IF g = r.previous THEN to - r.offsets[g] ELSE r.lengths[g]
  BY <1>2, <1>4, <1>8, <1>9, Zenon
<1> QED BY <1>10, Zenon DEF h, to, s

LEMMA AliasIs ==
  ASSUME NEW r \in RStates, NEW e \in Int, e % 2 # 0, ~(r.index + 1 > Count), ~(e \div 2 > 0)
  PROVE  LET h == r.index + 1
             alias == IF e \div 2 < 0 THEN -(e \div 2) ELSE r.alias
             s == Chain!Step(r, e) IN
         /\ s \in RStates
         /\ s.index = h /\ s.offset = r.offset /\ s.previous = r.previous /\ s.alias = alias /\ s.full = r.full
         /\ s.offsets = r.offsets /\ s.aliases = [r.aliases EXCEPT ![h] = alias] /\ s.lengths = r.lengths
<1> DEFINE h == r.index + 1
           alias == IF e \div 2 < 0 THEN -(e \div 2) ELSE r.alias
           s == Chain!Step(r, e)
<1>1. h \in Int /\ alias \in Int
  BY DEF RStates
<1>2. s = [r EXCEPT !.index = h, !.alias = alias, !.aliases[h] = alias]
  BY DEF Chain!Step
<1> HIDE DEF h, alias, s
<1>3. r.aliases \in [Chain!Handles -> Int]
  BY DEF RStates
<1>4. [r.aliases EXCEPT ![h] = alias] \in [Chain!Handles -> Int]
  BY <1>1, <1>3
<1>5. s = [r EXCEPT !.index = h, !.alias = alias, !.aliases = [r.aliases EXCEPT ![h] = alias]]
  BY <1>2 DEF RStates
<1>6. /\ s \in RStates
      /\ s.index = h /\ s.offset = r.offset /\ s.previous = r.previous /\ s.alias = alias /\ s.full = r.full
      /\ s.offsets = r.offsets /\ s.aliases = [r.aliases EXCEPT ![h] = alias] /\ s.lengths = r.lengths
  BY <1>1, <1>4, <1>5 DEF RStates
<1> QED BY <1>6, Zenon DEF h, alias, s

LEMMA StepIn ==
  ASSUME NEW r \in RStates, NEW e \in Int
  PROVE  Chain!Step(r, e) \in RStates
<1>1. CASE e % 2 = 0
  BY <1>1, SkipIs
<1>2. CASE e % 2 # 0 /\ r.index + 1 > Count
  BY <1>2, FullIs
<1>3. CASE e % 2 # 0 /\ ~(r.index + 1 > Count) /\ e \div 2 > 0
  BY <1>3, OwnIs
<1>4. CASE e % 2 # 0 /\ ~(r.index + 1 > Count) /\ ~(e \div 2 > 0)
  BY <1>4, AliasIs
<1> QED BY <1>1, <1>2, <1>3, <1>4

\* g has what is known after each entry of the table.
Known(t, g) == g \in [0 .. Len(t) -> RStates] /\ g[0] = Chain!Start0 /\ \A k \in 1 .. Len(t) : g[k] = Chain!Step(g[k - 1], t[k])

\* What is known after each entry is a function of the entries.
LEMMA KnownExists ==
  ASSUME NEW t \in Seq(Int)
  PROVE  \E g : Known(t, g)
<1> DEFINE N == Len(t)
           step == [p \in RStates \X (1 .. N) |-> Chain!Step(p[1], t[p[2]])]
<1>1. N \in Nat /\ \A k \in 1 .. N : t[k] \in Int
  OBVIOUS
<1>2. Chain!Start0 \in RStates
  BY DEF Chain!Start0, RStates, Chain!Blank
<1> HIDE DEF N
<1>3. step \in Steps(RStates, N)
  BY <1>1, StepIn DEF Steps
<1>4. \A r \in RStates, n \in 1 .. N : step[<<r, n>>] = Chain!Step(r, t[n])
  OBVIOUS
<1> HIDE DEF step
<1>5. PICK g : Unfolds(g, RStates, Chain!Start0, N, step)
  <2> DEFINE S == RStates
             base == Chain!Start0
  <2>1. base \in S /\ step \in Steps(S, N)
    BY <1>2, <1>3
  <2> HIDE DEF S, base
  <2>2. \E g : Unfolds(g, S, base, N, step)
    BY <1>1, <2>1, RecursionExists
  <2> QED BY <2>2 DEF S, base
<1>6. \A n \in 1 .. N : g[n] = Chain!Step(g[n - 1], t[n])
  <2> SUFFICES ASSUME NEW n \in 1 .. N PROVE g[n] = Chain!Step(g[n - 1], t[n])
    OBVIOUS
  <2>1. n - 1 \in 0 .. N
    BY <1>1
  <2>2. g \in [0 .. N -> RStates] /\ g[n] = step[<<g[n - 1], n>>]
    BY <1>5, Zenon DEF Unfolds
  <2>3. g[n - 1] \in RStates
    BY <2>1, <2>2
  <2> QED BY <1>4, <2>2, <2>3
<1>7. g \in [0 .. N -> RStates] /\ g[0] = Chain!Start0
  BY <1>5, Zenon DEF Unfolds
<1> QED BY <1>6, <1>7, Zenon DEF Known, N

\* The reader's state is the function its recursion defines.
LEMMA ReadsIs ==
  ASSUME NEW t \in Seq(Int), NEW g, Known(t, g)
  PROVE  Chain!Reads(t) = g[Len(t)] /\ Chain!Reads(t) \in RStates
<1> DEFINE N == Len(t)
           Fn(f) == [k \in 0 .. Len(t) |-> IF k = 0 THEN Chain!Start0 ELSE Chain!Step(f[k - 1], t[k])]
           after == CHOOSE f : f = Fn(f)
           T == {n \in Nat : n <= N => after[n] = g[n]}
<1>1. N \in Nat
  OBVIOUS
<1>2. /\ g \in [0 .. N -> RStates] /\ g[0] = Chain!Start0 
      /\ \A k \in 1 .. N : g[k] = Chain!Step(g[k - 1], t[k])
  BY DEF Known
<1>3. g = Fn(g)
  <2> SUFFICES ASSUME NEW k \in 0 .. N PROVE g[k] = IF k = 0 THEN Chain!Start0 ELSE Chain!Step(g[k - 1], t[k])
    BY <1>2
  <2>1. k = 0 \/ k \in 1 .. N
    BY <1>1
  <2> QED BY <1>2, <2>1, Zenon
<1>4. after = Fn(after)
  <2>1. \E f : f = Fn(f)
    BY <1>3, Zenon
  <2> QED BY <2>1, Zenon
<1> HIDE DEF after
<1>5. \A k \in 0 .. N : after[k] = IF k = 0 THEN Chain!Start0 ELSE Chain!Step(after[k - 1], t[k])
  BY <1>4, Zenon
<1> HIDE DEF Fn
<1>6. 0 \in T
  BY <1>1, <1>2, <1>5
<1>7. ASSUME NEW n \in Nat, n \in T PROVE n + 1 \in T
  <2> SUFFICES ASSUME n + 1 <= N PROVE after[n + 1] = g[n + 1]
    OBVIOUS
  <2> DEFINE k == n + 1
  <2>1. k \in 0 .. N /\ k # 0 /\ k \in 1 .. N /\ n = k - 1 /\ after[n] = g[n]
    BY <1>1, <1>7
  <2> HIDE DEF k
  <2>2. after[k] = Chain!Step(after[n], t[k])
    BY <1>5, <2>1, Zenon
  <2>3. g[k] = Chain!Step(g[n], t[k])
    BY <1>2, <2>1, Zenon
  <2>4. after[k] = g[k]
    BY <2>1, <2>2, <2>3, Zenon
  <2> QED BY <2>4 DEF k
<1> HIDE DEF T
<1>8. \A n \in Nat : n \in T
  BY <1>6, <1>7, SetInduction
<1>9. after[N] = g[N]
  BY <1>1, <1>8 DEF T
<1>10. Chain!Reads(t) = after[N]
  BY Zenon DEF Chain!Reads, after, Fn
<1>11. g[N] \in RStates
  BY <1>1, <1>2
<1> QED BY <1>9, <1>10, <1>11, Zenon

LEMMA ReadsIn == ASSUME NEW t \in Seq(Int) PROVE Chain!Reads(t) \in RStates
BY KnownExists, ReadsIs

LEMMA ReadsEmpty == Chain!Reads(<<>>) = Chain!Start0
<1> DEFINE t == <<>>
<1>1. t \in Seq(Int) /\ Len(t) = 0
  OBVIOUS
<1> HIDE DEF t
<1>2. PICK g : Known(t, g)
  BY <1>1, KnownExists
<1>3. Chain!Reads(t) = g[Len(t)]
  BY <1>1, <1>2, ReadsIs
<1> QED BY <1>1, <1>2, <1>3 DEF Known, t

\* What is read of a table and one entry more.
LEMMA ReadsAppend ==
  ASSUME NEW t \in Seq(Int), NEW e \in Int
  PROVE  Chain!Reads(t \o <<e>>) = Chain!Step(Chain!Reads(t), e)
<1> DEFINE N == Len(t)
           u == t \o <<e>>
<1>1. N \in Nat /\ u \in Seq(Int) /\ Len(u) = N + 1 /\ u[N + 1] = e /\ \A k \in 1 .. N : u[k] = t[k]
  OBVIOUS
<1>2. PICK g : Known(t, g)
  BY KnownExists
<1>3. /\ g \in [0 .. N -> RStates] /\ g[0] = Chain!Start0
      /\ \A k \in 1 .. N : g[k] = Chain!Step(g[k - 1], t[k])
      /\ Chain!Reads(t) = g[N] /\ g[N] \in RStates
  BY <1>2, ReadsIs DEF Known
<1> HIDE DEF u, N
<1> DEFINE h == [k \in 0 .. N + 1 |-> IF k = N + 1 THEN Chain!Step(g[N], e) ELSE g[k]]
<1>4. Chain!Step(g[N], e) \in RStates
  BY <1>3, StepIn
<1>5. h \in [0 .. N + 1 -> RStates] /\ h[N + 1] = Chain!Step(g[N], e) /\ \A k \in 0 .. N : h[k] = g[k]
  BY <1>1, <1>3, <1>4
<1> HIDE DEF h
<1>6. \A k \in 1 .. N + 1 : h[k] = Chain!Step(h[k - 1], u[k])
  <2> SUFFICES ASSUME NEW k \in 1 .. N + 1 PROVE h[k] = Chain!Step(h[k - 1], u[k])
    OBVIOUS
  <2>1. k - 1 \in 0 .. N /\ h[k - 1] = g[k - 1]
    BY <1>1, <1>5
  <2>2. CASE k = N + 1
    <3>1. k - 1 = N
      BY <1>1, <2>2
    <3> QED BY <1>1, <1>5, <2>1, <2>2, <3>1, Zenon
  <2>3. CASE k # N + 1
    <3>1. k \in 1 .. N /\ k \in 0 .. N
      BY <1>1, <2>3
    <3> QED BY <1>1, <1>3, <1>5, <2>1, <3>1, Zenon
  <2> QED BY <2>2, <2>3
<1>7. h[0] = Chain!Start0
  BY <1>1, <1>3, <1>5
<1>8. Known(u, h)
  BY <1>1, <1>5, <1>6, <1>7, Zenon DEF Known
<1>9. Chain!Reads(u) = h[N + 1]
  BY <1>1, <1>8, ReadsIs
<1> QED BY <1>3, <1>5, <1>9, Zenon DEF u

-----------------------------------------------------------------------------
(* What is read of the table of the first h signals *)

\* All but the length of the last signal with changes of its own.
HasRead(r, h) ==
  /\ r \in RStates /\ ~r.full
  /\ \A g \in Chain!Handles : r.offsets[g] = IF g <= h /\ Chain!Own(g) THEN Chain!Start[g] ELSE 0
  /\ \A g \in Chain!Handles : r.aliases[g] = IF g <= h /\ ~Chain!Own(g) /\ Chain!Shares(g) THEN layout[g].alias ELSE 0
  /\ r.previous \in 0 .. h
  /\ r.offset = IF r.previous = 0 THEN 0 ELSE Chain!Start[r.previous]
  /\ r.previous # 0 => Chain!Own(r.previous) /\ Chain!Start[h + 1] = Chain!Start[r.previous] + layout[r.previous].length
  /\ \A g \in Chain!Handles : g <= h /\ Chain!Own(g) /\ g # r.previous => r.lengths[g] = layout[g].length

InStep(r, w, h) == w.zeros \in 0 .. h /\ r.index = h - w.zeros /\ r.offset = w.offset /\ r.alias = w.alias

LEMMA SkippedIs ==
  ASSUME NEW w \in WStates, NEW h \in Nat, HasRead(Chain!Reads(w.table), h), InStep(Chain!Reads(w.table), w, h)
  PROVE  LET s == Chain!Reads(w.table \o Chain!Skipping(w)) IN
         /\ w.table \o Chain!Skipping(w) \in Seq(Int)
         /\ HasRead(s, h) /\ s.index = h /\ s.offset = w.offset /\ s.alias = w.alias
<1> DEFINE t == w.table
           u == t \o Chain!Skipping(w)
           r == Chain!Reads(t)
           s == Chain!Reads(u)
<1>1. t \in Seq(Int) /\ w.zeros \in Nat
  BY DEF WStates
<1>2. HasRead(r, h) /\ InStep(r, w, h)
  OBVIOUS
<1>3. u \in Seq(Int) /\ s = [r EXCEPT !.index = h] /\ s \in RStates
  <2>1. CASE w.zeros = 0
    <3>1. u = t
      BY <1>1, <2>1 DEF Chain!Skipping
    <3> HIDE DEF u, t
    <3>2. s = [r EXCEPT !.index = h]
      BY <1>2, <2>1, <3>1 DEF HasRead, InStep, RStates
    <3> QED BY <1>1, <1>2, <3>1, <3>2 DEF HasRead
  <2>2. CASE w.zeros # 0
    <3> DEFINE e == 2 * w.zeros
    <3>1. u = t \o <<e>>
      BY <2>2 DEF Chain!Skipping
    <3>2. e \in Int /\ e % 2 = 0 /\ e \div 2 = w.zeros
      BY <1>1
    <3> HIDE DEF u, t, e
    <3>3. u \in Seq(Int)
      BY <1>1, <3>1, <3>2
    <3>4. s = Chain!Step(r, e)
      BY <1>1, <3>1, <3>2, ReadsAppend
    <3>5. s = [r EXCEPT !.index = @ + e \div 2] /\ s \in RStates
      BY <1>2, <3>2, <3>4, SkipIs DEF HasRead
    <3>6. r.index + w.zeros = h
      BY <1>1, <1>2 DEF InStep
    <3>7. s = [r EXCEPT !.index = h]
      BY <1>2, <3>2, <3>5, <3>6 DEF HasRead, RStates
    <3> QED BY <3>3, <3>5, <3>7
  <2> QED BY <2>1, <2>2
<1> HIDE DEF t, u, r, s
<1>4. /\ s.index = h /\ s.offset = r.offset /\ s.alias = r.alias /\ s.full = r.full /\ s.previous = r.previous
      /\ s.offsets = r.offsets /\ s.aliases = r.aliases /\ s.lengths = r.lengths
  BY <1>2, <1>3 DEF HasRead, RStates
<1>5. HasRead(s, h)
  BY <1>2, <1>3, <1>4, Zenon DEF HasRead
<1>6. s.offset = w.offset /\ s.alias = w.alias
  BY <1>2, <1>4 DEF InStep
<1>7. u \in Seq(Int) /\ HasRead(s, h) /\ s.index = h /\ s.offset = w.offset /\ s.alias = w.alias
  BY <1>3, <1>4, <1>5, <1>6
<1> QED BY <1>7, Zenon DEF s, u, t

\* The reader meets a signal with changes of its own.
LEMMA OwnRead ==
  ASSUME WellLaid, NEW h \in Chain!Handles, NEW p, p = h - 1, Chain!Own(h), NEW r, HasRead(r, p), r.index = p,
         NEW w \in WStates, w.offset = r.offset
  PROVE  LET e == 2 * (Chain!Start[h] - w.offset) + 1
             s == Chain!Step(r, e) IN
         e \in Int /\ HasRead(s, h) /\ s.index = h /\ s.offset = Chain!Start[h] /\ s.alias = r.alias
<1> DEFINE d == Chain!Start[h] - w.offset
           e == 2 * d + 1
           s == Chain!Step(r, e)
<1>1. Count \in Nat \ {0} /\ Chain!Handles = 1 .. Count /\ h \in Nat \ {0} /\ p \in Nat /\ p + 1 = h
  BY ChainConstants DEF Chain!ChainAssumption, Chain!Handles
<1>2. /\ \A g \in 1 .. Count + 1 : Chain!Start[g] \in Nat \ {0}
      /\ Chain!Start[h + 1] = Chain!Start[h] + layout[h].length
      /\ \A g \in Chain!Handles : Chain!Own(g) => layout[g].length \in Nat \ {0}
  BY StartIs, SignalsAre
<1>3. h \in 1 .. Count + 1
  BY <1>1
<1>4. r.previous # 0 => r.previous \in Chain!Handles /\ Chain!Start[r.previous] \in Nat \ {0}
  BY <1>1, <1>2 DEF HasRead
<1>5. r.previous # 0 => Chain!Own(r.previous) /\ Chain!Start[h] = Chain!Start[r.previous] + layout[r.previous].length
  BY <1>1 DEF HasRead
<1>6. d \in Nat \ {0} /\ r.offset + d = Chain!Start[h] /\ r \in RStates
  <2>0. r \in RStates
    BY DEF HasRead
  <2>1. CASE r.previous = 0
    BY <1>2, <1>3, <2>0, <2>1 DEF HasRead
  <2>2. CASE r.previous # 0
    <3>1. r.offset = Chain!Start[r.previous]
      BY <2>2 DEF HasRead
    <3>2. layout[r.previous].length \in Nat \ {0} /\ Chain!Start[r.previous] \in Nat
      BY <1>2, <1>3, <1>4, <1>5, <2>2
    <3> QED BY <1>2, <1>3, <1>5, <2>0, <2>2, <3>1, <3>2
  <2> QED BY <2>1, <2>2
<1> HIDE DEF d
<1>7. e \in Int /\ e % 2 # 0 /\ e \div 2 = d
  BY <1>6
<1> HIDE DEF e
<1>8. ~(r.index + 1 > Count) /\ r.index + 1 = h /\ d > 0
  BY <1>1, <1>6
<1>9. /\ s \in RStates
      /\ s.index = h /\ s.offset = Chain!Start[h] /\ s.previous = h /\ s.alias = r.alias /\ s.full = r.full
      /\ s.offsets = [r.offsets EXCEPT ![h] = Chain!Start[h]] /\ s.aliases = r.aliases
      /\ \A g \in Chain!Handles : s.lengths[g] = IF g = r.previous THEN Chain!Start[h] - r.offsets[g] ELSE r.lengths[g]
  BY <1>6, <1>7, <1>8, OwnIs
<1> HIDE DEF s
<1>10. /\ ~r.full
       /\ \A g \in Chain!Handles : r.offsets[g] = IF g <= p /\ Chain!Own(g) THEN Chain!Start[g] ELSE 0
       /\ \A g \in Chain!Handles : r.aliases[g] = IF g <= p /\ ~Chain!Own(g) /\ Chain!Shares(g) THEN layout[g].alias ELSE 0
       /\ \A g \in Chain!Handles : g <= p /\ Chain!Own(g) /\ g # r.previous => r.lengths[g] = layout[g].length
       /\ r.previous \in 0 .. p
       /\ r.offsets \in [Chain!Handles -> Int]
  BY <1>6 DEF HasRead, RStates
<1>11. \A g \in Chain!Handles : s.offsets[g] = IF g <= h /\ Chain!Own(g) THEN Chain!Start[g] ELSE 0
  <2> SUFFICES ASSUME NEW g \in Chain!Handles PROVE s.offsets[g] = IF g <= h /\ Chain!Own(g) THEN Chain!Start[g] ELSE 0
    OBVIOUS
  <2>1. s.offsets[g] = IF g = h THEN Chain!Start[h] ELSE r.offsets[g]
    BY <1>9, <1>10
  <2>2. CASE g = h
    BY <1>1, <2>1, <2>2
  <2>3. CASE g # h
    <3>1. g <= p <=> g <= h
      BY <1>1, <2>3
    <3> QED BY <1>10, <2>1, <2>3, <3>1, Zenon
  <2> QED BY <2>2, <2>3
<1>12. \A g \in Chain!Handles : s.aliases[g] = IF g <= h /\ ~Chain!Own(g) /\ Chain!Shares(g) THEN layout[g].alias ELSE 0
  <2> SUFFICES ASSUME NEW g \in Chain!Handles PROVE r.aliases[g] = IF g <= h /\ ~Chain!Own(g) /\ Chain!Shares(g) THEN layout[g].alias ELSE 0
    BY <1>9
  <2>1. ~Chain!Own(g) => (g <= p <=> g <= h)
    BY <1>1
  <2> QED BY <1>10, <2>1, Zenon
<1>13. \A g \in Chain!Handles : g <= h /\ Chain!Own(g) /\ g # h => s.lengths[g] = layout[g].length
  <2> SUFFICES ASSUME NEW g \in Chain!Handles, g <= h, Chain!Own(g), g # h PROVE s.lengths[g] = layout[g].length
    OBVIOUS
  <2>1. g <= p
    BY <1>1
  <2>2. CASE g = r.previous
    <3>1. g # 0 /\ r.offsets[g] = Chain!Start[g] /\ s.lengths[g] = Chain!Start[h] - r.offsets[g]
      BY <1>1, <1>9, <1>10, <2>1, <2>2
    <3>2. Chain!Start[h] = Chain!Start[g] + layout[g].length
      BY <1>5, <2>2, <3>1, Zenon
    <3>3. Chain!Start[g] \in Nat /\ layout[g].length \in Nat
      BY <1>1, <1>2
    <3> QED BY <3>1, <3>2, <3>3
  <2>3. CASE g # r.previous
    BY <1>9, <1>10, <2>1, <2>3
  <2> QED BY <2>2, <2>3
<1>14. HasRead(s, h)
  BY <1>1, <1>2, <1>9, <1>10, <1>11, <1>12, <1>13 DEF HasRead
<1> QED BY <1>7, <1>9, <1>14, Zenon DEF s, e, d

\* The reader meets a signal that shares those of an earlier one.
LEMMA AliasRead ==
  ASSUME WellLaid, NEW h \in Chain!Handles, NEW p, p = h - 1, ~Chain!Own(h), Chain!Shares(h), NEW r, HasRead(r, p), r.index = p,
         NEW w \in WStates, w.alias = r.alias
  PROVE  LET e == IF repeats /\ w.alias = layout[h].alias THEN 1 ELSE 1 - 2 * layout[h].alias
             s == Chain!Step(r, e) IN
         e \in Int /\ HasRead(s, h) /\ s.index = h /\ s.offset = r.offset /\ s.alias = layout[h].alias
<1> DEFINE a == layout[h].alias
           e == IF repeats /\ w.alias = a THEN 1 ELSE 1 - 2 * a
           s == Chain!Step(r, e)
<1>1. Count \in Nat \ {0} /\ Chain!Handles = 1 .. Count /\ h \in Nat \ {0} /\ p \in Nat /\ p + 1 = h
  BY ChainConstants DEF Chain!ChainAssumption, Chain!Handles
<1>2. a \in Nat \ {0} /\ Chain!Start[h + 1] = Chain!Start[h] /\ Chain!Start[h] \in Nat
  <2>1. h \in 1 .. Count + 1 /\ Chain!Start[h] \in Nat /\ Chain!Start[h + 1] = Chain!Start[h] + 0
    BY <1>1, StartIs
  <2> QED BY <1>1, <2>1, SignalsAre
<1>3. e \in Int /\ e % 2 # 0 /\ ~(e \div 2 > 0) /\ a = IF e \div 2 < 0 THEN -(e \div 2) ELSE r.alias
  <2>1. CASE repeats /\ w.alias = a
    BY <2>1
  <2>2. CASE ~(repeats /\ w.alias = a)
    <3>1. e = 1 - 2 * a
      BY <2>2
    <3>2. e % 2 = 1 /\ e \div 2 = -a
      BY <1>2, <3>1
    <3> QED BY <1>2, <3>1, <3>2
  <2> QED BY <2>1, <2>2
<1>4. ~(r.index + 1 > Count) /\ r.index + 1 = h /\ r \in RStates
  BY <1>1 DEF HasRead
<1> HIDE DEF a, e
<1>5. /\ s \in RStates
      /\ s.index = h /\ s.offset = r.offset /\ s.previous = r.previous /\ s.alias = a /\ s.full = r.full
      /\ s.offsets = r.offsets /\ s.aliases = [r.aliases EXCEPT ![h] = a] /\ s.lengths = r.lengths
  BY <1>3, <1>4, AliasIs
<1> HIDE DEF s
<1>6. /\ ~r.full
      /\ \A g \in Chain!Handles : r.offsets[g] = IF g <= p /\ Chain!Own(g) THEN Chain!Start[g] ELSE 0
      /\ \A g \in Chain!Handles : r.aliases[g] = IF g <= p /\ ~Chain!Own(g) /\ Chain!Shares(g) THEN layout[g].alias ELSE 0
      /\ \A g \in Chain!Handles : g <= p /\ Chain!Own(g) /\ g # r.previous => r.lengths[g] = layout[g].length
      /\ r.previous \in 0 .. p
      /\ r.offset = IF r.previous = 0 THEN 0 ELSE Chain!Start[r.previous]
      /\ r.previous # 0 => Chain!Own(r.previous) /\ Chain!Start[p + 1] = Chain!Start[r.previous] + layout[r.previous].length
      /\ r.aliases \in [Chain!Handles -> Int]
  BY <1>4 DEF HasRead, RStates
<1>7. \A g \in Chain!Handles : Chain!Own(g) => (g <= p <=> g <= h)
  BY <1>1
<1>8. \A g \in Chain!Handles : s.offsets[g] = IF g <= h /\ Chain!Own(g) THEN Chain!Start[g] ELSE 0
  BY <1>5, <1>6, <1>7, Zenon
<1>9. \A g \in Chain!Handles : s.aliases[g] = IF g <= h /\ ~Chain!Own(g) /\ Chain!Shares(g) THEN layout[g].alias ELSE 0
  <2> SUFFICES ASSUME NEW g \in Chain!Handles PROVE s.aliases[g] = IF g <= h /\ ~Chain!Own(g) /\ Chain!Shares(g) THEN layout[g].alias ELSE 0
    OBVIOUS
  <2>1. s.aliases[g] = IF g = h THEN a ELSE r.aliases[g]
    BY <1>5, <1>6
  <2>2. CASE g = h
    BY <1>1, <2>1, <2>2 DEF a
  <2>3. CASE g # h
    <3>1. g <= p <=> g <= h
      BY <1>1, <2>3
    <3> QED BY <1>6, <2>1, <2>3, <3>1, Zenon
  <2> QED BY <2>2, <2>3
<1>10. \A g \in Chain!Handles : g <= h /\ Chain!Own(g) /\ g # s.previous => s.lengths[g] = layout[g].length
  BY <1>5, <1>6, <1>7, Zenon
<1>11. s.previous \in 0 .. h
  BY <1>1, <1>5, <1>6
<1>12. s.previous # 0 => Chain!Own(s.previous) /\ Chain!Start[h + 1] = Chain!Start[s.previous] + layout[s.previous].length
  BY <1>1, <1>2, <1>5, <1>6, Zenon
<1>13. HasRead(s, h)
  BY <1>5, <1>6, <1>8, <1>9, <1>10, <1>11, <1>12, Zenon DEF HasRead
<1> QED BY <1>3, <1>5, <1>13, Zenon DEF s, e, a

\* The reader has of the table written so far what the writer has put there.
KeepsPace(h) == HasRead(Chain!Reads(Chain!Writing[h].table), h) /\ InStep(Chain!Reads(Chain!Writing[h].table), Chain!Writing[h], h)

LEMMA PaceKept ==
  ASSUME WellLaid, NEW h \in Chain!Handles, NEW p, p = h - 1, KeepsPace(p)
  PROVE  KeepsPace(h)
<1> DEFINE w == Chain!Writing[p]
           v == Chain!Writing[h]
           r == Chain!Reads(w.table)
           t == w.table \o Chain!Skipping(w)
           s == Chain!Reads(t)
<1>1. Count \in Nat \ {0} /\ Chain!Handles = 1 .. Count /\ h \in Nat \ {0} /\ p \in Nat /\ p + 1 = h /\ p \in 0 .. Count
  BY ChainConstants DEF Chain!ChainAssumption, Chain!Handles
<1>2. w \in WStates /\ v = Chain!Written(w, h)
  BY <1>1, WritingIs
<1>3. HasRead(r, p) /\ InStep(r, w, p)
  BY DEF KeepsPace
<1> HIDE DEF w
<1>4. t \in Seq(Int) /\ HasRead(s, p) /\ s.index = p /\ s.offset = w.offset /\ s.alias = w.alias
  BY <1>1, <1>2, <1>3, SkippedIs
<1>5. CASE Chain!Own(h)
  <2> DEFINE e == 2 * (Chain!Start[h] - w.offset) + 1
             n == Chain!Step(s, e)
  <2> HIDE DEF s
  <2>1. e \in Int /\ HasRead(n, h) /\ n.index = h /\ n.offset = Chain!Start[h] /\ n.alias = s.alias
    BY <1>2, <1>4, <1>5, OwnRead
  <2>2. v = [w EXCEPT !.zeros = 0, !.offset = Chain!Start[h], !.table = @ \o Chain!Skipping(w) \o <<e>>]
    BY <1>2, <1>5 DEF Chain!Written
  <2> HIDE DEF e, n, t
  <2>3. v.zeros = 0 /\ v.offset = Chain!Start[h] /\ v.table = w.table \o Chain!Skipping(w) \o <<e>> /\ v.alias = w.alias
    BY <1>2, <2>2 DEF WStates
  <2>4. v.table = t \o <<e>>
    BY <2>3 DEF t
  <2>5. Chain!Reads(v.table) = n
    BY <1>4, <2>1, <2>4, ReadsAppend DEF n, s
  <2>6. InStep(n, v, h)
    BY <1>1, <1>4, <2>1, <2>3 DEF InStep
  <2> QED BY <2>1, <2>5, <2>6 DEF KeepsPace
<1>6. CASE ~Chain!Own(h) /\ Chain!Shares(h)
  <2> DEFINE e == IF repeats /\ w.alias = layout[h].alias THEN 1 ELSE 1 - 2 * layout[h].alias
             n == Chain!Step(s, e)
  <2> HIDE DEF s
  <2>1. e \in Int /\ HasRead(n, h) /\ n.index = h /\ n.offset = s.offset /\ n.alias = layout[h].alias
    BY <1>2, <1>4, <1>6, AliasRead
  <2>2. v = [w EXCEPT !.zeros = 0, !.alias = layout[h].alias, !.table = @ \o Chain!Skipping(w) \o <<e>>]
    BY <1>2, <1>6 DEF Chain!Written
  <2> HIDE DEF e, n, t
  <2>3. v.zeros = 0 /\ v.offset = w.offset /\ v.table = w.table \o Chain!Skipping(w) \o <<e>> /\ v.alias = layout[h].alias
    BY <1>2, <2>2 DEF WStates
  <2>4. v.table = t \o <<e>>
    BY <2>3 DEF t
  <2>5. Chain!Reads(v.table) = n
    BY <1>4, <2>1, <2>4, ReadsAppend DEF n, s
  <2>6. InStep(n, v, h)
    BY <1>1, <1>4, <2>1, <2>3 DEF InStep
  <2> QED BY <2>1, <2>5, <2>6 DEF KeepsPace
<1>7. CASE ~Chain!Own(h) /\ ~Chain!Shares(h)
  <2>1. v = [w EXCEPT !.zeros = @ + 1]
    BY <1>2, <1>7 DEF Chain!Written
  <2>2. v.zeros = w.zeros + 1 /\ v.table = w.table /\ v.offset = w.offset /\ v.alias = w.alias
    BY <1>2, <2>1 DEF WStates
  <2>3. Chain!Reads(v.table) = r
    BY <2>2
  <2> HIDE DEF r, v
  <2>4. InStep(r, v, h)
    BY <1>1, <1>3, <2>2 DEF InStep
  <2>5. HasRead(r, h)
    <3>1. \A g \in Chain!Handles : Chain!Own(g) \/ Chain!Shares(g) => (g <= p <=> g <= h)
      BY <1>1, <1>7
    <3>2. Chain!Start[h + 1] = Chain!Start[p + 1]
      <4>1. h \in 1 .. Count + 1 /\ Chain!Start[h] \in Nat /\ Chain!Start[h + 1] = Chain!Start[h] + 0
        BY <1>1, <1>7, StartIs
      <4> QED BY <1>1, <4>1
    <3>3. r.previous \in 0 .. h
      BY <1>1, <1>3 DEF HasRead
    <3>4. \A g \in Chain!Handles : r.offsets[g] = IF g <= h /\ Chain!Own(g) THEN Chain!Start[g] ELSE 0
      BY <1>3, <3>1, Zenon DEF HasRead
    <3>5. \A g \in Chain!Handles : r.aliases[g] = IF g <= h /\ ~Chain!Own(g) /\ Chain!Shares(g) THEN layout[g].alias ELSE 0
      BY <1>3, <3>1, Zenon DEF HasRead
    <3>6. \A g \in Chain!Handles : g <= h /\ Chain!Own(g) /\ g # r.previous => r.lengths[g] = layout[g].length
      BY <1>3, <3>1, Zenon DEF HasRead
    <3> QED BY <1>3, <3>2, <3>3, <3>4, <3>5, <3>6, Zenon DEF HasRead
  <2> QED BY <2>3, <2>4, <2>5, Zenon DEF KeepsPace, v
<1> QED BY <1>5, <1>6, <1>7

LEMMA KeepsPaceAll == ASSUME WellLaid PROVE KeepsPace(Count)
<1> DEFINE T == {n \in Nat : n <= Count => KeepsPace(n)}
<1>1. Count \in Nat \ {0} /\ Chain!Handles = 1 .. Count
  BY ChainConstants DEF Chain!ChainAssumption, Chain!Handles
<1>2. 0 \in T
  <2>1. Chain!Reads(Chain!Writing[0].table) = Chain!Start0 /\ Chain!Writing[0].zeros = 0 /\ Chain!Writing[0].offset = 0 /\ Chain!Writing[0].alias = 0
    BY WritingIs, ReadsEmpty DEF Written0
  <2>2. HasRead(Chain!Start0, 0)
    BY <1>1 DEF HasRead, Chain!Start0, RStates, Chain!Blank
  <2>3. InStep(Chain!Start0, Chain!Writing[0], 0)
    BY <2>1 DEF InStep, Chain!Start0
  <2> QED BY <2>1, <2>2, <2>3 DEF KeepsPace
<1>3. ASSUME NEW n \in Nat, n \in T PROVE n + 1 \in T
  <2> SUFFICES ASSUME n + 1 <= Count PROVE KeepsPace(n + 1)
    OBVIOUS
  <2>1. n + 1 \in Chain!Handles /\ n = n + 1 - 1 /\ KeepsPace(n)
    BY <1>1, <1>3
  <2> QED BY <2>1, PaceKept
<1> HIDE DEF T
<1>4. \A n \in Nat : n \in T
  BY <1>2, <1>3, SetInduction
<1> QED BY <1>1, <1>4 DEF T

\* What is read of the whole table.
LEMMA TableIs ==
  ASSUME WellLaid
  PROVE  LET r == Chain!ReadTable IN
         /\ ~r.full /\ r.index = Count
         /\ \A g \in Chain!Handles : r.offsets[g] = IF Chain!Own(g) THEN Chain!Start[g] ELSE 0
         /\ \A g \in Chain!Handles : r.aliases[g] = IF ~Chain!Own(g) /\ Chain!Shares(g) THEN layout[g].alias ELSE 0
         /\ \A g \in Chain!Handles : Chain!Own(g) => r.lengths[g] = layout[g].length
<1> DEFINE w == Chain!Writing[Count]
           q == Chain!Reads(Chain!Table)
           r == Chain!Closes(q, Chain!End)
<1>1. Count \in Nat \ {0} /\ Chain!Handles = 1 .. Count /\ \A g \in Chain!Handles : g <= Count
  BY ChainConstants DEF Chain!ChainAssumption, Chain!Handles
<1>2. w \in WStates
  BY <1>1, WritingIs
<1>3. HasRead(Chain!Reads(w.table), Count) /\ InStep(Chain!Reads(w.table), w, Count)
  BY KeepsPaceAll DEF KeepsPace
<1>4. Chain!Table = w.table \o Chain!Skipping(w)
  BY DEF Chain!Table
<1> HIDE DEF w
<1>5. HasRead(q, Count) /\ q.index = Count
  BY <1>1, <1>2, <1>3, <1>4, SkippedIs
<1> HIDE DEF q
<1>6. Chain!End \in Int /\ Chain!End = Chain!Start[Count + 1]
  BY <1>1, StartIs DEF Chain!End
<1>7. /\ r = [q EXCEPT !.lengths = r.lengths]
      /\ \A g \in Chain!Handles : r.lengths[g] = IF g = q.previous THEN Chain!End - q.offsets[g] ELSE q.lengths[g]
      /\ q \in RStates
  BY <1>5, <1>6, ClosesIs DEF HasRead
<1> HIDE DEF r
<1>8. r.full = q.full /\ r.index = q.index /\ r.offsets = q.offsets /\ r.aliases = q.aliases
  BY <1>7 DEF RStates
<1>9. \A g \in Chain!Handles : r.offsets[g] = IF Chain!Own(g) THEN Chain!Start[g] ELSE 0
  BY <1>1, <1>5, <1>8, Zenon DEF HasRead
<1>10. \A g \in Chain!Handles : r.aliases[g] = IF ~Chain!Own(g) /\ Chain!Shares(g) THEN layout[g].alias ELSE 0
  BY <1>1, <1>5, <1>8, Zenon DEF HasRead
<1>11. ASSUME NEW g \in Chain!Handles, Chain!Own(g) PROVE r.lengths[g] = layout[g].length
  <2>1. CASE g # q.previous
    BY <1>1, <1>5, <1>7, <1>11, <2>1 DEF HasRead
  <2>2. CASE g = q.previous
    <3>1. q.offsets[g] = Chain!Start[g] /\ g # 0 /\ r.lengths[g] = Chain!End - q.offsets[g]
      BY <1>1, <1>7, <1>8, <1>9, <1>11, <2>2
    <3>2. Chain!End = Chain!Start[g] + layout[g].length
      BY <1>5, <1>6, <2>2, <3>1, Zenon DEF HasRead
    <3>3. Chain!Start[g] \in Nat /\ layout[g].length \in Nat
      BY <1>1, <1>11, StartIs, SignalsAre
    <3> QED BY <3>1, <3>2, <3>3
  <2> QED BY <2>1, <2>2
<1>12. ~r.full /\ r.index = Count
  BY <1>5, <1>8 DEF HasRead
<1>13. Chain!ReadTable = r
  BY DEF Chain!ReadTable, r, q
<1> QED BY <1>9, <1>10, <1>11, <1>12, <1>13, Zenon

\* Of the whole table, each signal's changes begin and end where they were put.
LEMMA TableRight ==
  ASSUME WellLaid
  PROVE  LET r == Chain!ReadTable IN
         ~r.full /\ ~(r.index > Count) /\ ~(\E h \in Chain!Handles : Chain!AliasOfLater(r, h)) /\ Chain!Chains(r) = Chain!ChainOf
<1> DEFINE r == Chain!ReadTable
<1>1. /\ ~r.full /\ r.index = Count
      /\ \A g \in Chain!Handles : r.offsets[g] = IF Chain!Own(g) THEN Chain!Start[g] ELSE 0
      /\ \A g \in Chain!Handles : r.aliases[g] = IF ~Chain!Own(g) /\ Chain!Shares(g) THEN layout[g].alias ELSE 0
      /\ \A g \in Chain!Handles : Chain!Own(g) => r.lengths[g] = layout[g].length
  BY TableIs
<1> HIDE DEF r
<1>2. Count \in Nat \ {0} /\ Chain!Handles = 1 .. Count /\ \A g \in Chain!Handles : g \in 1 .. Count + 1
  BY ChainConstants DEF Chain!ChainAssumption, Chain!Handles
<1>3. ASSUME NEW h \in Chain!Handles PROVE ~Chain!AliasOfLater(r, h)
  <2>1. CASE ~Chain!Own(h) /\ Chain!Shares(h)
    <3>1. r.aliases[h] = layout[h].alias /\ layout[h].alias \in Chain!Handles /\ layout[h].alias < h
      BY <1>1, <2>1, SignalsAre
    <3> QED BY <1>2, <3>1 DEF Chain!AliasOfLater
  <2>2. CASE ~(~Chain!Own(h) /\ Chain!Shares(h))
    <3>1. r.aliases[h] = 0
      BY <1>1, <2>2, Zenon
    <3> QED BY <3>1 DEF Chain!AliasOfLater
  <2> QED BY <2>1, <2>2
<1>4. \A g \in Chain!Handles : (r.offsets[g] > 0 <=> Chain!Own(g)) /\ (~Chain!Own(g) => (r.aliases[g] > 0 <=> Chain!Shares(g)))
  <2> SUFFICES ASSUME NEW g \in Chain!Handles PROVE (r.offsets[g] > 0 <=> Chain!Own(g)) /\ (~Chain!Own(g) => (r.aliases[g] > 0 <=> Chain!Shares(g)))
    OBVIOUS
  <2>1. Chain!Start[g] \in Nat \ {0} /\ (Chain!Shares(g) => layout[g].alias \in Nat \ {0})
    BY <1>2, StartIs, SignalsAre
  <2> QED BY <1>1, <2>1
<1> DEFINE Fn(f) == [h \in Chain!Handles |->
             IF r.offsets[h] > 0 THEN [offset |-> r.offsets[h], length |-> r.lengths[h]]
             ELSE IF r.aliases[h] > 0 THEN f[r.aliases[h]] ELSE None]
           Gn(f) == [h \in Chain!Handles |->
             IF Chain!Own(h) THEN [offset |-> Chain!Start[h], length |-> layout[h].length]
             ELSE IF Chain!Shares(h) THEN f[layout[h].alias] ELSE None]
           chain == CHOOSE f : f = Fn(f)
<1>5. \A f : Fn(f) = Gn(f)
  <2> SUFFICES ASSUME NEW f, NEW h \in Chain!Handles
               PROVE  (IF r.offsets[h] > 0 THEN [offset |-> r.offsets[h], length |-> r.lengths[h]]
                       ELSE IF r.aliases[h] > 0 THEN f[r.aliases[h]] ELSE None)
                    = (IF Chain!Own(h) THEN [offset |-> Chain!Start[h], length |-> layout[h].length]
                       ELSE IF Chain!Shares(h) THEN f[layout[h].alias] ELSE None)
    OBVIOUS
  <2>1. CASE Chain!Own(h)
    BY <1>1, <1>4, <2>1
  <2>2. CASE ~Chain!Own(h) /\ Chain!Shares(h)
    BY <1>1, <1>4, <2>2
  <2>3. CASE ~Chain!Own(h) /\ ~Chain!Shares(h)
    BY <1>1, <1>4, <2>3
  <2> QED BY <2>1, <2>2, <2>3
<1>6. \A f : Linked(f) <=> f = Gn(f)
  BY Zenon DEF Linked
<1> HIDE DEF Fn, Gn
<1>7. Linked(chain)
  <2>1. \E f : f = Fn(f)
    BY <1>5, <1>6, LinkedExists
  <2>2. chain = Fn(chain)
    BY <2>1, Zenon
  <2> QED BY <1>5, <1>6, <2>2
<1>8. Chain!Chains(r) = chain
  BY Zenon DEF Chain!Chains, Fn
<1> HIDE DEF chain
<1>9. Chain!Chains(r) = Chain!ChainOf
  BY <1>7, <1>8, ChainOfIs, LinkedOnce
<1>10. ~r.full /\ ~(r.index > Count)
  BY <1>1, <1>2
<1> QED BY <1>3, <1>9, <1>10, Zenon DEF r

-----------------------------------------------------------------------------
(* Every table *)

TableRun == reading = "table" =>
  /\ WellLaid
  /\ \/ outcome = "not yet"
     \/ outcome = "read" /\ chains = Chain!ChainOf

LEMMA TableRunAlways == Spec => []TableRun
<1>1. Init => TableRun
  BY DEF Init, TableRun, Chain!Init, WellLaid
<1>2. TableRun /\ [Next]_vars => TableRun'
  <2> SUFFICES ASSUME TableRun, [Next]_vars, reading' = "table" PROVE TableRun'
    BY DEF TableRun
  <2>1. ASSUME layout' = layout, WellLaid PROVE WellLaid' /\ Chain!ChainOf' = Chain!ChainOf
    <3>1. \A h : (Chain!Own(h)' <=> Chain!Own(h)) /\ (Chain!Shares(h)' <=> Chain!Shares(h))
      BY <2>1 DEF Chain!Own, Chain!Shares
    <3>2. Chain!Start' = Chain!Start
      BY <2>1 DEF Chain!Start, Chain!Own
    <3>3. Chain!ChainOf' = Chain!ChainOf
      BY <2>1, <3>2 DEF Chain!ChainOf, Chain!Own, Chain!Shares
    <3>4. WellLaid'
      BY <2>1, <3>1 DEF WellLaid
    <3> QED BY <3>3, <3>4
  <2>2. CASE ReadTable
    <3> DEFINE r == Chain!ReadTable
    <3>1. /\ reading = "table" /\ outcome = "not yet" /\ layout' = layout
          /\ outcome' = IF r.full \/ r.index > Count \/ \E h \in Chain!Handles : Chain!AliasOfLater(r, h) THEN "refused" ELSE "read"
          /\ chains' = IF outcome' = "read" THEN Chain!Chains(r) ELSE chains
      BY <2>2 DEF ReadTable, Chain!Read
    <3>2. WellLaid
      BY <3>1 DEF TableRun
    <3>3. ~r.full /\ ~(r.index > Count) /\ ~(\E h \in Chain!Handles : Chain!AliasOfLater(r, h)) /\ Chain!Chains(r) = Chain!ChainOf
      BY <3>2, TableRight
    <3> HIDE DEF r
    <3>4. outcome' = "read" /\ chains' = Chain!ChainOf
      BY <3>1, <3>3
    <3>5. WellLaid' /\ Chain!ChainOf' = Chain!ChainOf
      BY <2>1, <3>1, <3>2
    <3> QED BY <3>4, <3>5 DEF TableRun
  <2>3. CASE UNCHANGED <<reading, outcome, tableVars>>
    <3>1. layout' = layout /\ chains' = chains /\ outcome' = outcome /\ reading = "table"
      BY <2>3 DEF tableVars
    <3>2. WellLaid
      BY <3>1 DEF TableRun
    <3>3. WellLaid' /\ Chain!ChainOf' = Chain!ChainOf
      BY <2>1, <3>1, <3>2
    <3> QED BY <3>1, <3>3 DEF TableRun
  <2> QED BY <2>2, <2>3 DEF Next, ReadVcd, ReadFst, ReadFile, ReadTimes, vars
<1> QED BY <1>1, <1>2, PTL DEF Spec

(***************************************************************************)
(* Whatever mix of signals with changes, without, and sharing those of an  *)
(* earlier one, in a table written in any way the writer has, no table is  *)
(* refused and each signal is read from its own changes to their end       *)
(* (chains of FstFile, vhdl/fst.ts).  This is the half of ReadsTheLayout   *)
(* about the table of a block.                                             *)
(***************************************************************************)
THEOREM TablesRead == Spec => [](reading = "table" => Chain!ReadsTheLayout)
<1>1. TableRun => (reading = "table" => Chain!ReadsTheLayout)
  BY DEF TableRun, Chain!ReadsTheLayout
<1> QED BY <1>1, TableRunAlways, PTL

-----------------------------------------------------------------------------
(* What an FST file is made of *)

\* The assumption of FstFile holds of WaveQuery's constants.
LEMMA FileConstants == File!FileAssumption
  BY WaveQueryAssumption

\* FstFile's operators of the community modules are those.
LEMMA SameFlattenSeq == ASSUME NEW s PROVE File!FlattenSeq(s) = FlattenSeq(s)
BY DEF File!FlattenSeq, FlattenSeq
LEMMA SameCardinality == ASSUME NEW s PROVE File!Cardinality(s) = Cardinality(s)
BY DEF File!Cardinality, Cardinality
LEMMA SameToSet == ASSUME NEW s PROVE File!ToSet(s) = ToSet(s)
BY DEF File!ToSet, ToSet
LEMMA SameFront == ASSUME NEW s PROVE File!Front(s) = Front(s)
BY DEF File!Front, Front

-----------------------------------------------------------------------------
(* What is computed one step after the other *)

NextOf(kind, width, s, x, n) ==
  CASE kind = "block" -> File!NextBlock(s, x)
    [] kind = "change" -> File!NextChange(width, s, x)
    [] kind = "name" -> File!NextName(s, width, x)
    [] kind = "index" -> x + s[n].step
    [] kind = "opens" -> CASE s[n].tag = "scope" -> Append(x, s[n].name) [] s[n].tag = "upscope" -> Front(x) [] OTHER -> x
Stepwise(f, kind, width, s, base, N) == f = [n \in 0 .. N |-> IF n = 0 THEN base ELSE NextOf(kind, width, s, f[n - 1], n)]

\* A function computed one step after the other exists, for any first state and step that stay in a set.
LEMMA StepwiseExists ==
  ASSUME NEW kind, NEW width, NEW s, NEW base, NEW L \in Nat
  PROVE  \E f : Stepwise(f, kind, width, s, base, L)
<1> DEFINE V(x, n) == NextOf(kind, width, s, x, n)
           Fn(N, f) == [n \in 0 .. N |-> IF n = 0 THEN base ELSE V(f[n - 1], n)]
           T == {N \in Nat : \E f : f = Fn(N, f)}
<1> HIDE DEF V
<1>2. 0 \in T
  <2> DEFINE h == [n \in 0 .. 0 |-> base]
  <2>1. h = Fn(0, h)
    OBVIOUS
  <2> QED BY <2>1
<1>3. ASSUME NEW N \in Nat, N \in T PROVE N + 1 \in T
  <2>1. PICK g : g = Fn(N, g)
    BY <1>3
  <2>2. \A n \in 0 .. N : g[n] = IF n = 0 THEN base ELSE V(g[n - 1], n)
    BY <2>1, Zenon
  <2> DEFINE h == [n \in 0 .. N + 1 |-> IF n = N + 1 THEN V(g[N], n) ELSE g[n]]
  <2>3. h = Fn(N + 1, h)
    <3> SUFFICES ASSUME NEW n \in 0 .. N + 1 PROVE h[n] = IF n = 0 THEN base ELSE V(h[n - 1], n)
      BY Zenon
    <3>1. \A k \in 0 .. N : k \in 0 .. N + 1 /\ k # N + 1
      OBVIOUS
    <3>2. \A k \in 0 .. N : h[k] = g[k]
      BY <3>1
    <3>3. CASE n = 0
      BY <2>2, <3>2, <3>3
    <3>4. CASE n = N + 1
      <4>1. n # 0 /\ n - 1 = N /\ N \in 0 .. N
        BY <3>4
      <4>2. h[n - 1] = g[N]
        BY <3>2, <4>1
      <4>3. h[n] = V(g[N], n)
        BY <3>4
      <4> HIDE DEF h
      <4> QED BY <4>1, <4>2, <4>3, Zenon
    <3>5. CASE n # 0 /\ n # N + 1
      <4>1. n \in 0 .. N /\ n - 1 \in 0 .. N
        BY <3>5
      <4>2. h[n] = g[n] /\ h[n - 1] = g[n - 1]
        BY <3>2, <4>1
      <4> HIDE DEF h
      <4>3. g[n] = IF n = 0 THEN base ELSE V(g[n - 1], n)
        BY <2>2, <4>1, Zenon
      <4> QED BY <3>5, <4>2, <4>3, Zenon
    <3> QED BY <3>3, <3>4, <3>5
  <2> HIDE DEF h, Fn
  <2>4. N + 1 \in Nat
    OBVIOUS
  <2> QED BY <2>3, <2>4
<1> HIDE DEF T
<1>4. L \in T
  BY <1>2, <1>3, SetInduction
<1> QED BY <1>4 DEF T, Stepwise, V

\* What such a function begins with, and how it goes on.
LEMMA StepwiseIs ==
  ASSUME NEW f, NEW kind, NEW width, NEW s, NEW base, NEW L \in Nat, Stepwise(f, kind, width, s, base, L)
  PROVE  f[0] = base /\ \A n \in 1 .. L : f[n] = NextOf(kind, width, s, f[n - 1], n)
<1>1. \A n \in 0 .. L : f[n] = IF n = 0 THEN base ELSE NextOf(kind, width, s, f[n - 1], n)
  BY Zenon DEF Stepwise
<1>2. 0 \in 0 .. L /\ \A n \in 1 .. L : n \in 0 .. L /\ n # 0
  OBVIOUS
<1> QED BY <1>1, <1>2, Zenon

-----------------------------------------------------------------------------
(* The blocks *)

NoBlocks == [offset |-> 1, blocks |-> <<>>]

\* The blocks are read one after the other.
LEMMA BlocksWalk ==
  ASSUME NEW file, Len(file) \in Nat
  PROVE  \E f : f[0] = NoBlocks /\ (\A n \in 1 .. Len(file) : f[n] = File!NextBlock(file, f[n - 1]))
                /\ File!BlocksOf(file) = f[Len(file)].blocks
<1> DEFINE L == Len(file)
           Fn(f) == [n \in 0 .. L |-> IF n = 0 THEN NoBlocks ELSE File!NextBlock(file, f[n - 1])]
           after == CHOOSE f : f = Fn(f)
<1>1. File!BlocksOf(file) = after[L].blocks
  BY DEF File!BlocksOf, NoBlocks
<1>2. \A x, n : NextOf("block", 0, file, x, n) = File!NextBlock(file, x)
  BY DEF NextOf
<1>3. \A f : Stepwise(f, "block", 0, file, NoBlocks, L) <=> f = Fn(f)
  BY <1>2 DEF Stepwise
<1> HIDE DEF Fn
<1>4. \E f : f = Fn(f)
  BY <1>3, StepwiseExists
<1>5. after = Fn(after)
  BY <1>4, Zenon
<1> HIDE DEF after
<1>6. after[0] = NoBlocks /\ \A n \in 1 .. L : after[n] = NextOf("block", 0, file, after[n - 1], n)
  <2>1. Stepwise(after, "block", 0, file, NoBlocks, L)
    BY <1>3, <1>5
  <2> QED BY <2>1, StepwiseIs
<1> QED BY <1>1, <1>2, <1>6

BlockAt(types, n) ==
  IF n = 1 THEN <<"header", 2, Cardinality({k \in DOMAIN types : types[k] = "changes"})>> ELSE <<types[n - 1], 2, "contents">>
Words == {"header", "contents"} \cup File!Types \cup Nat

\* A written file is its blocks, one after the other, each as long as its length field says.
LEMMA BlocksWritten ==
  ASSUME NEW types \in Seq(File!Types)
  PROVE  LET file == File!WrittenBlocks(types) IN
         /\ file \in Seq(Words) /\ Len(file) = 3 * (Len(types) + 1)
         /\ \A n \in 1 .. Len(types) + 1 : \A j \in 1 .. 3 : file[3 * (n - 1) + j] = BlockAt(types, n)[j]
<1> DEFINE N == Len(types) + 1
           seqs == [n \in 1 .. N |-> BlockAt(types, n)]
           file == File!WrittenBlocks(types)
<1>1. N \in Nat \ {0} /\ DOMAIN types = 1 .. Len(types) /\ Len(types) \in Nat
  OBVIOUS
<1>2. Cardinality({k \in DOMAIN types : types[k] = "changes"}) \in Nat
  <2> DEFINE S == {k \in DOMAIN types : types[k] = "changes"}
  <2>1. S \in SUBSET (1 .. Len(types)) /\ IsFiniteSet(1 .. Len(types))
    BY <1>1, FS_Interval
  <2> HIDE DEF S
  <2>2. IsFiniteSet(S)
    BY <2>1, FS_Subset
  <2>3. Cardinality(S) \in Nat
    BY <2>2, FS_CardinalityType
  <2> QED BY <2>3 DEF S
<1>3. \A n \in 1 .. N : BlockAt(types, n) \in Seq(Words) /\ Len(BlockAt(types, n)) = 3
  <2> SUFFICES ASSUME NEW n \in 1 .. N PROVE BlockAt(types, n) \in Seq(Words) /\ Len(BlockAt(types, n)) = 3
    OBVIOUS
  <2>1. n # 1 => types[n - 1] \in File!Types
    BY <1>1
  <2>2. \A a, b, c \in Words : <<a, b, c>> \in Seq(Words) /\ Len(<<a, b, c>>) = 3
    OBVIOUS
  <2>3. "header" \in Words /\ 2 \in Words /\ "contents" \in Words /\ File!Types \subseteq Words
    BY DEF Words
  <2> QED BY <1>2, <2>1, <2>2, <2>3 DEF BlockAt, Words
<1>4. seqs \in Seq(Seq(Words)) /\ Len(seqs) = N /\ file = FlattenSeq(seqs)
  <2>1. file = FlattenSeq(seqs)
    BY SameFlattenSeq, SameCardinality, Zenon DEF File!WrittenBlocks, BlockAt
  <2> QED BY <1>1, <1>3, <2>1
<1>5. \A n \in 1 .. N : seqs[n] = BlockAt(types, n)
  OBVIOUS
<1> HIDE DEF seqs, file
<1>6. PICK start : Laid(start, file, seqs)
  BY <1>4, FlattenPlaces
<1>7. \A n \in 0 .. N : start[n] = 3 * n
  <2> DEFINE T == {n \in Nat : n <= N => start[n] = 3 * n}
  <2>1. 0 \in T
    BY <1>6 DEF Laid
  <2>2. ASSUME NEW n \in Nat, n \in T PROVE n + 1 \in T
    <3> SUFFICES ASSUME n + 1 <= N PROVE start[n + 1] = 3 * (n + 1)
      OBVIOUS
    <3> DEFINE k == n + 1
    <3>1. k \in 1 .. N /\ k - 1 = n /\ start[n] = 3 * n
      BY <1>1, <2>2
    <3> HIDE DEF k
    <3>2. start[k] = start[k - 1] + Len(seqs[k])
      BY <1>4, <1>6, <3>1, Zenon DEF Laid
    <3>3. Len(seqs[k]) = 3
      BY <1>3, <1>5, <3>1
    <3> QED BY <3>1, <3>2, <3>3 DEF k
  <2> HIDE DEF T
  <2>3. \A n \in Nat : n \in T
    BY <2>1, <2>2, SetInduction
  <2> QED BY <1>1, <2>3 DEF T
<1>8. Len(file) = 3 * N /\ file \in Seq(Words)
  <2>1. file \in Seq(Words)
    BY <1>4, FlattenInSeq
  <2>2. N \in 0 .. N /\ start[N] = Len(file)
    BY <1>1, <1>4, <1>6 DEF Laid
  <2> QED BY <1>7, <2>1, <2>2
<1>9. ASSUME NEW n \in 1 .. N, NEW j \in 1 .. 3 PROVE file[3 * (n - 1) + j] = BlockAt(types, n)[j]
  <2>1. n - 1 \in 0 .. N /\ start[n - 1] = 3 * (n - 1) /\ j \in 1 .. Len(seqs[n])
    <3>1. n - 1 \in 0 .. N /\ Len(seqs[n]) = 3
      BY <1>1, <1>3, <1>5
    <3> QED BY <1>7, <3>1
  <2>2. file[start[n - 1] + j] = seqs[n][j]
    BY <1>4, <1>6, <2>1, Zenon DEF Laid
  <2> QED BY <1>5, <2>1, <2>2
<1> QED BY <1>8, <1>9 DEF file

BlockRead(types, n) == [type |-> BlockAt(types, n)[1], section |-> <<2, BlockAt(types, n)[3]>>]

\* What the next block is: a whole one, one that is cut, or none.
Whole(file, n, bs, c, b) == 3 * n + 3 <= c =>
  File!NextBlock(file, [offset |-> 3 * n + 1, blocks |-> bs]) = [offset |-> 3 * (n + 1) + 1, blocks |-> Append(bs, b)]
Broken(file, n, bs, c) == c \in 3 * n + 1 .. 3 * n + 2 =>
  File!NextBlock(file, [offset |-> 3 * n + 1, blocks |-> bs]) = [offset |-> c + 1, blocks |-> Append(bs, File!Torn)]

\* One step of the reader, at a place where a block begins, in the middle of one or behind the last.
LEMMA BlockStep ==
  ASSUME NEW types \in Seq(File!Types), NEW c \in 0 .. Len(File!WrittenBlocks(types)), NEW n \in Nat, NEW bs,
         NEW file, file = SubSeq(File!WrittenBlocks(types), 1, c)
  PROVE  /\ Len(file) = c /\ Whole(file, n, bs, c, BlockRead(types, n + 1)) /\ Broken(file, n, bs, c)
         /\ \A x : x.offset > c => File!NextBlock(file, x) = x
<1> DEFINE whole == File!WrittenBlocks(types)
           r == [offset |-> 3 * n + 1, blocks |-> bs]
           N == Len(types) + 1
<1>1. /\ whole \in Seq(Words) /\ Len(whole) = 3 * N /\ N \in Nat
      /\ \A m \in 1 .. N : \A j \in 1 .. 3 : whole[3 * (m - 1) + j] = BlockAt(types, m)[j]
  BY BlocksWritten
<1> HIDE DEF whole
<1>2. file \in Seq(Words) /\ Len(file) = c /\ \A i \in 1 .. c : file[i] = whole[i]
  BY <1>1 DEF whole
<1>3. c \in Nat /\ c <= 3 * N
  BY <1>1 DEF whole
<1>4. \A m \in 1 .. N : BlockAt(types, m)[2] = 2
  BY DEF BlockAt
<1>5. ASSUME 3 * n + 3 <= c
      PROVE  File!NextBlock(file, r) = [offset |-> 3 * (n + 1) + 1, blocks |-> Append(bs, BlockRead(types, n + 1))]
  <2> DEFINE m == n + 1
             b == BlockAt(types, m)
  <2>1. m \in 1 .. N /\ 3 * (m - 1) = 3 * n
    BY <1>1, <1>3, <1>5
  <2>2. file[3 * n + 1] = b[1] /\ file[3 * n + 2] = 2 /\ file[3 * n + 3] = b[3]
    <3> HIDE DEF m
    <3>1. \A j \in 1 .. 3 : whole[3 * n + j] = b[j]
      BY <1>1, <2>1
    <3>2. \A j \in 1 .. 3 : 3 * n + j \in 1 .. c
      BY <1>3, <1>5
    <3>3. \A j \in 1 .. 3 : file[3 * n + j] = b[j]
      BY <1>2, <3>1, <3>2
    <3>4. b[2] = 2 /\ 1 \in 1 .. 3 /\ 2 \in 1 .. 3 /\ 3 \in 1 .. 3
      BY <1>4, <2>1
    <3> HIDE DEF b
    <3> QED BY <3>3, <3>4
  <2>3. SubSeq(file, 3 * n + 2, 3 * n + 3) = <<2, b[3]>>
    <3> DEFINE k == 3 * n + 2
    <3>1. k \in 1 .. Len(file) /\ k + 1 \in 1 .. Len(file) /\ file[k] = 2 /\ file[k + 1] = b[3] /\ 3 * n + 3 = k + 1
      BY <1>2, <1>3, <1>5, <2>2
    <3> HIDE DEF k, b
    <3> DEFINE s == SubSeq(file, k, k + 1)
    <3>3. s \in Seq(Words) /\ Len(s) = 2 /\ s[1] = file[k] /\ s[2] = file[k + 1]
      BY <1>2, <3>1
    <3> HIDE DEF s
    <3>2. s = <<2, b[3]>>
      BY <3>1, <3>3
    <3> QED BY <3>1, <3>2 DEF k, s
  <2> DEFINE o == 3 * n + 1
  <2>4. o \in Nat /\ o + 1 = 3 * n + 2 /\ o + 2 = 3 * n + 3 /\ ~(o > c) /\ ~(o + 1 > c) /\ ~(o + 2 > c) /\ o + 2 + 1 = 3 * (n + 1) + 1
    BY <1>3, <1>5
  <2>5. file[o] = b[1] /\ file[o + 1] = 2 /\ SubSeq(file, o + 1, o + 2) = <<2, b[3]>>
    BY <2>2, <2>3, <2>4
  <2> HIDE DEF o, b
  <2>6. File!NextBlock(file, [offset |-> o, blocks |-> bs]) = [offset |-> o + 2 + 1, blocks |-> Append(bs, [type |-> b[1], section |-> <<2, b[3]>>])]
    BY <1>2, <2>4, <2>5 DEF File!NextBlock
  <2> QED BY <2>4, <2>6 DEF BlockRead, o, b
<1>6. ASSUME c \in 3 * n + 1 .. 3 * n + 2 PROVE File!NextBlock(file, r) = [offset |-> c + 1, blocks |-> Append(bs, File!Torn)]
  <2> DEFINE o == 3 * n + 1
             m == n + 1
  <2>1. o \in Nat /\ ~(o > c) /\ (c = o \/ c = o + 1)
    BY <1>3, <1>6
  <2>2. c = o + 1 => file[o + 1] = 2
    <3> SUFFICES ASSUME c = o + 1 PROVE file[o + 1] = 2
      OBVIOUS
    <3>1. m \in 1 .. N /\ 3 * (m - 1) + 2 = o + 1 /\ o + 1 \in 1 .. c /\ 2 \in 1 .. 3
      BY <1>1, <1>3, <2>1
    <3> HIDE DEF m, o
    <3>2. whole[3 * (m - 1) + 2] = BlockAt(types, m)[2]
      BY <1>1, <3>1
    <3> QED BY <1>2, <1>4, <3>1, <3>2
  <2> HIDE DEF o
  <2>3. File!NextBlock(file, [offset |-> o, blocks |-> bs]) = [offset |-> c + 1, blocks |-> Append(bs, File!Torn)]
    <3> DEFINE end == IF o + 1 > c THEN c + 1 ELSE o + file[o + 1]
    <3>1. end > c
      BY <1>3, <2>1, <2>2
    <3>2. File!NextBlock(file, [offset |-> o, blocks |-> bs])
          = IF o > c THEN [offset |-> o, blocks |-> bs]
            ELSE IF end > c THEN [offset |-> c + 1, blocks |-> Append(bs, File!Torn)]
            ELSE [offset |-> end + 1, blocks |-> Append(bs, [type |-> file[o], section |-> SubSeq(file, o + 1, end)])]
      BY <1>2 DEF File!NextBlock
    <3> HIDE DEF end
    <3> QED BY <2>1, <3>1, <3>2
  <2> QED BY <2>3 DEF o
<1>7. \A x : x.offset > c => File!NextBlock(file, x) = x
  BY <1>2 DEF File!NextBlock
<1> QED BY <1>2, <1>5, <1>6, <1>7 DEF Whole, Broken

Blocks == [type : Words \cup {"torn"}, section : Seq(Words)]
AllRead(types) == [k \in 1 .. Len(types) + 1 |-> BlockRead(types, k)]

\* What is read of whole blocks are blocks.
LEMMA AllReadIn ==
  ASSUME NEW types \in Seq(File!Types)
  PROVE  AllRead(types) \in Seq(Blocks) /\ Len(AllRead(types)) = Len(types) + 1 /\ File!Torn \in Blocks
<1>1. Len(types) \in Nat /\ \A k \in 1 .. Len(types) : types[k] \in File!Types
  OBVIOUS
<1>2. File!Torn \in Blocks
  BY DEF File!Torn, Blocks
<1>3. ASSUME NEW n \in 1 .. Len(types) + 1 PROVE BlockRead(types, n) \in Blocks
  <2> DEFINE b == BlockAt(types, n)
  <2>1. b[1] \in Words /\ b[3] \in Words
    <3>1. CASE n = 1
      <4> DEFINE file == File!WrittenBlocks(types)
      <4>1. /\ file \in Seq(Words) /\ Len(file) = 3 * (Len(types) + 1)
            /\ \A m \in 1 .. Len(types) + 1 : \A j \in 1 .. 3 : file[3 * (m - 1) + j] = BlockAt(types, m)[j]
        BY BlocksWritten
      <4> HIDE DEF file
      <4>2. file[1] = BlockAt(types, 1)[1] /\ file[3] = BlockAt(types, 1)[3]
        <5>1. 1 \in 1 .. Len(types) + 1 /\ 3 * (1 - 1) + 1 = 1 /\ 3 * (1 - 1) + 3 = 3
          BY <1>1
        <5> QED BY <4>1, <5>1
      <4>3. file[1] \in Words /\ file[3] \in Words
        BY <1>1, <4>1
      <4> QED BY <3>1, <4>2, <4>3
    <3>2. CASE n # 1
      <4>1. types[n - 1] \in File!Types /\ b = <<types[n - 1], 2, "contents">>
        BY <1>1, <3>2 DEF BlockAt
      <4> QED BY <4>1 DEF Words
    <3> QED BY <3>1, <3>2
  <2> HIDE DEF b
  <2>2. <<2, b[3]>> \in Seq(Words)
    BY <2>1 DEF Words
  <2> QED BY <2>1, <2>2 DEF BlockRead, Blocks, b
<1> QED BY <1>1, <1>2, <1>3 DEF AllRead

\* What is read of a file that was cut off is the blocks there are, and that one is torn unless it was between two.
LEMMA BlocksRead ==
  ASSUME NEW types \in Seq(File!Types), NEW c \in 0 .. Len(File!WrittenBlocks(types)), NEW q \in Nat, q = c \div 3
  PROVE  /\ q <= Len(types) + 1
         /\ LET parts == File!BlocksOf(SubSeq(File!WrittenBlocks(types), 1, c))
            IN /\ c = 3 * q => parts = SubSeq(AllRead(types), 1, q)
               /\ c # 3 * q => parts = Append(SubSeq(AllRead(types), 1, q), File!Torn)
<1> DEFINE file == SubSeq(File!WrittenBlocks(types), 1, c)
           all == AllRead(types)
           N == Len(types) + 1
<1>1. c \in Nat /\ Len(file) = c /\ N \in Nat /\ c <= 3 * N
  BY BlocksWritten
<1>2. 3 * q <= c /\ c < 3 * q + 3 /\ q <= N
  BY <1>1
<1>3. /\ \A x : x.offset > c => File!NextBlock(file, x) = x
      /\ \A n \in Nat : \A bs : Whole(file, n, bs, c, BlockRead(types, n + 1)) /\ Broken(file, n, bs, c)
  <2>1. file = SubSeq(File!WrittenBlocks(types), 1, c) /\ 0 \in Nat
    OBVIOUS
  <2> HIDE DEF file
  <2>2. ASSUME NEW n \in Nat, NEW bs PROVE Whole(file, n, bs, c, BlockRead(types, n + 1)) /\ Broken(file, n, bs, c)
    BY <2>1, BlockStep
  <2>3. \A x : x.offset > c => File!NextBlock(file, x) = x
    BY <1>1 DEF File!NextBlock
  <2> QED BY <2>2, <2>3, Zenon
<1>4. all \in Seq(Blocks) /\ Len(all) = N /\ \A n \in 1 .. N : all[n] = BlockRead(types, n)
  BY AllReadIn DEF AllRead
<1>5. PICK f : /\ f[0] = NoBlocks
               /\ \A n \in 1 .. c : f[n] = File!NextBlock(file, f[n - 1])
               /\ File!BlocksOf(file) = f[c].blocks
  <2>0. Len(file) \in Nat
    BY <1>1
  <2> HIDE DEF file
  <2>1. PICK f : f[0] = NoBlocks /\ (\A n \in 1 .. Len(file) : f[n] = File!NextBlock(file, f[n - 1])) /\ File!BlocksOf(file) = f[Len(file)].blocks
    BY <2>0, BlocksWalk
  <2> QED BY <1>1, <2>1
<1> HIDE DEF file, all
<1> DEFINE At(n) == [offset |-> 3 * n + 1, blocks |-> SubSeq(all, 1, n)]
           last == IF c = 3 * q THEN At(q) ELSE [offset |-> c + 1, blocks |-> Append(SubSeq(all, 1, q), File!Torn)]
           K == IF c = 3 * q THEN q ELSE q + 1
           T == {n \in Nat : n <= q => f[n] = At(n)}
           U == {n \in Nat : K + n <= c => f[K + n] = last}
<1>6. \A n \in 0 .. q : f[n] = At(n)
  <2>1. 0 \in T
    BY <1>5 DEF NoBlocks
  <2>2. ASSUME NEW n \in Nat, n \in T PROVE n + 1 \in T
    <3> SUFFICES ASSUME n + 1 <= q PROVE f[n + 1] = At(n + 1)
      OBVIOUS
    <3> DEFINE m == n + 1
    <3>1. m \in 1 .. c /\ m - 1 = n /\ m \in 1 .. N /\ 3 * n + 3 <= c /\ f[n] = At(n)
      BY <1>1, <1>2, <2>2
    <3>2. f[m] = File!NextBlock(file, f[n])
      <4>1. f[m] = File!NextBlock(file, f[m - 1])
        BY <1>5, <3>1, Zenon
      <4> QED BY <3>1, <4>1
    <3>3. File!NextBlock(file, At(n)) = [offset |-> 3 * m + 1, blocks |-> Append(SubSeq(all, 1, n), BlockRead(types, m))]
      BY <1>3, <3>1 DEF Whole
    <3>4. Append(SubSeq(all, 1, n), all[n + 1]) = SubSeq(all, 1, n + 1)
      BY <1>4, <3>1
    <3> HIDE DEF At
    <3>5. all[n + 1] = BlockRead(types, m)
      BY <1>4, <3>1
    <3> QED BY <3>1, <3>2, <3>3, <3>4, <3>5 DEF At
  <2> HIDE DEF T
  <2>3. \A n \in Nat : n \in T
    BY <2>1, <2>2, SetInduction
  <2> QED BY <2>3 DEF T
<1>7. f[K] = last /\ K <= c /\ K \in Nat
  <2>1. CASE c = 3 * q
    BY <1>1, <1>6, <2>1
  <2>2. CASE c # 3 * q
    <3> DEFINE m == q + 1
    <3>1. m \in 1 .. c /\ m - 1 = q /\ f[q] = At(q) /\ c \in 3 * q + 1 .. 3 * q + 2
      BY <1>1, <1>2, <1>6, <2>2
    <3>2. f[m] = File!NextBlock(file, f[m - 1])
      BY <1>5, <3>1, Zenon
    <3>3. File!NextBlock(file, At(q)) = [offset |-> c + 1, blocks |-> Append(SubSeq(all, 1, q), File!Torn)]
      BY <1>3, <3>1 DEF Broken
    <3>4. K = m /\ last = [offset |-> c + 1, blocks |-> Append(SubSeq(all, 1, q), File!Torn)] /\ m <= c /\ m \in Nat
      BY <2>2, <3>1
    <3> HIDE DEF At, K, m, last
    <3> QED BY <3>1, <3>2, <3>3, <3>4
  <2> QED BY <2>1, <2>2
<1>8. File!NextBlock(file, last) = last
  <2>1. last.offset > c
    BY <1>1, <1>2
  <2> HIDE DEF last
  <2> QED BY <1>3, <2>1
<1>9. last.blocks = IF c = 3 * q THEN SubSeq(all, 1, q) ELSE Append(SubSeq(all, 1, q), File!Torn)
  OBVIOUS
<1> HIDE DEF last, K
<1>10. f[c] = last
  <2>1. 0 \in U
    BY <1>7
  <2>2. ASSUME NEW n \in Nat, n \in U PROVE n + 1 \in U
    <3> SUFFICES ASSUME K + (n + 1) <= c PROVE f[K + (n + 1)] = last
      OBVIOUS
    <3> DEFINE m == K + (n + 1)
    <3>1. m \in 1 .. c /\ m - 1 = K + n /\ f[K + n] = last
      BY <1>1, <1>7, <2>2
    <3>2. f[m] = File!NextBlock(file, f[m - 1])
      BY <1>5, <3>1, Zenon
    <3> HIDE DEF m
    <3>3. f[m] = last
      BY <1>8, <3>1, <3>2
    <3> QED BY <3>3 DEF m
  <2> HIDE DEF U
  <2>3. \A n \in Nat : n \in U
    BY <2>1, <2>2, SetInduction
  <2>4. c - K \in Nat /\ K + (c - K) = c
    BY <1>1, <1>7
  <2> QED BY <2>3, <2>4 DEF U
<1> QED BY <1>2, <1>5, <1>9, <1>10 DEF file, all

Places(types, n, type) == {k \in 1 .. n : types[k] = type}

\* What is counted in a sequence is counted in its tail, one place earlier.
LEMMA ShiftedPlaces ==
  ASSUME NEW n \in Nat, NEW A, NEW B, A \subseteq 1 .. n, B = {k + 1 : k \in A}
  PROVE  IsFiniteSet(A) /\ IsFiniteSet(B) /\ Cardinality(A) = Cardinality(B) /\ Cardinality(A) \in Nat
<1> DEFINE f == [k \in A |-> k + 1]
<1>1. IsFiniteSet(A)
  <2>1. IsFiniteSet(1 .. n) /\ A \in SUBSET (1 .. n)
    BY FS_Interval
  <2> QED BY <2>1, FS_Subset
<1>2. \A k \in A : k \in Int /\ f[k] = k + 1
  OBVIOUS
<1>3. f \in [A -> B]
  OBVIOUS
<1> HIDE DEF f
<1>4. \A j, k \in A : f[j] = f[k] => j = k
  BY <1>2
<1>5. \A b \in B : \E k \in A : f[k] = b
  BY <1>2
<1>6. f \in Bijection(A, B)
  <2>1. f \in Injection(A, B)
    BY <1>3, <1>4 DEF Injection, IsInjective
  <2>2. f \in Surjection(A, B)
    BY <1>3, <1>5 DEF Surjection
  <2> QED BY <2>1, <2>2 DEF Bijection
<1>7. ExistsBijection(A, B)
  BY <1>6 DEF ExistsBijection
<1> QED BY <1>1, <1>7, FS_Bijection, FS_CardinalityType

\* Of whole blocks, one after the other, what is read is the types after the header.
ReadAs(parts, types, n) ==
  /\ parts # <<>> /\ parts[1].type = "header" /\ File!Torn \notin ToSet(parts)
  /\ \A t \in File!Types : Cardinality(File!OfType(parts, t)) = Cardinality(Places(types, n, t))
  /\ parts[1].section[2] = Cardinality(Places(types, Len(types), "changes"))
  /\ [k \in DOMAIN Tail(parts) |-> Tail(parts)[k].type] = SubSeq(types, 1, n)

\* The types of whole blocks are those that were written.
LEMMA WholeBlocks ==
  ASSUME NEW types \in Seq(File!Types), NEW q \in 1 .. Len(types) + 1, NEW parts, parts = SubSeq(AllRead(types), 1, q)
  PROVE  ReadAs(parts, types, q - 1)
<1> DEFINE all == AllRead(types)
<1>1. /\ Len(types) \in Nat /\ DOMAIN types = 1 .. Len(types) /\ \A k \in 1 .. Len(types) : types[k] \in File!Types
      /\ q \in Nat \ {0} /\ q <= Len(types) + 1
  OBVIOUS
<1>2. all \in Seq(Blocks) /\ Len(all) = Len(types) + 1 /\ \A k \in 1 .. Len(types) + 1 : all[k] = BlockRead(types, k)
  BY AllReadIn DEF AllRead
<1> HIDE DEF all
<1>3. parts \in Seq(Blocks) /\ Len(parts) = q /\ \A k \in 1 .. q : parts[k] = BlockRead(types, k)
  <2>1. parts = SubSeq(all, 1, q)
    BY DEF all
  <2>2. \A k \in 1 .. q : all[k] \in Blocks /\ k \in 1 .. Len(types) + 1
    BY <1>1, <1>2
  <2>3. parts \in Seq(Blocks) /\ Len(parts) = q /\ \A k \in 1 .. q : parts[k] = all[k]
    BY <1>1, <1>2, <2>1, <2>2
  <2> QED BY <1>2, <2>2, <2>3
<1>4. parts[1].type = "header" /\ parts[1].section[2] = Cardinality({k \in DOMAIN types : types[k] = "changes"})
  <2>1. parts[1] = BlockRead(types, 1)
    BY <1>1, <1>3
  <2>2. BlockAt(types, 1)[1] = "header" /\ BlockAt(types, 1)[3] = Cardinality({k \in DOMAIN types : types[k] = "changes"})
    BY DEF BlockAt
  <2>3. BlockRead(types, 1).type = BlockAt(types, 1)[1] /\ BlockRead(types, 1).section[2] = BlockAt(types, 1)[3]
    BY DEF BlockRead
  <2> QED BY <2>1, <2>2, <2>3
<1>5. \A k \in 1 .. q : k # 1 => parts[k].type = types[k - 1] /\ k - 1 \in 1 .. Len(types)
  <2> SUFFICES ASSUME NEW k \in 1 .. q, k # 1 PROVE parts[k].type = types[k - 1] /\ k - 1 \in 1 .. Len(types)
    OBVIOUS
  <2>1. parts[k] = BlockRead(types, k) /\ k - 1 \in 1 .. Len(types)
    BY <1>1, <1>3
  <2> QED BY <2>1 DEF BlockRead, BlockAt
<1>6. File!Torn \notin ToSet(parts)
  <2>1. \A k \in 1 .. q : parts[k].type # "torn"
    BY <1>1, <1>4, <1>5 DEF File!Types
  <2>2. DOMAIN parts = 1 .. q
    BY <1>3
  <2> QED BY <2>1, <2>2 DEF ToSet, File!Torn
<1>7. ASSUME NEW t \in File!Types PROVE Cardinality(File!OfType(parts, t)) = Cardinality(Places(types, q - 1, t))
  <2> DEFINE A == Places(types, q - 1, t)
             B == File!OfType(parts, t)
             n == q - 1
  <2>1. n \in Nat /\ A \subseteq 1 .. n
    BY <1>1 DEF Places
  <2>2. DOMAIN parts = 1 .. q /\ t # "header"
    BY <1>3 DEF File!Types
  <2>3. B = {k + 1 : k \in A}
    <3>1. ASSUME NEW k \in A PROVE k + 1 \in B
      <4>1. k \in 1 .. q - 1 /\ types[k] = t /\ k + 1 \in 1 .. q /\ k + 1 # 1 /\ k + 1 - 1 = k
        BY <1>1 DEF Places
      <4>2. parts[k + 1].type = t
        BY <1>5, <4>1
      <4> QED BY <2>2, <4>1, <4>2 DEF File!OfType
    <3>2. ASSUME NEW j \in B PROVE j - 1 \in A /\ j = j - 1 + 1
      <4>1. j \in 1 .. q /\ parts[j].type = t
        BY <2>2 DEF File!OfType
      <4>2. j # 1
        BY <1>4, <2>2, <4>1
      <4>3. types[j - 1] = t /\ j - 1 \in 1 .. q - 1
        BY <1>1, <1>5, <4>1, <4>2
      <4> QED BY <4>1, <4>3 DEF Places
    <3> HIDE DEF A, B
    <3> QED BY <3>1, <3>2
  <2> HIDE DEF A, B, n
  <2>4. Cardinality(A) = Cardinality(B)
    BY <2>1, <2>3, ShiftedPlaces
  <2> QED BY <2>4 DEF A, B
<1>8. [k \in DOMAIN Tail(parts) |-> Tail(parts)[k].type] = SubSeq(types, 1, q - 1)
  <2> DEFINE t == Tail(parts)
             u == SubSeq(types, 1, q - 1)
  <2>1. parts # <<>> /\ t \in Seq(Blocks) /\ Len(t) = q - 1 /\ \A k \in 1 .. q - 1 : t[k] = parts[k + 1]
    <3>1. parts # <<>>
      BY <1>1, <1>3
    <3>2. t \in Seq(Blocks) /\ Len(t) = Len(parts) - 1 /\ \A k \in 1 .. Len(t) : t[k] = parts[k + 1]
      BY <1>3, <3>1, HeadTailProperties
    <3> HIDE DEF t
    <3> QED BY <1>3, <3>1, <3>2
  <2>2. u \in Seq(File!Types) /\ Len(u) = q - 1 /\ \A k \in 1 .. q - 1 : u[k] = types[k]
    BY <1>1
  <2> HIDE DEF t, u
  <2>3. \A k \in 1 .. q - 1 : t[k].type = u[k]
    <3> SUFFICES ASSUME NEW k \in 1 .. q - 1 PROVE t[k].type = u[k]
      OBVIOUS
    <3>1. k + 1 \in 1 .. q /\ k + 1 # 1 /\ k + 1 - 1 = k
      BY <1>1
    <3> DEFINE m == k + 1
    <3>2. parts[m].type = types[m - 1]
      <4> HIDE DEF m
      <4> QED BY <1>5, <3>1 DEF m
    <3>3. t[k] = parts[m] /\ u[k] = types[k] /\ m - 1 = k
      BY <2>1, <2>2, <3>1
    <3> HIDE DEF m
    <3> QED BY <3>2, <3>3
  <2>4. DOMAIN t = 1 .. q - 1 /\ u = [k \in 1 .. q - 1 |-> u[k]]
    BY <2>1, <2>2
  <2> QED BY <2>3, <2>4 DEF t, u
<1>9. parts # <<>>
  BY <1>1, <1>3
<1>10. {k \in DOMAIN types : types[k] = "changes"} = Places(types, Len(types), "changes")
  BY <1>1 DEF Places
<1> QED BY <1>4, <1>6, <1>7, <1>8, <1>9, <1>10 DEF ReadAs

KindCount(types, type) == Cardinality({k \in DOMAIN types : types[k] = type})
Once(types) == \A type \in {"geometry", "hierarchy"} : KindCount(types, type) = 1

\* What is read of a file is what is whole in it, and all that was written of each kind, or nothing.
LEMMA FileRead ==
  ASSUME NEW types \in Seq(File!Types), NEW c \in 0 .. Len(File!WrittenBlocks(types)), NEW read, read = File!ReadFile(SubSeq(File!WrittenBlocks(types), 1, c))
  PROVE  /\ c = Len(File!WrittenBlocks(types)) /\ Once(types) => read = File!Gives(types)
         /\ read # File!Refused => /\ Once(read.value) /\ KindCount(read.value, "changes") = KindCount(types, "changes")
                                   /\ read.value = SubSeq(types, 1, Len(read.value))
<1> DEFINE parts == File!BlocksOf(SubSeq(File!WrittenBlocks(types), 1, c))
           q == c \div 3
           N == Len(types) + 1
           told == [k \in DOMAIN Tail(parts) |-> Tail(parts)[k].type]
<1>1. N \in Nat \ {0} /\ Len(types) \in Nat /\ DOMAIN types = 1 .. Len(types) /\ Len(File!WrittenBlocks(types)) = 3 * N
  BY BlocksWritten
<1>2. q \in Nat /\ c \in Nat /\ c <= 3 * N
  BY <1>1
<1>3. /\ q <= N
      /\ c = 3 * q => parts = SubSeq(AllRead(types), 1, q)
      /\ c # 3 * q => parts = Append(SubSeq(AllRead(types), 1, q), File!Torn)
  BY <1>2, BlocksRead
<1>4. read = IF File!Readable(parts) THEN File!Gives(told) ELSE File!Refused
  BY DEF File!ReadFile
<1>5. c = 3 * N => q = N /\ c = 3 * q
  BY <1>1
<1>6. AllRead(types) \in Seq(Blocks) /\ Len(AllRead(types)) = N /\ File!Torn \in Blocks
  BY AllReadIn
<1>7. File!Gives(told).value = told /\ File!Gives(told) # File!Refused
  BY DEF File!Gives, File!Refused
<1> HIDE DEF parts, q, told
<1>8. CASE c # 3 * q
  <2>1. File!Torn \in ToSet(parts)
    <3> DEFINE s == SubSeq(AllRead(types), 1, q)
    <3>1. s \in Seq(Blocks)
      BY <1>1, <1>2, <1>3, <1>6
    <3>2. parts = Append(s, File!Torn)
      BY <1>3, <1>8
    <3> HIDE DEF s
    <3>3. Len(s) + 1 \in DOMAIN parts /\ parts[Len(s) + 1] = File!Torn
      BY <1>6, <3>1, <3>2
    <3> QED BY <3>3 DEF ToSet
  <2>2. read = File!Refused
    BY <1>4, <2>1, SameToSet DEF File!Readable
  <2> QED BY <1>1, <1>5, <1>8, <2>2
<1>9. CASE c = 3 * q /\ q = 0
  <2>1. parts = <<>>
    BY <1>3, <1>9, SubSeqEmpty
  <2>2. read = File!Refused
    BY <1>4, <2>1 DEF File!Readable
  <2> QED BY <1>1, <1>9, <2>2
<1>10. CASE c = 3 * q /\ q # 0
  <2> DEFINE n == q - 1
             u == SubSeq(types, 1, n)
  <2>1. q \in 1 .. Len(types) + 1 /\ parts = SubSeq(AllRead(types), 1, q) /\ n \in 0 .. Len(types)
    BY <1>1, <1>2, <1>3, <1>10
  <2>2. /\ parts # <<>> /\ parts[1].type = "header" /\ File!Torn \notin ToSet(parts)
        /\ \A t \in File!Types : Cardinality(File!OfType(parts, t)) = Cardinality(Places(types, n, t))
        /\ parts[1].section[2] = Cardinality(Places(types, Len(types), "changes"))
        /\ told = u
    <3>1. ReadAs(parts, types, n)
      BY <2>1, WholeBlocks
    <3> QED BY <3>1 DEF ReadAs, told
  <2>3. u \in Seq(File!Types) /\ Len(u) = n /\ \A k \in 1 .. n : u[k] = types[k]
    BY <2>1
  <2> HIDE DEF u, n
  <2>4. \A t \in File!Types : KindCount(u, t) = Cardinality(Places(types, n, t))
    <3> SUFFICES ASSUME NEW t \in File!Types PROVE KindCount(u, t) = Cardinality(Places(types, n, t))
      OBVIOUS
    <3>1. {k \in DOMAIN u : u[k] = t} = Places(types, n, t)
      BY <2>3 DEF Places
    <3> QED BY <3>1 DEF KindCount
  <2>5. KindCount(types, "changes") = Cardinality(Places(types, Len(types), "changes"))
    BY <1>1 DEF KindCount, Places
  <2>6. File!Readable(parts) <=> Once(u) /\ KindCount(u, "changes") = KindCount(types, "changes")
    <3>1. "changes" \in File!Types /\ "geometry" \in File!Types /\ "hierarchy" \in File!Types
      BY DEF File!Types
    <3> QED BY <2>2, <2>4, <2>5, <3>1, SameCardinality, SameToSet DEF File!Readable, Once, File!CountMatches
  <2>7. read # File!Refused => Once(read.value) /\ KindCount(read.value, "changes") = KindCount(types, "changes") /\ read.value = u
    BY <1>4, <1>7, <2>2, <2>6
  <2>8. c = Len(File!WrittenBlocks(types)) => u = types
    <3> SUFFICES ASSUME c = 3 * N PROVE u = types
      BY <1>1
    <3>1. n = Len(types)
      BY <1>1, <1>5 DEF n
    <3> QED BY <3>1, SubSeqFull DEF u
  <2>9. c = Len(File!WrittenBlocks(types)) /\ Once(types) => read = File!Gives(types)
    BY <1>4, <2>2, <2>6, <2>8
  <2>10. u = SubSeq(types, 1, Len(u))
    BY <2>3 DEF u
  <2> QED BY <2>7, <2>9, <2>10
<1> QED BY <1>8, <1>9, <1>10

-----------------------------------------------------------------------------
(* The values a block starts with *)

Chars == {"0", "1", "x", "?", "z", "r"} \cup STRING \cup Nat
Signals == UNION {[width : {w}, value : File!ValuesOf(w)] : w \in File!Widths}

\* What is written at a place is what is between there and its end.
LEMMA PartIs ==
  ASSUME NEW P, NEW s \in Seq(P), NEW part \in Seq(P), NEW i \in Nat, i + Len(part) <= Len(s),
         \A j \in 1 .. Len(part) : s[i + j] = part[j]
  PROVE  SubSeq(s, i + 1, i + Len(part)) = part
<1> DEFINE t == SubSeq(s, i + 1, i + Len(part))
<1>1. t \in Seq(P) /\ Len(t) = Len(part) /\ \A j \in 1 .. Len(part) : t[j] = s[i + j]
  <2>1. i \in 0 .. Len(s) /\ i + Len(part) \in i .. Len(s) /\ Len(part) \in Nat
    OBVIOUS
  <2>2. IsSegment(t, P, s, i, i + Len(part))
    BY <2>1, SegmentIs DEF Segment
  <2> HIDE DEF t
  <2>3. i + Len(part) - i = Len(part)
    BY <2>1
  <2> QED BY <2>2, <2>3 DEF IsSegment
<1> HIDE DEF t
<1>2. \A j \in 1 .. Len(part) : t[j] = part[j]
  BY <1>1
<1>3. t = part
  BY <1>1, <1>2
<1> QED BY <1>3 DEF t

\* What a signal of each width holds, and how many bytes it takes.
LEMMA ValuesAre ==
  ASSUME NEW w \in File!Widths, NEW v \in File!ValuesOf(w)
  PROVE  /\ w = "string" \/ v \in Seq(Chars)
         /\ File!InFrame(w, v) \in Seq(Chars) /\ Len(File!InFrame(w, v)) = File!RoomOf(w) /\ File!RoomOf(w) \in Nat
<1>1. CASE w = "1"
  <2>1. v \in {<<"0">>, <<"1">>, <<"x">>, <<"?">>}
    BY <1>1 DEF File!ValuesOf
  <2>2. \A c \in Chars : <<c>> \in Seq(Chars) /\ Len(<<c>>) = 1
    OBVIOUS
  <2>3. v \in Seq(Chars) /\ Len(v) = 1
    BY <2>1, <2>2 DEF Chars
  <2> QED BY <1>1, <2>3 DEF File!InFrame, File!RoomOf
<1>2. CASE w = "9"
  <2>1. v \in {File!Nine("0", "1"), File!Nine("1", "0"), File!Nine("1", "z"), File!Nine("1", "?")}
    BY <1>2 DEF File!ValuesOf
  <2>2. \A a, b \in Chars : File!Nine(a, b) \in Seq(Chars) /\ Len(File!Nine(a, b)) = 9
    BY DEF File!Nine
  <2>3. v \in Seq(Chars) /\ Len(v) = 9
    BY <2>1, <2>2 DEF Chars
  <2> QED BY <1>2, <2>3 DEF File!InFrame, File!RoomOf
<1>3. CASE w = "real"
  <2>1. v = [i \in 1 .. 8 |-> "r"]
    BY <1>3 DEF File!ValuesOf
  <2>2. v \in Seq(Chars) /\ Len(v) = 8
    BY <2>1 DEF Chars
  <2> QED BY <1>3, <2>2 DEF File!InFrame, File!RoomOf
<1>4. CASE w = "string"
  <2>1. File!InFrame(w, v) = <<>> /\ <<>> \in Seq(Chars)
    BY <1>4 DEF File!InFrame
  <2> QED BY <1>4, <2>1 DEF File!RoomOf
<1> QED BY <1>1, <1>2, <1>3, <1>4 DEF File!Widths

\* A signal's width is one there is, and its value one of that width.
LEMMA SignalIs == ASSUME NEW s \in Signals PROVE s.width \in File!Widths /\ s.value \in File!ValuesOf(s.width)
BY DEF Signals

\* What the writer should not have written is what is not legible.
LEMMA ForeignIs ==
  ASSUME NEW w \in File!Widths, NEW v \in File!ValuesOf(w)
  PROVE  File!Legible(w, v) <=> ~File!Foreign(w, v)
<1>1. CASE w = "1"
  <2>1. PICK b \in {"0", "1", "x", "?"} : v = <<b>>
    BY <1>1 DEF File!ValuesOf
  <2>2. DOMAIN v = {1} /\ v[1] = b
    BY <2>1
  <2> QED BY <1>1, <2>2 DEF File!Legible, File!Foreign, File!BitStates
<1>2. CASE w = "9"
  <2>1. PICK f \in {"0", "1"}, b \in {"0", "1", "z", "?"} : v = File!Nine(f, b)
    BY <1>2 DEF File!ValuesOf
  <2>2. DOMAIN v = 1 .. 9 /\ v[2] = b /\ \A i \in 1 .. 9 : v[i] = f \/ v[i] = b
    <3>1. v = <<f, b, b, b, b, b, b, b, f>>
      BY <2>1 DEF File!Nine
    <3> QED BY <3>1
  <2>3. 2 \in 1 .. 9
    OBVIOUS
  <2>4. CASE b = "?"
    <3>1. "?" \notin File!BitStates
      BY DEF File!BitStates
    <3>2. w # "string" /\ w # "real" /\ v[2] = "?" /\ 2 \in DOMAIN v
      BY <1>2, <2>2, <2>3, <2>4
    <3> QED BY <3>1, <3>2 DEF File!Legible, File!Foreign
  <2>5. CASE b # "?"
    <3>1. f \in File!BitStates /\ b \in File!BitStates /\ f # "?"
      BY <2>5 DEF File!BitStates
    <3>2. \A i \in DOMAIN v : v[i] \in File!BitStates /\ v[i] # "?"
      BY <2>2, <2>5, <3>1
    <3> QED BY <1>2, <3>2 DEF File!Legible, File!Foreign
  <2> QED BY <2>4, <2>5
<1>3. CASE w = "real"
  <2>1. v = [i \in 1 .. 8 |-> "r"]
    BY <1>3 DEF File!ValuesOf
  <2> QED BY <1>3, <2>1 DEF File!Legible, File!Foreign
<1>4. CASE w = "string"
  BY <1>4 DEF File!Legible, File!Foreign
<1> QED BY <1>1, <1>2, <1>3, <1>4 DEF File!Widths

\* Every signal's bytes in the frame lie where the widths before it say.
LEMMA FrameIs ==
  ASSUME NEW signals \in Seq(Signals)
  PROVE  /\ File!WrittenFrame(signals) \in Seq(Chars)
         /\ \E start : /\ Laid(start, File!WrittenFrame(signals), [h \in DOMAIN signals |-> File!InFrame(signals[h].width, signals[h].value)])
                       /\ \A h \in DOMAIN signals : File!FrameOffset(signals, h) = start[h - 1]
<1> DEFINE N == Len(signals)
           seqs == [h \in DOMAIN signals |-> File!InFrame(signals[h].width, signals[h].value)]
           frame == File!WrittenFrame(signals)
           Fn(f) == [g \in 1 .. N |-> IF g = 1 THEN 0 ELSE f[g - 1] + File!RoomOf(signals[g - 1].width)]
           offset == CHOOSE f : f = Fn(f)
<1>1. N \in Nat /\ DOMAIN signals = 1 .. N /\ \A h \in 1 .. N : signals[h] \in Signals
  OBVIOUS
<1>2. \A h \in 1 .. N : seqs[h] \in Seq(Chars) /\ Len(seqs[h]) = File!RoomOf(signals[h].width)
  BY <1>1, SignalIs, ValuesAre
<1>3. seqs \in Seq(Seq(Chars)) /\ Len(seqs) = N /\ frame = FlattenSeq(seqs)
  <2>1. frame = FlattenSeq(seqs)
    BY SameFlattenSeq, Zenon DEF File!WrittenFrame
  <2> QED BY <1>1, <1>2, <2>1
<1>4. \A h \in 1 .. N : File!FrameOffset(signals, h) = offset[h]
  BY DEF File!FrameOffset
<1> HIDE DEF seqs, frame
<1>5. PICK start : Laid(start, frame, seqs)
  BY <1>3, FlattenPlaces
<1>6. /\ start \in [0 .. N -> Nat] /\ start[0] = 0
      /\ \A n \in 1 .. N : start[n] = start[n - 1] + File!RoomOf(signals[n].width)
  BY <1>2, <1>3, <1>5 DEF Laid
<1> DEFINE s == [g \in 1 .. N |-> start[g - 1]]
<1>7. s = Fn(s)
  <2> SUFFICES ASSUME NEW g \in 1 .. N PROVE start[g - 1] = IF g = 1 THEN 0 ELSE s[g - 1] + File!RoomOf(signals[g - 1].width)
    BY Zenon
  <2>1. CASE g = 1
    BY <1>6, <2>1
  <2>2. CASE g # 1
    <3> DEFINE k == g - 1
    <3>1. k \in 1 .. N
      BY <2>2
    <3>2. s[k] = start[k - 1]
      BY <3>1
    <3> HIDE DEF s, k
    <3>3. start[k] = s[k] + File!RoomOf(signals[k].width)
      BY <1>6, <3>1, <3>2
    <3> QED BY <2>2, <3>3 DEF k
  <2> QED BY <2>1, <2>2
<1> HIDE DEF s
<1>8. offset = Fn(offset)
  <2>1. \E f : f = Fn(f)
    BY <1>7
  <2> HIDE DEF Fn
  <2> QED BY <2>1, Zenon
<1> HIDE DEF offset
<1>9. \A g \in 1 .. N : offset[g] = IF g = 1 THEN 0 ELSE offset[g - 1] + File!RoomOf(signals[g - 1].width)
  BY <1>8, Zenon
<1> DEFINE T == {n \in Nat : n + 1 <= N => offset[n + 1] = start[n]}
<1>10. 0 \in T
  BY <1>6, <1>9
<1>11. ASSUME NEW n \in Nat, n \in T PROVE n + 1 \in T
  <2> SUFFICES ASSUME n + 2 <= N PROVE offset[n + 2] = start[n + 1]
    OBVIOUS
  <2> DEFINE g == n + 2
             k == n + 1
  <2>1. g \in 1 .. N /\ g # 1 /\ g - 1 = k /\ k \in 1 .. N /\ k - 1 = n /\ offset[k] = start[n]
    BY <1>1, <1>11
  <2> HIDE DEF g, k
  <2>2. offset[g] = offset[g - 1] + File!RoomOf(signals[g - 1].width)
    BY <1>9, <2>1, Zenon
  <2>3. start[k] = start[k - 1] + File!RoomOf(signals[k].width)
    BY <1>6, <2>1, Zenon
  <2>4. offset[g] = start[k]
    BY <2>1, <2>2, <2>3, Zenon
  <2> QED BY <2>4 DEF g, k
<1> HIDE DEF T
<1>12. \A h \in 1 .. N : offset[h] = start[h - 1]
  <2>1. \A n \in Nat : n \in T
    BY <1>10, <1>11, SetInduction
  <2> SUFFICES ASSUME NEW h \in 1 .. N PROVE offset[h] = start[h - 1]
    OBVIOUS
  <2> DEFINE n == h - 1
  <2>2. n \in Nat /\ n + 1 = h /\ n + 1 <= N
    BY <1>1
  <2> HIDE DEF n
  <2>3. offset[n + 1] = start[n]
    BY <2>1, <2>2 DEF T
  <2> QED BY <2>2, <2>3 DEF n
<1>13. frame \in Seq(Chars)
  BY <1>3, FlattenInSeq
<1>14. \A h \in DOMAIN signals : File!FrameOffset(signals, h) = start[h - 1]
  BY <1>1, <1>4, <1>12
<1> QED BY <1>5, <1>13, <1>14 DEF frame, seqs

\* The values a block starts with are read as they were written, or refused.
LEMMA FrameRead ==
  ASSUME NEW signals \in Seq(Signals)
  PROVE  File!ReadFrame(signals, File!WrittenFrame(signals))
         = IF \E h \in DOMAIN signals : signals[h].width # "string" /\ File!Foreign(signals[h].width, signals[h].value)
           THEN File!Refused ELSE File!Gives(File!MeantFrame(signals))
<1> DEFINE seqs == [h \in DOMAIN signals |-> File!InFrame(signals[h].width, signals[h].value)]
           frame == File!WrittenFrame(signals)
<1>1. frame \in Seq(Chars)
  BY FrameIs
<1>2. PICK start : /\ Laid(start, frame, seqs)
                   /\ \A h \in DOMAIN signals : File!FrameOffset(signals, h) = start[h - 1]
  BY FrameIs
<1>3. ASSUME NEW h \in DOMAIN signals, signals[h].width # "string"
      PROVE  SubSeq(frame, File!FrameOffset(signals, h) + 1, File!FrameOffset(signals, h) + File!RoomOf(signals[h].width)) = signals[h].value
  <2> DEFINE i == start[h - 1]
             part == signals[h].value
  <2>1. signals[h] \in Signals /\ h \in 1 .. Len(signals) /\ Len(signals) \in Nat /\ DOMAIN signals = 1 .. Len(signals)
    OBVIOUS
  <2>2. part \in Seq(Chars) /\ Len(part) = File!RoomOf(signals[h].width) /\ File!InFrame(signals[h].width, part) = part
    <3>1. File!InFrame(signals[h].width, part) = part
      BY <1>3 DEF File!InFrame
    <3> QED BY <1>3, <2>1, <3>1, SignalIs, ValuesAre
  <2>3. seqs[h] = part /\ Len(seqs) = Len(signals)
    BY <2>1, <2>2
  <2> HIDE DEF seqs, frame, part
  <2>4. i \in Nat /\ i + Len(part) <= Len(frame) /\ \A j \in 1 .. Len(part) : frame[i + j] = part[j]
    <3>1. h - 1 \in 0 .. Len(signals)
      BY <2>1
    <3>2. start \in [0 .. Len(signals) -> Nat] /\ start[h] = start[h - 1] + Len(part) /\ start[h] <= Len(frame)
      BY <1>2, <2>1, <2>3 DEF Laid
    <3>3. \A j \in 1 .. Len(part) : frame[start[h - 1] + j] = part[j]
      BY <1>2, <2>1, <2>3 DEF Laid
    <3> QED BY <3>1, <3>2, <3>3
  <2>5. File!FrameOffset(signals, h) = i
    BY <1>2
  <2> HIDE DEF i
  <2>6. SubSeq(frame, i + 1, i + Len(part)) = part
    BY <1>1, <2>2, <2>4, PartIs
  <2> QED BY <2>2, <2>5, <2>6 DEF part
<1> HIDE DEF frame, seqs
<1> DEFINE inFrame == {h \in DOMAIN signals : signals[h].width # "string"}
           read(h) == SubSeq(frame, File!FrameOffset(signals, h) + 1, File!FrameOffset(signals, h) + File!RoomOf(signals[h].width))
           foreign == \E h \in DOMAIN signals : signals[h].width # "string" /\ File!Foreign(signals[h].width, signals[h].value)
<1>4. File!ReadFrame(signals, frame) =
        IF \A h \in inFrame : File!Legible(signals[h].width, read(h))
        THEN File!Gives([h \in DOMAIN signals |-> IF h \in inFrame THEN read(h) ELSE None]) ELSE File!Refused
  BY Zenon DEF File!ReadFrame
<1>5. \A h \in inFrame : read(h) = signals[h].value
  BY <1>3
<1>6. \A h \in DOMAIN signals : File!Legible(signals[h].width, signals[h].value) <=> ~File!Foreign(signals[h].width, signals[h].value)
  <2>1. \A h \in DOMAIN signals : signals[h] \in Signals
    OBVIOUS
  <2> QED BY <2>1, SignalIs, ForeignIs
<1> HIDE DEF read
<1>7. (\A h \in inFrame : File!Legible(signals[h].width, read(h))) <=> ~foreign
  BY <1>5, <1>6
<1>8. [h \in DOMAIN signals |-> IF h \in inFrame THEN read(h) ELSE None] = File!MeantFrame(signals)
  BY <1>5 DEF File!MeantFrame
<1> HIDE DEF inFrame, foreign
<1>9. File!ReadFrame(signals, frame) = IF foreign THEN File!Refused ELSE File!Gives(File!MeantFrame(signals))
  BY <1>4, <1>7, <1>8, Zenon
<1> QED BY <1>9, Zenon DEF frame, foreign

-----------------------------------------------------------------------------
(* Numbers of seven bits a byte *)

\* What is left of a number after seven of its bits.
LEMMA LeftIs ==
  ASSUME NEW n \in Nat
  PROVE  File!Left(n)[0] = n /\ \A j \in Nat : File!Left(n)[j] \in Nat /\ File!Left(n)[j + 1] = File!Left(n)[j] \div 128
<1> DEFINE Fn(f) == [j \in Nat |-> IF j = 0 THEN n ELSE f[j - 1] \div 128]
           left == CHOOSE f : f = Fn(f)
           S == Nat
           step == [p \in S \X Nat |-> p[1] \div 128]
<1>1. File!Left(n) = left
  BY DEF File!Left
<1>2. \A x \in Nat, k \in Nat : step[<<x, k>>] = x \div 128 /\ step[<<x, k>>] \in Nat
  OBVIOUS
<1> HIDE DEF step
<1>3. n \in S /\ StaysIn(S, step)
  BY <1>2 DEF StaysIn
<1>4. PICK f : UnfoldsAll(f, S, n, step)
  <2> HIDE DEF S
  <2> QED BY <1>3, NatRecursionExists
<1>5. f \in [Nat -> Nat] /\ f[0] = n /\ \A k \in Nat : f[k + 1] = f[k] \div 128
  <2>1. f \in [Nat -> Nat] /\ f[0] = n
    BY <1>4 DEF UnfoldsAll
  <2>2. ASSUME NEW k \in Nat PROVE f[k + 1] = f[k] \div 128
    <3>1. f[k + 1] = step[<<f[k], k + 1>>]
      BY <1>4 DEF UnfoldsAll
    <3>2. f[k] \in Nat /\ k + 1 \in Nat
      BY <2>1
    <3> QED BY <1>2, <3>1, <3>2
  <2> QED BY <2>1, <2>2
<1>6. f = Fn(f)
  <2> SUFFICES ASSUME NEW j \in Nat PROVE f[j] = IF j = 0 THEN n ELSE f[j - 1] \div 128
    BY <1>5
  <2>1. CASE j = 0
    BY <1>5, <2>1
  <2>2. CASE j # 0
    <3>1. j - 1 \in Nat /\ j - 1 + 1 = j
      BY <2>2
    <3> QED BY <1>5, <2>2, <3>1
  <2> QED BY <2>1, <2>2
<1>7. left = Fn(left)
  <2>1. \E g : g = Fn(g)
    BY <1>6
  <2> HIDE DEF Fn
  <2> QED BY <2>1, Zenon
<1> HIDE DEF left
<1>8. \A j \in Nat : left[j] = IF j = 0 THEN n ELSE left[j - 1] \div 128
  BY <1>7, Zenon
<1>9. left[0] = n /\ \A j \in Nat : left[j + 1] = left[j] \div 128
  <2>1. left[0] = n
    BY <1>8
  <2>2. ASSUME NEW j \in Nat PROVE left[j + 1] = left[j] \div 128
    <3> DEFINE k == j + 1
    <3>1. k \in Nat /\ k # 0 /\ k - 1 = j
      OBVIOUS
    <3> HIDE DEF k
    <3>2. left[k] = left[k - 1] \div 128
      BY <1>8, <3>1, Zenon
    <3>3. left[k] = left[j] \div 128
      BY <3>1, <3>2, Zenon
    <3> QED BY <3>3 DEF k
  <2> QED BY <2>1, <2>2
<1> DEFINE T == {j \in Nat : left[j] \in Nat}
<1>10. \A j \in Nat : j \in T
  <2>1. 0 \in T /\ \A j \in Nat : j \in T => j + 1 \in T
    BY <1>9
  <2> HIDE DEF T
  <2> QED BY <2>1, SetInduction
<1> QED BY <1>1, <1>9, <1>10

\* A number takes as many bytes as it has to be shifted until nothing is left.
LEMMA SizeIs ==
  ASSUME NEW n \in Nat
  PROVE  /\ File!SizeOfVarint(n) \in Nat \ {0} /\ File!Left(n)[File!SizeOfVarint(n)] = 0
         /\ \A j \in 1 .. File!SizeOfVarint(n) - 1 : File!Left(n)[j] # 0
<1> DEFINE L == File!Left(n)
           Ends(size) == L[size] = 0 /\ \A j \in 1 .. size - 1 : L[j] # 0
           T == {j \in Nat : L[j] + j <= n \/ L[j] = 0}
           U == {m \in Nat : (\E size \in 1 .. m : L[size] = 0) => \E size \in 1 .. m : Ends(size)}
<1>1. L[0] = n /\ \A j \in Nat : L[j] \in Nat /\ L[j + 1] = L[j] \div 128
  BY LeftIs
<1>2. File!SizeOfVarint(n) = CHOOSE size \in 1 .. n + 1 : Ends(size)
  BY DEF File!SizeOfVarint
<1> HIDE DEF L
<1>3. L[n + 1] = 0
  <2>1. 0 \in T
    BY <1>1
  <2>2. ASSUME NEW j \in Nat, j \in T PROVE j + 1 \in T
    <3> DEFINE a == L[j]
               b == L[j + 1]
    <3>1. a \in Nat /\ b = a \div 128 /\ (a + j <= n \/ a = 0)
      BY <1>1, <2>2
    <3> HIDE DEF a, b
    <3>2. b + (j + 1) <= n \/ b = 0
      BY <3>1
    <3> QED BY <3>2 DEF b
  <2> HIDE DEF T
  <2>3. \A j \in Nat : j \in T
    BY <2>1, <2>2, SetInduction
  <2>4. n + 1 \in T
    BY <2>3
  <2>5. L[n + 1] \in Nat /\ (L[n + 1] + (n + 1) <= n \/ L[n + 1] = 0)
    BY <1>1, <2>4 DEF T
  <2> QED BY <2>5
<1>4. \A m \in Nat : m \in U
  <2>1. 0 \in U
    OBVIOUS
  <2>2. ASSUME NEW m \in Nat, m \in U PROVE m + 1 \in U
    <3> SUFFICES ASSUME NEW s \in 1 .. m + 1, L[s] = 0 PROVE \E size \in 1 .. m + 1 : Ends(size)
      OBVIOUS
    <3>1. CASE \E size \in 1 .. m : L[size] = 0
      <4>1. PICK size \in 1 .. m : Ends(size)
        BY <2>2, <3>1
      <4> QED BY <4>1
    <3>2. CASE \A size \in 1 .. m : L[size] # 0
      <4>1. s = m + 1
        BY <3>2
      <4> QED BY <3>2, <4>1
    <3> QED BY <3>1, <3>2
  <2> HIDE DEF U
  <2> QED BY <2>1, <2>2, SetInduction
<1>5. \E size \in 1 .. n + 1 : Ends(size)
  <2>1. n + 1 \in U /\ n + 1 \in 1 .. n + 1
    BY <1>4
  <2> QED BY <1>3, <2>1
<1> HIDE DEF Ends
<1>6. File!SizeOfVarint(n) \in 1 .. n + 1 /\ Ends(File!SizeOfVarint(n))
  BY <1>2, <1>5
<1> QED BY <1>6 DEF Ends, L

Sevens(n, w) == \A j \in 0 .. Len(w) - 1 : File!Left(n)[j] = (w[j + 1] % 128) + 128 * File!Left(n)[j + 1]

\* Every byte but the last says that another follows.
LEMMA VarintWritten ==
  ASSUME NEW n \in Nat, NEW w, w = File!WrittenVarint(n)
  PROVE  /\ w \in Seq(Nat) /\ Len(w) = File!SizeOfVarint(n) /\ Len(w) \in Nat \ {0}
         /\ w[Len(w)] < 128 /\ \A i \in 1 .. Len(w) - 1 : w[i] >= 128
         /\ Sevens(n, w)
<1> DEFINE L == File!Left(n)
           size == File!SizeOfVarint(n)
<1>1. L[0] = n /\ \A j \in Nat : L[j] \in Nat /\ L[j + 1] = L[j] \div 128
  BY LeftIs
<1>2. size \in Nat \ {0} /\ L[size] = 0
  BY SizeIs
<1>3. w = [i \in 1 .. size |-> IF i = size THEN L[i - 1] ELSE 128 + (L[i - 1] % 128)]
  BY DEF File!WrittenVarint
<1> HIDE DEF L, size
<1>4. ASSUME NEW i \in 1 .. size
      PROVE  /\ w[i] \in Nat /\ (i = size => w[i] < 128) /\ (i # size => w[i] >= 128)
             /\ L[i - 1] = (w[i] % 128) + 128 * L[i]
  <2> DEFINE a == L[i - 1]
             b == L[i]
             x == w[i]
  <2>1. a \in Nat /\ b = a \div 128
    <3>1. i - 1 \in Nat /\ i - 1 + 1 = i
      BY <1>2
    <3> QED BY <1>1, <3>1
  <2>2. x = IF i = size THEN a ELSE 128 + (a % 128)
    BY <1>3
  <2>3. i = size => b = 0
    BY <1>2
  <2> HIDE DEF a, b, x
  <2>4. a = (a % 128) + 128 * b /\ (a % 128) \in 0 .. 127
    BY <2>1
  <2>5. CASE i = size
    <3>1. a < 128 /\ x = a
      BY <2>1, <2>2, <2>3, <2>4, <2>5
    <3> QED BY <2>1, <2>4, <2>5, <3>1 DEF a, b, x
  <2>6. CASE i # size
    <3> DEFINE d == a % 128
    <3>1. d \in 0 .. 127 /\ x = 128 + d
      BY <2>2, <2>4, <2>6
    <3>2. \A e \in 0 .. 127 : (128 + e) % 128 = e
      OBVIOUS
    <3> HIDE DEF d
    <3>3. x % 128 = d /\ x \in Nat /\ x >= 128
      BY <3>1, <3>2
    <3>4. a = (x % 128) + 128 * b
      BY <2>4, <3>3 DEF d
    <3> QED BY <2>6, <3>3, <3>4 DEF a, b, x
  <2> QED BY <2>5, <2>6
<1>5. w \in Seq(Nat) /\ Len(w) = size
  <2>1. w = [i \in 1 .. size |-> w[i]]
    BY <1>3
  <2>2. \A i \in 1 .. size : w[i] \in Nat
    BY <1>4
  <2> QED BY <1>2, <2>1, <2>2
<1>6. \A j \in 0 .. size - 1 : L[j] = (w[j + 1] % 128) + 128 * L[j + 1]
  <2> SUFFICES ASSUME NEW j \in 0 .. size - 1 PROVE L[j] = (w[j + 1] % 128) + 128 * L[j + 1]
    OBVIOUS
  <2> DEFINE i == j + 1
  <2>1. i \in 1 .. size /\ i - 1 = j
    BY <1>2
  <2> HIDE DEF i
  <2>2. L[i - 1] = (w[i] % 128) + 128 * L[i]
    BY <1>4, <2>1
  <2>3. L[j] = (w[i] % 128) + 128 * L[i]
    BY <2>1, <2>2
  <2> QED BY <2>3 DEF i
<1>7. \A i \in 1 .. size - 1 : i \in 1 .. size /\ i # size
  BY <1>2
<1>8. Sevens(n, w)
  BY <1>5, <1>6 DEF Sevens, L
<1> QED BY <1>2, <1>4, <1>5, <1>7, <1>8 DEF size

\* The bytes of w, from a place on.
At(bytes, at, w) == at + Len(w) - 1 <= Len(bytes) /\ \A i \in 1 .. Len(w) : bytes[at + i - 1] = w[i]

\* A varint is read to its first byte that says no other follows.
LEMMA VarintEnds ==
  ASSUME NEW n \in Nat, NEW bytes, Len(bytes) \in Nat, NEW at \in Nat \ {0}, NEW w, w = File!WrittenVarint(n), At(bytes, at, w)
  PROVE  File!AfterVarint(bytes, at) = at + Len(w)
<1> DEFINE Ends(i) == bytes[i] < 128 /\ \A j \in at .. i - 1 : bytes[j] >= 128
           last == at + Len(w) - 1
           chosen == CHOOSE i \in at .. Len(bytes) : Ends(i)
<1>1. /\ w \in Seq(Nat) /\ Len(w) \in Nat \ {0} /\ w[Len(w)] < 128 /\ \A i \in 1 .. Len(w) - 1 : w[i] >= 128
  BY VarintWritten
<1>2. \A i \in at .. last : bytes[i] \in Nat /\ (i = last => bytes[i] < 128) /\ (i # last => bytes[i] >= 128)
  <2> SUFFICES ASSUME NEW i \in at .. last PROVE bytes[i] \in Nat /\ (i = last => bytes[i] < 128) /\ (i # last => bytes[i] >= 128)
    OBVIOUS
  <2> DEFINE k == i - at + 1
             size == Len(w)
  <2>1. k \in 1 .. size /\ at + k - 1 = i /\ (i = last => k = size) /\ (i # last => k \in 1 .. size - 1)
    BY <1>1
  <2> HIDE DEF k, last
  <2>2. bytes[at + k - 1] = w[k]
    BY <2>1 DEF At
  <2>3. bytes[i] = w[k] /\ w[k] \in Nat
    <3>1. bytes[i] = w[k]
      BY <2>1, <2>2, Zenon
    <3>2. w[k] \in Nat
      BY <1>1, <2>1
    <3> QED BY <3>1, <3>2
  <2> QED BY <1>1, <2>1, <2>3
<1>3. last \in at .. Len(bytes)
  <2> DEFINE size == Len(w)
             whole == Len(bytes)
  <2>1. size \in Nat \ {0} /\ whole \in Nat /\ at + size - 1 <= whole
    BY <1>1 DEF At
  <2> HIDE DEF size, whole
  <2>2. at + size - 1 \in at .. whole
    BY <2>1
  <2> QED BY <2>2 DEF size, whole
<1>4. Ends(last)
  <2>1. last \in at .. last /\ \A j \in at .. last - 1 : j \in at .. last /\ j # last
    <3> HIDE DEF last
    <3> QED BY <1>3
  <2> HIDE DEF last
  <2> QED BY <1>2, <2>1
<1>5. chosen \in at .. Len(bytes) /\ Ends(chosen)
  <2>1. \E i \in at .. Len(bytes) : Ends(i)
    BY <1>3, <1>4
  <2> HIDE DEF Ends
  <2> QED BY <2>1
<1> HIDE DEF chosen, last
<1>6. chosen = last
  <2>1. CASE chosen < last
    <3>1. chosen \in at .. last /\ chosen # last
      BY <1>3, <1>5, <2>1
    <3>2. bytes[chosen] \in Nat /\ bytes[chosen] >= 128 /\ bytes[chosen] < 128
      BY <1>2, <1>5, <3>1
    <3> QED BY <3>2
  <2>2. CASE chosen > last
    <3>1. last \in at .. chosen - 1 /\ last \in at .. last
      BY <1>3, <1>5, <2>2
    <3>2. bytes[last] \in Nat /\ bytes[last] < 128 /\ bytes[last] >= 128
      BY <1>2, <1>5, <3>1
    <3> QED BY <3>2
  <2> QED BY <1>3, <1>5, <2>1, <2>2
<1>7. File!AfterVarint(bytes, at) = 1 + chosen
  BY DEF File!AfterVarint, chosen
<1> QED BY <1>1, <1>6, <1>7 DEF last

\* A number written as a varint, anywhere among bytes, is read again with the place after it.
LEMMA VarintRead ==
  ASSUME NEW n \in Nat, NEW bytes, Len(bytes) \in Nat, NEW at \in Nat \ {0}, NEW w, w = File!WrittenVarint(n), At(bytes, at, w)
  PROVE  File!Varint(bytes, at) = n
<1> DEFINE after == File!AfterVarint(bytes, at)
           Fn(f) == [i \in at .. after |-> IF i = after THEN 0 ELSE (bytes[i] % 128) + 128 * f[i + 1]]
           told == CHOOSE f : f = Fn(f)
           L == File!Left(n)
           size == Len(w)
<1>1. File!Varint(bytes, at) = told[at]
  BY DEF File!Varint
<1>0. /\ size \in Nat \ {0} /\ size = File!SizeOfVarint(n)
      /\ \A j \in 0 .. size - 1 : L[j] = (w[j + 1] % 128) + 128 * L[j + 1]
  <2>1. size \in Nat \ {0} /\ size = File!SizeOfVarint(n)
    BY VarintWritten
  <2>2. Sevens(n, w)
    BY VarintWritten
  <2> QED BY <2>1, <2>2, Zenon DEF Sevens
<1>2. after = at + size /\ size \in Nat \ {0}
  <2>1. after = at + size
    BY VarintEnds
  <2> QED BY <1>0, <2>1
<1>3. \A j \in 0 .. size - 1 : L[j] = (bytes[at + j] % 128) + 128 * L[j + 1]
  <2> SUFFICES ASSUME NEW j \in 0 .. size - 1 PROVE L[j] = (bytes[at + j] % 128) + 128 * L[j + 1]
    OBVIOUS
  <2> DEFINE i == j + 1
  <2>1. i \in 1 .. Len(w) /\ at + i - 1 = at + j
    BY <1>2
  <2> HIDE DEF i
  <2>2. bytes[at + i - 1] = w[i]
    BY <2>1 DEF At
  <2>3. bytes[at + j] = w[i]
    BY <2>1, <2>2
  <2>4. L[j] = (w[j + 1] % 128) + 128 * L[j + 1]
    BY <1>0
  <2> QED BY <2>3, <2>4 DEF i
<1>4. L[0] = n /\ L[size] = 0 /\ \A j \in Nat : L[j] \in Nat
  <2>1. L[File!SizeOfVarint(n)] = 0
    BY SizeIs
  <2>2. L[0] = n /\ \A j \in Nat : L[j] \in Nat
    BY LeftIs
  <2> QED BY <1>0, <2>1, <2>2
<1> HIDE DEF after, L, size
<1> DEFINE V == [i \in at .. after |-> L[i - at]]
<1>5. V = Fn(V)
  <2> SUFFICES ASSUME NEW i \in at .. after PROVE L[i - at] = IF i = after THEN 0 ELSE (bytes[i] % 128) + 128 * V[i + 1]
    BY Zenon
  <2>1. CASE i = after
    <3>1. i - at = size
      BY <1>2, <2>1
    <3> QED BY <1>4, <2>1, <3>1
  <2>2. CASE i # after
    <3> DEFINE j == i - at
               k == i + 1
    <3>1. j \in 0 .. size - 1 /\ at + j = i /\ k \in at .. after /\ k - at = j + 1
      BY <1>2, <2>2
    <3>2. V[k] = L[k - at]
      BY <3>1
    <3> HIDE DEF j, V, k
    <3>3. L[j] = (bytes[i] % 128) + 128 * L[j + 1]
      BY <1>3, <3>1
    <3>4. L[j] = (bytes[i] % 128) + 128 * V[k]
      BY <3>1, <3>2, <3>3
    <3> QED BY <2>2, <3>4 DEF j, k
  <2> QED BY <2>1, <2>2
<1> HIDE DEF V
<1>6. told = Fn(told)
  <2>1. \E f : f = Fn(f)
    BY <1>5
  <2> HIDE DEF Fn
  <2> QED BY <2>1, Zenon
<1> HIDE DEF told
<1>7. \A i \in at .. after : told[i] = IF i = after THEN 0 ELSE (bytes[i] % 128) + 128 * told[i + 1]
  BY <1>6, Zenon
<1> DEFINE T == {m \in Nat : m <= size => told[after - m] = L[size - m]}
<1>8. 0 \in T
  <2>1. after \in at .. after /\ after - 0 = after /\ size - 0 = size
    BY <1>2
  <2> QED BY <1>4, <1>7, <2>1
<1>9. ASSUME NEW m \in Nat, m \in T PROVE m + 1 \in T
  <2> SUFFICES ASSUME m + 1 <= size PROVE told[after - (m + 1)] = L[size - (m + 1)]
    OBVIOUS
  <2> DEFINE i == after - (m + 1)
             k == i + 1
             j == size - (m + 1)
  <2>1. i \in at .. after /\ i # after /\ k = after - m /\ j \in 0 .. size - 1 /\ at + j = i /\ j + 1 = size - m /\ m <= size
    BY <1>2
  <2>2. told[k] = L[j + 1]
    BY <1>9, <2>1
  <2> HIDE DEF T, i, j
  <2>3. told[i] = (bytes[i] % 128) + 128 * told[k]
    BY <1>7, <2>1
  <2>4. L[j] = (bytes[i] % 128) + 128 * L[j + 1]
    BY <1>3, <2>1
  <2> HIDE DEF k
  <2>5. told[i] = L[j]
    BY <2>2, <2>3, <2>4
  <2> QED BY <2>5 DEF i, j
<1> HIDE DEF T
<1>10. told[at] = L[0]
  <2>1. \A m \in Nat : m \in T
    BY <1>8, <1>9, SetInduction
  <2>2. size \in Nat /\ after - size = at /\ size - size = 0
    BY <1>2
  <2> QED BY <2>1, <2>2 DEF T
<1> QED BY <1>1, <1>4, <1>10

-----------------------------------------------------------------------------
(* The changes of a signal *)

\* A varint is at least one byte.
LEMMA VarintIn == ASSUME NEW n \in Nat PROVE File!WrittenVarint(n) \in Seq(Chars) /\ Len(File!WrittenVarint(n)) \in Nat \ {0}
<1> DEFINE w == File!WrittenVarint(n)
<1>1. w \in Seq(Nat) /\ Len(w) \in Nat \ {0}
  BY VarintWritten
<1> HIDE DEF w
<1>2. w \in Seq(Chars)
  BY <1>1 DEF Chars
<1> QED BY <1>1, <1>2 DEF w

\* What is there is read, and is there in parts.
LEMMA AtPart ==
  ASSUME NEW bytes \in Seq(Chars), NEW at \in Nat \ {0}, NEW w \in Seq(Chars), At(bytes, at, w)
  PROVE  SubSeq(bytes, at, at + Len(w) - 1) = w
<1> DEFINE i == at - 1
           size == Len(w)
<1>1. i \in Nat /\ i + 1 = at /\ i + Len(w) = at + Len(w) - 1 /\ size \in Nat
  OBVIOUS
<1>2. i + Len(w) <= Len(bytes)
  BY <1>1 DEF At
<1>3. \A j \in 1 .. Len(w) : bytes[i + j] = w[j]
  <2> SUFFICES ASSUME NEW j \in 1 .. Len(w) PROVE bytes[i + j] = w[j]
    OBVIOUS
  <2>1. i + j = at + j - 1
    OBVIOUS
  <2>2. bytes[at + j - 1] = w[j]
    BY DEF At
  <2> HIDE DEF i
  <2> QED BY <2>1, <2>2, Zenon
<1> HIDE DEF i
<1>4. SubSeq(bytes, i + 1, i + Len(w)) = w
  BY <1>1, <1>2, <1>3, PartIs
<1> QED BY <1>1, <1>4, Zenon

\* What begins at a place also follows there in parts.
LEMMA AtBoth ==
  ASSUME NEW bytes \in Seq(Chars), NEW at \in Nat \ {0}, NEW a \in Seq(Chars), NEW b \in Seq(Chars), At(bytes, at, a \o b)
  PROVE  At(bytes, at, a) /\ At(bytes, at + Len(a), b) /\ Len(a \o b) = Len(a) + Len(b)
<1> DEFINE c == a \o b
           l == Len(a)
           m == Len(b)
<1>1. Len(c) = l + m /\ l \in Nat /\ m \in Nat /\ (\A i \in 1 .. l : c[i] = a[i]) /\ \A i \in 1 .. m : c[l + i] = b[i]
  BY ConcatProperties
<1>2. at + Len(c) - 1 <= Len(bytes) /\ \A i \in 1 .. Len(c) : bytes[at + i - 1] = c[i]
  BY DEF At
<1> HIDE DEF c
<1>3. At(bytes, at, a)
  <2>1. at + Len(a) - 1 <= Len(bytes)
    <3> DEFINE whole == Len(bytes)
    <3>1. at + (l + m) - 1 <= whole /\ whole \in Nat
      BY <1>1, <1>2
    <3> HIDE DEF l, m, whole
    <3>2. at + l - 1 <= whole
      BY <1>1, <3>1
    <3> QED BY <3>2 DEF l, whole
  <2>2. \A i \in 1 .. l : i \in 1 .. Len(c)
    <3> HIDE DEF l, m
    <3> QED BY <1>1
  <2>3. \A i \in 1 .. Len(a) : bytes[at + i - 1] = a[i]
    BY <1>1, <1>2, <2>2, Zenon
  <2> QED BY <2>1, <2>3 DEF At
<1>4. At(bytes, at + Len(a), b)
  <2>1. at + Len(a) + Len(b) - 1 <= Len(bytes)
    BY <1>1, <1>2
  <2>2. ASSUME NEW i \in 1 .. Len(b) PROVE bytes[at + Len(a) + i - 1] = b[i]
    <3> DEFINE k == l + i
    <3>1. k \in 1 .. Len(c) /\ at + Len(a) + i - 1 = at + k - 1 /\ i \in 1 .. m
      <4> HIDE DEF l, m
      <4>1. l + i \in 1 .. Len(c) /\ at + l + i - 1 = at + (l + i) - 1 /\ i \in 1 .. m
        BY <1>1 DEF m
      <4> QED BY <4>1 DEF l
    <3>2. c[k] = b[i]
      BY <1>1, <3>1
    <3>3. bytes[at + k - 1] = c[k]
      <4> HIDE DEF k
      <4> QED BY <1>2, <3>1
    <3> HIDE DEF k
    <3> QED BY <3>1, <3>2, <3>3, Zenon
  <2> QED BY <2>1, <2>2 DEF At
<1> QED BY <1>1, <1>3, <1>4 DEF c

\* A number, and what comes after it.
LEMMA HeadRead ==
  ASSUME NEW bytes \in Seq(Chars), NEW at \in Nat \ {0}, NEW n \in Nat, NEW rest \in Seq(Chars), At(bytes, at, File!WrittenVarint(n) \o rest)
  PROVE  /\ File!Varint(bytes, at) = n
         /\ File!AfterVarint(bytes, at) \in Nat \ {0} /\ At(bytes, File!AfterVarint(bytes, at), rest)
         /\ File!AfterVarint(bytes, at) + Len(rest) = at + Len(File!WrittenVarint(n) \o rest)
<1> DEFINE w == File!WrittenVarint(n)
<1>1. w \in Seq(Chars) /\ Len(w) \in Nat \ {0} /\ Len(bytes) \in Nat /\ Len(rest) \in Nat
  <2>1. w \in Seq(Chars) /\ Len(w) \in Nat \ {0}
    BY VarintIn
  <2> HIDE DEF w
  <2> QED BY <2>1
<1>2. At(bytes, at, w) /\ At(bytes, at + Len(w), rest) /\ Len(w \o rest) = Len(w) + Len(rest)
  BY <1>1, AtBoth
<1>3. w = File!WrittenVarint(n)
  OBVIOUS
<1> HIDE DEF w
<1>4. File!Varint(bytes, at) = n
  BY <1>1, <1>2, <1>3, VarintRead
<1>5. File!AfterVarint(bytes, at) = at + Len(w)
  BY <1>1, <1>2, <1>3, VarintEnds
<1>6. at + Len(w) \in Nat \ {0} /\ at + Len(w) + Len(rest) = at + (Len(w) + Len(rest))
  BY <1>1
<1> QED BY <1>2, <1>3, <1>4, <1>5, <1>6

\* How a change is stored: a number, and what follows.
Stored(width, step, told, n, rest) ==
  /\ n \in Nat /\ rest \in Seq(Chars)
  /\ File!WrittenChange(width, step, told) = File!WrittenVarint(n) \o rest
  /\ (IF width = "1" THEN File!OneBitStep(n) ELSE n \div 2) = step

\* A number alone is a number and nothing after it.
LEMMA NoRest == ASSUME NEW n \in Nat PROVE File!WrittenVarint(n) = File!WrittenVarint(n) \o <<>>
BY VarintIn, ConcatEmptySeq

\* A change of one bit is a number: the step, the bit and how it is stored.
LEMMA OneBitStored ==
  ASSUME NEW step \in Nat, NEW told \in File!ValuesOf("1")
  PROVE  \E n : Stored("1", step, told, n, <<>>) /\ \A bytes, at : File!ValueAt("1", n, bytes, at) = told /\ File!AfterValue("1", n, bytes, at) = at
<1>0. <<>> \in Seq(Chars)
  OBVIOUS
<1>1. ASSUME NEW b \in {"0", "1"}, told = <<b>>
      PROVE  \E n : Stored("1", step, told, n, <<>>) /\ \A bytes, at : File!ValueAt("1", n, bytes, at) = told /\ File!AfterValue("1", n, bytes, at) = at
  <2> DEFINE n == 4 * step + (IF told = <<"1">> THEN 2 ELSE 0)
  <2>1. File!Packed(told)
    BY <1>1 DEF File!Packed
  <2>2. File!WrittenChange("1", step, told) = File!WrittenVarint(n)
    BY <2>1 DEF File!WrittenChange
  <2>3. n \in Nat /\ n % 2 = 0 /\ n \div 4 = step /\ (n \div 2) % 2 = (IF b = "1" THEN 1 ELSE 0)
    <3>1. told = <<"1">> <=> b = "1"
      BY <1>1
    <3> QED BY <3>1
  <2> HIDE DEF n
  <2>4. Stored("1", step, told, n, <<>>)
    BY <1>0, <2>2, <2>3, NoRest DEF Stored, File!OneBitStep
  <2>5. \A bytes, at : File!ValueAt("1", n, bytes, at) = told /\ File!AfterValue("1", n, bytes, at) = at
    <3>1. (IF n % 2 = 1 THEN File!States[((n \div 2) % 8) + 1] ELSE IF (n \div 2) % 2 = 1 THEN "1" ELSE "0") = b
      BY <2>3
    <3> QED BY <1>1, <3>1 DEF File!ValueAt, File!AfterValue
  <2> QED BY <2>4, <2>5
<1>2. ASSUME NEW b \in {"x", "?"}, told = <<b>>
      PROVE  \E n : Stored("1", step, told, n, <<>>) /\ \A bytes, at : File!ValueAt("1", n, bytes, at) = told /\ File!AfterValue("1", n, bytes, at) = at
  <2> DEFINE code == File!CodeOf(told[1])
             n == 16 * step + 2 * code + 1
  <2>1. ~File!Packed(told)
    BY <1>2 DEF File!Packed
  <2>2. File!WrittenChange("1", step, told) = File!WrittenVarint(n)
    BY <2>1 DEF File!WrittenChange
  <2>3. code \in 0 .. 7 /\ File!States[code + 1] = b
    <3> DEFINE k == IF b = "x" THEN 1 ELSE 8
               i == CHOOSE j \in DOMAIN File!States : File!States[j] = b
    <3>1. k \in DOMAIN File!States /\ File!States[k] = b /\ DOMAIN File!States = 1 .. 8
      BY <1>2 DEF File!States
    <3>2. i \in DOMAIN File!States /\ File!States[i] = b
      BY <3>1
    <3>3. told[1] = b
      BY <1>2
    <3>4. code = i - 1
      BY <3>3 DEF File!CodeOf
    <3> HIDE DEF i, code
    <3>5. i \in 1 .. 8 /\ code + 1 = i
      BY <3>1, <3>2, <3>4
    <3> QED BY <3>2, <3>4, <3>5
  <2> HIDE DEF code
  <2>4. n \in Nat /\ n % 2 = 1 /\ n \div 16 = step /\ (n \div 2) % 8 = code
    BY <2>3
  <2> HIDE DEF n
  <2>5. Stored("1", step, told, n, <<>>)
    BY <1>0, <2>2, <2>4, NoRest DEF Stored, File!OneBitStep
  <2>6. \A bytes, at : File!ValueAt("1", n, bytes, at) = told /\ File!AfterValue("1", n, bytes, at) = at
    <3>1. (IF n % 2 = 1 THEN File!States[((n \div 2) % 8) + 1] ELSE IF (n \div 2) % 2 = 1 THEN "1" ELSE "0") = b
      BY <2>3, <2>4
    <3> QED BY <1>2, <3>1 DEF File!ValueAt, File!AfterValue
  <2> QED BY <2>5, <2>6
<1> QED BY <1>1, <1>2 DEF File!ValuesOf

\* Of what follows a number n, the value is read.
Recovers(width, told, n, rest) ==
  \A bytes \in Seq(Chars), at \in Nat \ {0} : At(bytes, at, rest) =>
    File!ValueAt(width, n, bytes, at) = told /\ File!AfterValue(width, n, bytes, at) = at + Len(rest)

\* The bits of the bytes that are used for nine-bit values.
LEMMA BitsOfBytes == File!BitsOf(127) = <<"0", "1", "1", "1", "1", "1", "1", "1">> /\ File!BitsOf(128) = <<"1", "0", "0", "0", "0", "0", "0", "0">>
                     /\ File!BitsOf(0)[1] = "0" /\ File!BitsOf(128)[1] = "1"
<1>1. \A byte : File!BitsOf(byte) = <<File!BitsOf(byte)[1], File!BitsOf(byte)[2], File!BitsOf(byte)[3], File!BitsOf(byte)[4],
                                 File!BitsOf(byte)[5], File!BitsOf(byte)[6], File!BitsOf(byte)[7], File!BitsOf(byte)[8]>>
  BY DEF File!BitsOf
<1>2. \A byte : \A i \in 1 .. 8 : File!BitsOf(byte)[i] = IF (byte \div File!Weights[i]) % 2 = 1 THEN "1" ELSE "0"
  BY DEF File!BitsOf
<1>3. File!BitsOf(127)[1] = "0" /\ \A i \in 2 .. 8 : File!BitsOf(127)[i] = "1"
  BY <1>2 DEF File!Weights
<1>4. File!BitsOf(128)[1] = "1" /\ \A i \in 2 .. 8 : File!BitsOf(128)[i] = "0"
  BY <1>2 DEF File!Weights
<1>5. File!BitsOf(0)[1] = "0"
  BY <1>2 DEF File!Weights
<1> QED BY <1>1, <1>3, <1>4, <1>5

\* A nine-bit value is its two bytes again.
LEMMA PartsOfNine ==
  ASSUME NEW f \in Chars, NEW bit \in Chars
  PROVE  SubSeq(File!Nine(f, bit), 1, 8) = <<f, bit, bit, bit, bit, bit, bit, bit>> /\ SubSeq(File!Nine(f, bit), 9, 9) = <<f>>
<1> DEFINE v == File!Nine(f, bit)
           w == <<f, bit, bit, bit, bit, bit, bit, bit>>
           u == <<f>>
<1>1. v \in Seq(Chars) /\ Len(v) = 9 /\ v[1] = f /\ v[9] = f /\ v[2] = bit /\ v[3] = bit /\ v[4] = bit /\ v[5] = bit /\ v[6] = bit /\ v[7] = bit /\ v[8] = bit
  BY DEF File!Nine
<1>2. w \in Seq(Chars) /\ Len(w) = 8 /\ w[1] = f /\ w[2] = bit /\ w[3] = bit /\ w[4] = bit /\ w[5] = bit /\ w[6] = bit /\ w[7] = bit /\ w[8] = bit
  OBVIOUS
<1>3. u \in Seq(Chars) /\ Len(u) = 1 /\ u[1] = f
  OBVIOUS
<1> HIDE DEF v, w, u
<1>4. \A i \in 1 .. 8 : i = 1 \/ i = 2 \/ i = 3 \/ i = 4 \/ i = 5 \/ i = 6 \/ i = 7 \/ i = 8
  OBVIOUS
<1>5. \A i \in 1 .. 8 : v[i] = w[i] /\ 1 + i - 1 = i
  BY <1>1, <1>2, <1>4
<1>6. At(v, 1, w)
  BY <1>1, <1>2, <1>5 DEF At
<1>7. At(v, 9, u)
  BY <1>1, <1>3 DEF At
<1>8. SubSeq(v, 1, 1 + Len(w) - 1) = w /\ 1 + Len(w) - 1 = 8
  BY <1>1, <1>2, <1>6, AtPart
<1>9. SubSeq(v, 9, 9 + Len(u) - 1) = u /\ 9 + Len(u) - 1 = 9
  BY <1>1, <1>3, <1>7, AtPart
<1> QED BY <1>8, <1>9 DEF v, w, u

\* A change of nine bits, packed or as characters.
LEMMA NineStored ==
  ASSUME NEW step \in Nat, NEW told \in File!ValuesOf("9")
  PROVE  \E n, rest : Stored("9", step, told, n, rest) /\ Recovers("9", told, n, rest)
<1>0. /\ told \in {File!Nine("0", "1"), File!Nine("1", "0"), File!Nine("1", "z"), File!Nine("1", "?")}
      /\ told \in Seq(Chars) /\ Len(told) = 9
  <2>1. told \in {File!Nine("0", "1"), File!Nine("1", "0"), File!Nine("1", "z"), File!Nine("1", "?")}
    BY DEF File!ValuesOf
  <2>2. told \in Seq(Chars) /\ Len(File!InFrame("9", told)) = 9
    BY ValuesAre DEF File!Widths, File!RoomOf
  <2> QED BY <2>1, <2>2 DEF File!InFrame
<1>1. CASE told = File!Nine("1", "z") \/ told = File!Nine("1", "?")
  <2> DEFINE n == 2 * step + 1
  <2>1. ~File!Packed(told)
    BY <1>1 DEF File!Packed, File!Nine
  <2>2. File!WrittenChange("9", step, told) = File!WrittenVarint(n) \o told
    BY <2>1 DEF File!WrittenChange
  <2>3. n \in Nat /\ n % 2 = 1 /\ n \div 2 = step
    OBVIOUS
  <2> HIDE DEF n
  <2>4. Stored("9", step, told, n, told)
    BY <1>0, <2>2, <2>3 DEF Stored
  <2>5. ASSUME NEW bytes \in Seq(Chars), NEW at \in Nat \ {0}, At(bytes, at, told)
        PROVE  File!ValueAt("9", n, bytes, at) = told /\ File!AfterValue("9", n, bytes, at) = at + Len(told)
    <3>1. SubSeq(bytes, at, at + Len(told) - 1) = told
      BY <1>0, <2>5, AtPart
    <3>2. at + Len(told) - 1 = at + 8 /\ at + Len(told) = at + 9
      BY <1>0
    <3> QED BY <2>3, <3>1, <3>2 DEF File!ValueAt, File!AfterValue
  <2> QED BY <2>4, <2>5 DEF Recovers
<1>2. ASSUME NEW lead \in {0, 1}, told = IF lead = 0 THEN File!Nine("0", "1") ELSE File!Nine("1", "0")
      PROVE  \E n, rest : Stored("9", step, told, n, rest) /\ Recovers("9", told, n, rest)
  <2> DEFINE n == 2 * step
             a == File!ByteOf(SubSeq(told, 1, 8))
             b == File!ByteOf(SubSeq(told, 9, 9))
             rest == <<a, b>>
  <2>1. File!Packed(told)
    BY <1>2 DEF File!Packed, File!Nine
  <2>2. File!WrittenChange("9", step, told) = File!WrittenVarint(n) \o rest
    BY <2>1 DEF File!WrittenChange
  <2>3. n \in Nat /\ n % 2 = 0 /\ n \div 2 = step
    OBVIOUS
  <2>4. a = (IF lead = 0 THEN 127 ELSE 128) /\ b = (IF lead = 0 THEN 0 ELSE 128)
    <3>1. CASE lead = 0
      <4>1. told = <<"0", "1", "1", "1", "1", "1", "1", "1", "0">>
        BY <1>2, <3>1 DEF File!Nine
      <4>2. SubSeq(told, 1, 8) = <<"0", "1", "1", "1", "1", "1", "1", "1">> /\ SubSeq(told, 9, 9) = <<"0">>
        <5>1. told = File!Nine("0", "1")
          BY <4>1 DEF File!Nine
        <5>2. "0" \in Chars /\ "1" \in Chars
          BY DEF Chars
        <5> QED BY <5>1, <5>2, PartsOfNine
      <4>3. File!ByteOf(<<"0", "1", "1", "1", "1", "1", "1", "1">>) = 127
        BY DEF File!ByteOf, File!Weights
      <4>4. File!ByteOf(<<"0">>) = 0
        BY DEF File!ByteOf, File!Weights
      <4> QED BY <3>1, <4>2, <4>3, <4>4
    <3>2. CASE lead = 1
      <4>1. told = <<"1", "0", "0", "0", "0", "0", "0", "0", "1">>
        BY <1>2, <3>2 DEF File!Nine
      <4>2. SubSeq(told, 1, 8) = <<"1", "0", "0", "0", "0", "0", "0", "0">> /\ SubSeq(told, 9, 9) = <<"1">>
        <5>1. told = File!Nine("1", "0")
          BY <4>1 DEF File!Nine
        <5>2. "0" \in Chars /\ "1" \in Chars
          BY DEF Chars
        <5> QED BY <5>1, <5>2, PartsOfNine
      <4>3. File!ByteOf(<<"1", "0", "0", "0", "0", "0", "0", "0">>) = 128
        BY DEF File!ByteOf, File!Weights
      <4>4. File!ByteOf(<<"1">>) = 128
        BY DEF File!ByteOf, File!Weights
      <4> QED BY <3>2, <4>2, <4>3, <4>4
    <3> QED BY <3>1, <3>2
  <2> HIDE DEF n, a, b
  <2>5. rest \in Seq(Chars) /\ Len(rest) = 2 /\ rest[1] = a /\ rest[2] = b
    BY <2>4 DEF Chars
  <2>6. Stored("9", step, told, n, rest)
    BY <2>2, <2>3, <2>5 DEF Stored
  <2>7. SubSeq(File!BitsOf(a) \o File!BitsOf(b), 1, 9) = told
    <3> DEFINE both == File!BitsOf(a) \o File!BitsOf(b)
               bit == IF lead = 0 THEN "1" ELSE "0"
               f == IF lead = 0 THEN "0" ELSE "1"
    <3>1. File!BitsOf(a) = <<f, bit, bit, bit, bit, bit, bit, bit>> /\ File!BitsOf(b)[1] = f
      BY <2>4, BitsOfBytes
    <3>2. told = <<f, bit, bit, bit, bit, bit, bit, bit, f>>
      BY <1>2 DEF File!Nine
    <3>3. File!BitsOf(b) \in Seq(Chars) /\ Len(File!BitsOf(b)) = 8
      BY DEF File!BitsOf, Chars
    <3> HIDE DEF f, bit
    <3>4. f \in Chars /\ bit \in Chars
      BY DEF f, bit, Chars
    <3> DEFINE t == File!BitsOf(b)
               s == <<f, bit, bit, bit, bit, bit, bit, bit>>
    <3>5. s \in Seq(Chars) /\ Len(s) = 8
      BY <3>4
    <3>6. t \in Seq(Chars) /\ Len(t) = 8 /\ t[1] = f
      BY <3>1, <3>3
    <3> HIDE DEF t, s
    <3> DEFINE c == s \o t
               v == <<f, bit, bit, bit, bit, bit, bit, bit, f>>
    <3>7. c \in Seq(Chars)
      BY <3>5, <3>6, ConcatProperties
    <3>8. Len(c) = Len(s) + Len(t)
      BY <3>5, <3>6, ConcatProperties
    <3>9. \A i \in 1 .. Len(s) + Len(t) : c[i] = IF i <= Len(s) THEN s[i] ELSE t[i - Len(s)]
      BY <3>5, <3>6, ConcatProperties
    <3>10. \A i \in 1 .. 16 : c[i] = IF i <= 8 THEN s[i] ELSE t[i - 8]
      <4>1. Len(s) = 8 /\ \A i \in 1 .. 16 : i \in 1 .. Len(s) + Len(t)
        BY <3>5, <3>6
      <4> QED BY <3>9, <4>1, Zenon
    <3>11. v \in Seq(Chars) /\ Len(v) = 9 /\ v[9] = f /\ \A i \in 1 .. 8 : v[i] = s[i]
      BY <3>4 DEF s
    <3> HIDE DEF c, v
    <3>12. \A i \in 1 .. 9 : c[1 + i - 1] = v[i]
      <4>0. 9 \in 1 .. 16 /\ ~(9 <= 8) /\ 9 - 8 = 1 /\ \A i \in 1 .. 8 : i \in 1 .. 16 /\ i <= 8
        OBVIOUS
      <4>a. c[9] = t[9 - 8]
        BY <3>10, <4>0, Zenon
      <4>b. \A i \in 1 .. 8 : c[i] = s[i]
        BY <3>10, <4>0, Zenon
      <4>c. t[1] = f
        BY <3>6, Zenon
      <4>1. c[9] = f /\ \A i \in 1 .. 8 : c[i] = s[i]
        BY <4>a, <4>b, <4>c, <4>0, Zenon
      <4>2. \A i \in 1 .. 9 : i = 9 \/ i \in 1 .. 8
        OBVIOUS
      <4>3. \A i \in 1 .. 9 : 1 + i - 1 = i
        OBVIOUS
      <4>4. \A i \in 1 .. 9 : c[i] = v[i]
        BY <3>11, <4>1, <4>2
      <4> QED BY <4>3, <4>4
    <3>13. At(c, 1, v)
      <4>1. 1 + Len(v) - 1 <= Len(c)
        BY <3>5, <3>6, <3>8, <3>11
      <4> QED BY <3>11, <3>12, <4>1 DEF At
    <3>14. 1 \in Nat \ {0} /\ 1 + Len(v) - 1 = 9
      BY <3>11
    <3> DEFINE place == 1
    <3>15. place \in Nat \ {0} /\ At(c, place, v)
      BY <3>13, <3>14
    <3> HIDE DEF place
    <3>16. SubSeq(c, place, place + Len(v) - 1) = v
      BY <3>7, <3>11, <3>15, AtPart
    <3>17. SubSeq(c, 1, 9) = told
      BY <3>2, <3>14, <3>16, Zenon DEF v, place
    <3> QED BY <3>1, <3>17 DEF c, s, t
  <2>8. ASSUME NEW bytes \in Seq(Chars), NEW at \in Nat \ {0}, At(bytes, at, rest)
        PROVE  File!ValueAt("9", n, bytes, at) = told /\ File!AfterValue("9", n, bytes, at) = at + Len(rest)
    <3> HIDE DEF rest
    <3>1. bytes[at + 1 - 1] = a /\ bytes[at + 2 - 1] = b
      BY <2>5, <2>8 DEF At
    <3>2. at + 1 - 1 = at /\ at + 2 - 1 = at + 1
      OBVIOUS
    <3>3. bytes[at] = a /\ bytes[at + 1] = b
      BY <3>1, <3>2, Zenon
    <3>4. n % 2 # 1
      BY <2>3
    <3>5. File!ValueAt("9", n, bytes, at) = SubSeq(File!BitsOf(bytes[at]) \o File!BitsOf(bytes[at + 1]), 1, 9)
      BY <2>3, <3>4 DEF File!ValueAt
    <3>6. File!ValueAt("9", n, bytes, at) = told
      BY <2>7, <3>3, <3>5, Zenon
    <3> QED BY <2>5, <3>4, <3>6 DEF File!AfterValue
  <2> QED BY <2>6, <2>8 DEF Recovers
<1>3. CASE told = File!Nine("0", "1")
  <2> DEFINE lead == 0
  <2>1. lead \in {0, 1} /\ told = IF lead = 0 THEN File!Nine("0", "1") ELSE File!Nine("1", "0")
    BY <1>3
  <2> QED BY <1>2, <2>1
<1>4. CASE told = File!Nine("1", "0")
  <2> DEFINE lead == 1
  <2>1. lead \in {0, 1} /\ told = IF lead = 0 THEN File!Nine("0", "1") ELSE File!Nine("1", "0")
    BY <1>4
  <2> QED BY <1>2, <2>1
<1> QED BY <1>0, <1>1, <1>3, <1>4

\* A change of a real number.
LEMMA RealStored ==
  ASSUME NEW step \in Nat, NEW told \in File!ValuesOf("real")
  PROVE  \E n, rest : Stored("real", step, told, n, rest) /\ Recovers("real", told, n, rest)
<1>1. told \in Seq(Chars) /\ Len(told) = 8
  <2>1. told \in Seq(Chars) /\ Len(File!InFrame("real", told)) = 8
    BY ValuesAre DEF File!Widths, File!RoomOf
  <2> QED BY <2>1 DEF File!InFrame
<1> DEFINE n == 2 * step + 1
<1>2. File!WrittenChange("real", step, told) = File!WrittenVarint(n) \o told
  BY DEF File!WrittenChange
<1>3. n \in Nat /\ n \div 2 = step
  OBVIOUS
<1> HIDE DEF n
<1>4. Stored("real", step, told, n, told)
  BY <1>1, <1>2, <1>3 DEF Stored
<1>5. ASSUME NEW bytes \in Seq(Chars), NEW at \in Nat \ {0}, At(bytes, at, told)
      PROVE  File!ValueAt("real", n, bytes, at) = told /\ File!AfterValue("real", n, bytes, at) = at + Len(told)
  <2>1. SubSeq(bytes, at, at + Len(told) - 1) = told
    BY <1>1, <1>5, AtPart
  <2>2. at + Len(told) - 1 = at + 7 /\ at + Len(told) = at + 8
    BY <1>1
  <2> QED BY <2>1, <2>2 DEF File!ValueAt, File!AfterValue
<1> QED BY <1>4, <1>5 DEF Recovers

\* A change of a string, which says its own length.
LEMMA StringStored ==
  ASSUME NEW step \in Nat, NEW told \in Strings
  PROVE  \E n, rest : Stored("string", step, told, n, rest) /\ Recovers("string", told, n, rest)
<1> DEFINE n == 2 * step
           size == Len(told)
           rest == File!WrittenVarint(size) \o told
<1>1. told \in Seq(Chars) /\ size \in Nat /\ told # None
  <2>1. told \in Seq(STRING) /\ None \notin Strings
    BY FileConstants DEF File!FileAssumption
  <2>2. told \in Seq(Chars)
    BY <2>1 DEF Chars
  <2> QED BY <2>1, <2>2
<1>2. File!WrittenVarint(size) \in Seq(Chars) /\ File!WrittenVarint(n) \in Seq(Chars)
  BY <1>1, VarintIn
<1>3. rest \in Seq(Chars)
  BY <1>1, <1>2, ConcatProperties
<1>4. n \in Nat /\ n \div 2 = step /\ n % 2 = 0
  OBVIOUS
<1>5. File!WrittenChange("string", step, told) = File!WrittenVarint(n) \o rest
  <2>1. File!WrittenChange("string", step, told) = (File!WrittenVarint(n) \o File!WrittenVarint(size)) \o told
    BY <1>1 DEF File!WrittenChange
  <2> HIDE DEF n, size
  <2>2. (File!WrittenVarint(n) \o File!WrittenVarint(size)) \o told = File!WrittenVarint(n) \o (File!WrittenVarint(size) \o told)
    BY <1>1, <1>2, ConcatAssociative
  <2> QED BY <2>1, <2>2
<1> HIDE DEF n
<1>6. Stored("string", step, told, n, rest)
  BY <1>3, <1>4, <1>5 DEF Stored
<1>7. ASSUME NEW bytes \in Seq(Chars), NEW at \in Nat \ {0}, At(bytes, at, rest)
      PROVE  File!ValueAt("string", n, bytes, at) = told /\ File!AfterValue("string", n, bytes, at) = at + Len(rest)
  <2> DEFINE after == File!AfterVarint(bytes, at)
  <2>1. File!Varint(bytes, at) = size /\ after \in Nat \ {0} /\ At(bytes, after, told) /\ after + Len(told) = at + Len(rest)
    BY <1>1, <1>7, HeadRead
  <2>2. SubSeq(bytes, after, after + Len(told) - 1) = told
    <3> HIDE DEF after
    <3> QED BY <1>1, <2>1, AtPart
  <2>5. n % 2 = 0 /\ ~(n % 2 = 1)
    BY <1>4
  <2>3. File!ValueAt("string", n, bytes, at) = SubSeq(bytes, after, after + File!Varint(bytes, at) - 1)
    BY <2>5, Zenon DEF File!ValueAt
  <2>4. File!AfterValue("string", n, bytes, at) = after + File!Varint(bytes, at)
    BY <2>5 DEF File!AfterValue
  <2> HIDE DEF after, rest
  <2> QED BY <2>1, <2>2, <2>3, <2>4
<1> QED BY <1>6, <1>7 DEF Recovers

\* A change of a string that cannot be read, of which only the number is.
LEMMA NoStringStored ==
  ASSUME NEW step \in Nat
  PROVE  \E n, rest : Stored("string", step, None, n, rest) /\ Recovers("string", None, n, rest)
<1> DEFINE n == 2 * step + 1
           rest == <<>>
<1>1. n \in Nat /\ n \div 2 = step /\ n % 2 = 1
  OBVIOUS
<1>2. File!WrittenChange("string", step, None) = File!WrittenVarint(n)
  BY DEF File!WrittenChange
<1>3. rest \in Seq(Chars) /\ \A at \in Nat : at + Len(rest) = at
  OBVIOUS
<1> HIDE DEF n
<1>4. File!WrittenVarint(n) = File!WrittenVarint(n) \o rest
  BY <1>1, NoRest
<1> HIDE DEF rest
<1>5. Stored("string", step, None, n, rest)
  BY <1>1, <1>2, <1>3, <1>4 DEF Stored
<1>6. \A bytes, at : File!ValueAt("string", n, bytes, at) = None /\ File!AfterValue("string", n, bytes, at) = at
  BY <1>1 DEF File!ValueAt, File!AfterValue
<1> QED BY <1>3, <1>5, <1>6 DEF Recovers

\* A change of any width is stored so that its step and its value can be told.
LEMMA ValueStored ==
  ASSUME NEW width \in File!Widths, NEW step \in Nat, NEW told \in File!ValuesOf(width)
  PROVE  \E n, rest : Stored(width, step, told, n, rest) /\ Recovers(width, told, n, rest)
<1>1. CASE width = "1"
  <2> DEFINE rest == <<>>
  <2>1. PICK n : Stored("1", step, told, n, rest) /\ \A bytes, at : File!ValueAt("1", n, bytes, at) = told /\ File!AfterValue("1", n, bytes, at) = at
    BY <1>1, OneBitStored
  <2>2. \A at \in Nat \ {0} : at + Len(rest) = at
    OBVIOUS
  <2> HIDE DEF rest
  <2>3. Recovers("1", told, n, rest)
    BY <2>1, <2>2 DEF Recovers
  <2> QED BY <1>1, <2>1, <2>3
<1>2. CASE width = "string"
  <2>1. told \in Strings \/ told = None
    BY <1>2 DEF File!ValuesOf
  <2> QED BY <1>2, <2>1, StringStored, NoStringStored
<1> QED BY <1>1, <1>2, NineStored, RealStored DEF File!Widths

\* The changes are read one after the other.
LEMMA ChangesWalk ==
  ASSUME NEW width, NEW bytes, Len(bytes) \in Nat
  PROVE  \E f : f[0] = File!NoChanges /\ (\A n \in 1 .. Len(bytes) : f[n] = File!NextChange(width, bytes, f[n - 1]))
                /\ File!ChangesOf(width, bytes) = f[Len(bytes)].changes
<1> DEFINE L == Len(bytes)
           Fn(f) == [n \in 0 .. L |-> IF n = 0 THEN File!NoChanges ELSE File!NextChange(width, bytes, f[n - 1])]
           after == CHOOSE f : f = Fn(f)
<1>1. File!ChangesOf(width, bytes) = after[L].changes
  BY DEF File!ChangesOf
<1>2. \A x, n : NextOf("change", width, bytes, x, n) = File!NextChange(width, bytes, x)
  BY DEF NextOf
<1>3. \A f : Stepwise(f, "change", width, bytes, File!NoChanges, L) <=> f = Fn(f)
  BY <1>2 DEF Stepwise
<1> HIDE DEF Fn
<1>4. \E f : f = Fn(f)
  BY <1>3, StepwiseExists
<1>5. after = Fn(after)
  BY <1>4, Zenon
<1> HIDE DEF after
<1>6. after[0] = File!NoChanges /\ \A n \in 1 .. L : after[n] = NextOf("change", width, bytes, after[n - 1], n)
  <2>1. Stepwise(after, "change", width, bytes, File!NoChanges, L)
    BY <1>3, <1>5
  <2> QED BY <2>1, StepwiseIs
<1> QED BY <1>1, <1>2, <1>6

\* The steps add up.
LEMMA IndexWalk ==
  ASSUME NEW m, NEW P, m.changes \in Seq([step : Nat, value : P])
  PROVE  \E index : /\ index[0] = 0 /\ \A k \in 1 .. Len(m.changes) : index[k] = index[k - 1] + m.changes[k].step
                    /\ File!MeantChanges(m) = [k \in DOMAIN m.changes |-> [index |-> index[k], value |-> m.changes[k].value]]
<1> DEFINE cs == m.changes
           L == Len(cs)
           Fn(f) == [k \in 0 .. L |-> IF k = 0 THEN 0 ELSE f[k - 1] + m.changes[k].step]
           index == CHOOSE f : f = Fn(f)
<1>1. File!MeantChanges(m) = [k \in DOMAIN m.changes |-> [index |-> index[k], value |-> m.changes[k].value]]
  BY DEF File!MeantChanges
<1>2. \A x, n : NextOf("index", 0, cs, x, n) = x + m.changes[n].step
  BY DEF NextOf
<1>3. \A f : Stepwise(f, "index", 0, cs, 0, L) <=> f = Fn(f)
  BY <1>2 DEF Stepwise
<1> HIDE DEF Fn
<1>0. L \in Nat
  OBVIOUS
<1>4. \E f : f = Fn(f)
  BY <1>0, <1>3, StepwiseExists
<1>5. index = Fn(index)
  BY <1>4, Zenon
<1> HIDE DEF index
<1>6. index[0] = 0 /\ \A n \in 1 .. L : index[n] = NextOf("index", 0, cs, index[n - 1], n)
  <2>1. Stepwise(index, "index", 0, cs, 0, L)
    BY <1>3, <1>5
  <2> HIDE DEF cs
  <2> QED BY <1>0, <2>1, StepwiseIs
<1>7. \A k \in 1 .. Len(m.changes) : index[k] = index[k - 1] + m.changes[k].step
  BY <1>2, <1>6, Zenon
<1> QED BY <1>1, <1>6, <1>7, Zenon

TakesChange(w, bytes, at, size, index, step, changes, told) ==
  File!NextChange(w, bytes, [at |-> at, index |-> index, changes |-> changes])
  = [at |-> at + size, index |-> index + step, changes |-> Append(changes, [index |-> index + step, value |-> told])]

\* One step of the reader of changes, at any of the changes.
LEMMA ChangeStep ==
  ASSUME NEW w \in File!Widths, NEW step \in Nat, NEW told \in File!ValuesOf(w), NEW bytes \in Seq(Chars), NEW at \in Nat \ {0},
         NEW chunk, chunk = File!WrittenChange(w, step, told), At(bytes, at, chunk), NEW index, NEW changes
  PROVE  /\ chunk \in Seq(Chars) /\ Len(chunk) \in Nat \ {0} /\ at <= Len(bytes)
         /\ TakesChange(w, bytes, at, Len(chunk), index, step, changes, told)
<1>1. PICK n, rest : Stored(w, step, told, n, rest) /\ Recovers(w, told, n, rest)
  BY ValueStored
<1>2. /\ n \in Nat /\ rest \in Seq(Chars) /\ chunk = File!WrittenVarint(n) \o rest
      /\ (IF w = "1" THEN File!OneBitStep(n) ELSE n \div 2) = step
  BY <1>1 DEF Stored
<1> DEFINE head == File!WrittenVarint(n)
           after == File!AfterVarint(bytes, at)
<1>3. head \in Seq(Chars) /\ Len(head) \in Nat \ {0}
  BY <1>2, VarintIn
<1>4. chunk \in Seq(Chars) /\ Len(chunk) = Len(head) + Len(rest)
  <2> HIDE DEF head
  <2> QED BY <1>2, <1>3, ConcatProperties DEF head
<1>5. Len(chunk) \in Nat \ {0} /\ at <= Len(bytes)
  <2> DEFINE x == Len(head)
             y == Len(rest)
             z == Len(bytes)
             u == Len(chunk)
  <2>1. x \in Nat \ {0} /\ y \in Nat /\ z \in Nat /\ u = x + y /\ at + u - 1 <= z
    BY <1>2, <1>3, <1>4 DEF At
  <2> HIDE DEF x, y, z, u
  <2>2. u \in Nat \ {0} /\ at <= z
    BY <2>1
  <2> QED BY <2>2 DEF z, u
<1>6. File!Varint(bytes, at) = n /\ after \in Nat \ {0} /\ At(bytes, after, rest) /\ after + Len(rest) = at + Len(chunk)
  BY <1>2, HeadRead
<1>7. File!ValueAt(w, n, bytes, after) = told /\ File!AfterValue(w, n, bytes, after) = after + Len(rest)
  <2> HIDE DEF after
  <2> QED BY <1>1, <1>6 DEF Recovers
<1> DEFINE r == [at |-> at, index |-> index, changes |-> changes]
           here == index + step
<1>8. r.at = at /\ r.index = index /\ r.changes = changes /\ ~(at > Len(bytes))
  BY <1>5
<1> HIDE DEF r
<1>9. File!NextChange(w, bytes, r) =
        [at |-> File!AfterValue(w, n, bytes, after), index |-> here, changes |-> Append(changes, [index |-> here, value |-> File!ValueAt(w, n, bytes, after)])]
  BY <1>2, <1>6, <1>8 DEF File!NextChange
<1>10. File!NextChange(w, bytes, r) = [at |-> at + Len(chunk), index |-> here, changes |-> Append(changes, [index |-> here, value |-> told])]
  BY <1>6, <1>7, <1>9, Zenon
<1> QED BY <1>4, <1>5, <1>10 DEF r, TakesChange

\* The changes of a signal are told as they were meant.
LEMMA ChangesTold ==
  ASSUME NEW w \in File!Widths, NEW m, m.width = w, m.changes \in Seq([step : Nat, value : File!ValuesOf(w)])
  PROVE  File!ChangesOf(w, File!WrittenChanges(m)) = File!MeantChanges(m)
<1> DEFINE cs == m.changes
           N == Len(cs)
           chunk(k) == File!WrittenChange(w, cs[k].step, cs[k].value)
           seqs == [k \in DOMAIN cs |-> chunk(k)]
           bytes == File!WrittenChanges(m)
           L == Len(bytes)
<1>1. N \in Nat /\ DOMAIN cs = 1 .. N /\ \A k \in 1 .. N : cs[k].step \in Nat /\ cs[k].value \in File!ValuesOf(w)
  <2> DEFINE P == [step : Nat, value : File!ValuesOf(w)]
  <2>1. cs \in Seq(P)
    OBVIOUS
  <2>2. \A c \in P : c.step \in Nat /\ c.value \in File!ValuesOf(w)
    OBVIOUS
  <2> HIDE DEF P
  <2>3. N \in Nat /\ DOMAIN cs = 1 .. N /\ \A k \in 1 .. N : cs[k] \in P
    BY <2>1
  <2> QED BY <2>2, <2>3, Zenon
<1>2. \A k \in 1 .. N : seqs[k] = chunk(k) /\ chunk(k) \in Seq(Chars) /\ Len(chunk(k)) \in Nat \ {0}
  <2> SUFFICES ASSUME NEW k \in 1 .. N PROVE seqs[k] = chunk(k) /\ chunk(k) \in Seq(Chars) /\ Len(chunk(k)) \in Nat \ {0}
    OBVIOUS
  <2>1. seqs[k] = chunk(k)
    BY <1>1
  <2> DEFINE step == cs[k].step
             told == cs[k].value
  <2>2. step \in Nat /\ told \in File!ValuesOf(w)
    BY <1>1
  <2>3. chunk(k) = File!WrittenChange(w, step, told)
    OBVIOUS
  <2> HIDE DEF chunk, step, told
  <2>4. PICK n, rest : Stored(w, step, told, n, rest)
    BY <2>2, ValueStored
  <2>5. n \in Nat /\ rest \in Seq(Chars) /\ chunk(k) = File!WrittenVarint(n) \o rest
    BY <2>3, <2>4 DEF Stored
  <2>6. File!WrittenVarint(n) \in Seq(Chars) /\ Len(File!WrittenVarint(n)) \in Nat \ {0}
    BY <2>5, VarintIn
  <2> DEFINE v == File!WrittenVarint(n)
  <2> HIDE DEF v
  <2>7. v \o rest \in Seq(Chars) /\ Len(v \o rest) = Len(v) + Len(rest)
    BY <2>5, <2>6, ConcatProperties DEF v
  <2>8. Len(v) \in Nat \ {0} /\ Len(rest) \in Nat
    BY <2>5, <2>6 DEF v
  <2>9. Len(v) + Len(rest) \in Nat \ {0}
    BY <2>8
  <2> QED BY <2>1, <2>5, <2>7, <2>9 DEF v
<1>3. seqs \in Seq(Seq(Chars)) /\ Len(seqs) = N /\ bytes = FlattenSeq(seqs)
  <2>1. bytes = FlattenSeq(seqs)
    BY SameFlattenSeq, Zenon DEF File!WrittenChanges
  <2> DEFINE Q == Seq(Chars)
  <2>2. DOMAIN seqs = 1 .. N /\ \A k \in 1 .. N : seqs[k] \in Q
    BY <1>1, <1>2
  <2>3. seqs = [k \in 1 .. N |-> seqs[k]]
    BY <1>1
  <2> HIDE DEF Q, chunk, bytes, seqs, N
  <2>4. seqs \in Seq(Q) /\ Len(seqs) = N
    BY <1>1, <2>2, <2>3
  <2> QED BY <2>1, <2>4 DEF Q
<1>4. bytes \in Seq(Chars) /\ L \in Nat
  <2> HIDE DEF seqs, bytes
  <2> QED BY <1>3, FlattenInSeq
<1> HIDE DEF seqs, bytes, chunk
<1>5. PICK start : Laid(start, bytes, seqs)
  BY <1>3, FlattenPlaces
<1>6. start \in [0 .. N -> Nat] /\ start[0] = 0 /\ start[N] = L
  BY <1>3, <1>5 DEF Laid
<1>7. \A n \in 1 .. N : start[n] = start[n - 1] + Len(chunk(n)) /\ start[n] <= L
  BY <1>2, <1>3, <1>5, Zenon DEF Laid
<1>8. \A n \in 1 .. N : \A j \in 1 .. Len(chunk(n)) : bytes[start[n - 1] + j] = chunk(n)[j]
  <2>1. \A n \in 1 .. N : \A j \in 1 .. Len(seqs[n]) : bytes[start[n - 1] + j] = seqs[n][j]
    BY <1>3, <1>5, Zenon DEF Laid
  <2>2. \A n \in 1 .. N : seqs[n] = chunk(n)
    BY <1>2
  <2> QED BY <2>1, <2>2, Zenon
<1>9. PICK index : /\ index[0] = 0 /\ \A k \in 1 .. N : index[k] = index[k - 1] + cs[k].step
                   /\ File!MeantChanges(m) = [k \in DOMAIN cs |-> [index |-> index[k], value |-> cs[k].value]]
  <2> DEFINE P == File!ValuesOf(w)
  <2>1. m.changes \in Seq([step : Nat, value : P])
    OBVIOUS
  <2> HIDE DEF P
  <2> QED BY <2>1, IndexWalk
<1> DEFINE all == File!MeantChanges(m)
           Changes == [index : {index[k] : k \in 1 .. N}, value : File!ValuesOf(w)]
           State(n) == [at |-> start[n] + 1, index |-> index[n], changes |-> SubSeq(all, 1, n)]
<1>10. all \in Seq(Changes) /\ Len(all) = N /\ \A k \in 1 .. N : all[k] = [index |-> index[k], value |-> cs[k].value]
  BY <1>1, <1>9
<1> HIDE DEF all
<1>b. Len(bytes) = L /\ L \in Nat
  BY <1>4
<1>12. PICK f : f[0] = File!NoChanges /\ (\A n \in 1 .. L : f[n] = File!NextChange(w, bytes, f[n - 1])) /\ File!ChangesOf(w, bytes) = f[L].changes
  BY <1>4, ChangesWalk
<1> HIDE DEF N, L, cs
<1>11. ASSUME NEW n \in Nat, NEW k, k = n + 1, k \in 1 .. N
       PROVE  File!NextChange(w, bytes, State(n)) = State(k) /\ start[n] < start[k]
  <2> DEFINE at == start[n] + 1
             c == chunk(k)
             step == cs[k].step
             told == cs[k].value
             changes == SubSeq(all, 1, n)
             i == index[n]
  <2>1. k - 1 = n /\ n \in 0 .. N /\ start[n] \in Nat /\ start[k] \in Nat /\ at \in Nat \ {0}
    BY <1>1, <1>6, <1>11
  <2>2. start[k] = start[n] + Len(c) /\ start[k] <= L
    BY <1>7, <1>11, <2>1, Zenon
  <2>3. \A j \in 1 .. Len(c) : bytes[start[n] + j] = c[j]
    BY <1>8, <1>11, <2>1, Zenon
  <2>4. Len(c) \in Nat \ {0} /\ step \in Nat /\ told \in File!ValuesOf(w) /\ c = File!WrittenChange(w, step, told)
    BY <1>1, <1>2, <1>11 DEF chunk
  <2>5. at + Len(c) - 1 <= L /\ at + Len(c) = start[k] + 1 /\ start[n] < start[k]
    BY <1>4, <2>1, <2>2, <2>4
  <2>6. \A j \in 1 .. Len(c) : at + j - 1 = start[n] + j
    BY <2>1, <2>4
  <2>7. \A j \in 1 .. Len(c) : bytes[at + j - 1] = c[j]
    BY <2>3, <2>6
  <2>8. At(bytes, at, c)
    BY <1>b, <2>5, <2>7 DEF At
  <2>9. index[k] = i + step
    BY <1>9, <1>11, <2>1, Zenon
  <2>10. SubSeq(all, 1, k) = Append(changes, [index |-> i + step, value |-> told])
    <3>1. SubSeq(all, 1, k) = Append(SubSeq(all, 1, n), all[k])
      BY <1>10, <1>11, <2>1
    <3>2. all[k] = [index |-> i + step, value |-> told]
      BY <1>10, <1>11, <2>9, Zenon
    <3> QED BY <3>1, <3>2, Zenon
  <2>11. State(n) = [at |-> at, index |-> i, changes |-> changes]
    OBVIOUS
  <2>12. State(k) = [at |-> at + Len(c), index |-> i + step, changes |-> Append(changes, [index |-> i + step, value |-> told])]
    BY <2>5, <2>9, <2>10, Zenon
  <2> HIDE DEF at, c, step, told, changes, i, State
  <2>13. File!NextChange(w, bytes, [at |-> at, index |-> i, changes |-> changes])
         = [at |-> at + Len(c), index |-> i + step, changes |-> Append(changes, [index |-> i + step, value |-> told])]
    <3>1. bytes \in Seq(Chars)
      BY <1>4
    <3>2. TakesChange(w, bytes, at, Len(c), i, step, changes, told)
      BY <3>1, <2>1, <2>4, <2>8, ChangeStep
    <3> QED BY <3>2, Zenon DEF TakesChange
  <2> QED BY <2>5, <2>11, <2>12, <2>13, Zenon

<1> DEFINE T == {n \in Nat : n <= N => f[n] = State(n) /\ n <= start[n]}
           U == {n \in Nat : N + n <= L => f[N + n] = State(N)}
<1>13. SubSeq(all, 1, 0) = <<>> /\ SubSeq(all, 1, N) = all
  BY <1>1, <1>10
<1>14. State(0) = File!NoChanges
  BY <1>6, <1>9, <1>13 DEF File!NoChanges
<1>15. \A n \in 0 .. N : f[n] = State(n) /\ n <= start[n]
  <2>1. 0 \in T
    BY <1>6, <1>12, <1>14
  <2>2. ASSUME NEW n \in Nat, n \in T PROVE n + 1 \in T
    <3> SUFFICES ASSUME n + 1 <= N PROVE f[n + 1] = State(n + 1) /\ n + 1 <= start[n + 1]
      OBVIOUS
    <3> DEFINE k == n + 1
    <3>1. k \in 1 .. N /\ k - 1 = n /\ n <= N /\ k \in Nat
      BY <1>1
    <3>2. f[n] = State(n) /\ n <= start[n]
      BY <2>2, <3>1
    <3>a. k = n + 1
      OBVIOUS
    <3> HIDE DEF k, State
    <3>3. File!NextChange(w, bytes, State(n)) = State(k) /\ start[n] < start[k]
      BY <1>11, <3>1, <3>a
    <3>4. start[n] \in Nat /\ start[k] \in Nat /\ start[k] <= L
      BY <1>6, <1>7, <3>1
    <3>5. k <= start[k] /\ k \in 1 .. L
      BY <1>4, <3>1, <3>2, <3>3, <3>4, <3>a
    <3>6. f[k] = File!NextChange(w, bytes, f[n])
      BY <1>12, <3>1, <3>5, Zenon
    <3>7. f[k] = State(k)
      BY <3>2, <3>3, <3>6, Zenon
    <3> QED BY <3>5, <3>7 DEF k
  <2> HIDE DEF T
  <2>3. \A n \in Nat : n \in T
    BY <2>1, <2>2, SetInduction
  <2> QED BY <2>3 DEF T
<1>16. f[N] = State(N) /\ N <= L
  BY <1>1, <1>6, <1>15
<1>17. File!NextChange(w, bytes, State(N)) = State(N)
  <2>1. State(N).at > Len(bytes)
    BY <1>b, <1>6
  <2> HIDE DEF State
  <2> QED BY <2>1 DEF File!NextChange
<1>18. State(N).changes = all
  BY <1>13
<1> HIDE DEF State
<1>19. f[L] = State(N)
  <2>1. 0 \in U
    BY <1>1, <1>16
  <2>2. ASSUME NEW n \in Nat, n \in U PROVE n + 1 \in U
    <3> SUFFICES ASSUME N + (n + 1) <= L PROVE f[N + (n + 1)] = State(N)
      OBVIOUS
    <3> DEFINE k == N + (n + 1)
    <3>1. k \in 1 .. L /\ k - 1 = N + n /\ f[N + n] = State(N)
      BY <1>1, <1>4, <2>2
    <3>2. f[k] = File!NextChange(w, bytes, f[k - 1])
      BY <1>12, <3>1, Zenon
    <3> HIDE DEF k
    <3>3. f[k] = State(N)
      BY <1>17, <3>1, <3>2
    <3> QED BY <3>3 DEF k
  <2> HIDE DEF U
  <2>3. \A n \in Nat : n \in U
    BY <2>1, <2>2, SetInduction
  <2> DEFINE d == L - N
  <2>4. d \in Nat /\ N + d = L
    BY <1>b, <1>1, <1>16
  <2> HIDE DEF d
  <2>5. N + d <= L => f[N + d] = State(N)
    BY <2>3, <2>4 DEF U
  <2>6. N + d <= L
    BY <2>4, <1>b
  <2> QED BY <2>4, <2>5, <2>6
<1> QED BY <1>12, <1>18, <1>19, Zenon DEF bytes, all

\* They are read so, or refused.
LEMMA ChangesRead ==
  ASSUME NEW w \in File!Widths, NEW m, m.width = w, m.times \in Nat, m.changes \in Seq([step : Nat, value : File!ValuesOf(w)])
  PROVE  File!ReadChanges(m, File!WrittenChanges(m))
         = IF \E k \in DOMAIN m.changes : File!Foreign(m.width, m.changes[k].value) \/ File!MeantChanges(m)[k].index >= m.times
           THEN File!Refused ELSE File!Gives(File!MeantChanges(m))
<1> DEFINE cs == m.changes
           all == File!MeantChanges(m)
           times == m.times
           foreign == \E k \in DOMAIN cs : File!Foreign(w, cs[k].value) \/ all[k].index >= times
           good == \A k \in DOMAIN all : File!Legible(w, all[k].value) /\ all[k].index < times
<1>1. File!ReadChanges(m, File!WrittenChanges(m)) = IF good THEN File!Gives(all) ELSE File!Refused
  BY ChangesTold, Zenon DEF File!ReadChanges
<1>2. /\ DOMAIN all = DOMAIN cs
      /\ \A k \in DOMAIN cs : all[k].value = cs[k].value /\ cs[k].value \in File!ValuesOf(w) /\ all[k].index \in Nat
  <2> DEFINE P == File!ValuesOf(w)
             N == Len(cs)
  <2>1. m.changes \in Seq([step : Nat, value : P])
    OBVIOUS
  <2> HIDE DEF P
  <2>2. PICK index : /\ index[0] = 0 /\ \A k \in 1 .. Len(cs) : index[k] = index[k - 1] + cs[k].step
                     /\ all = [k \in DOMAIN cs |-> [index |-> index[k], value |-> cs[k].value]]
    BY <2>1, IndexWalk
  <2>3. N \in Nat /\ DOMAIN cs = 1 .. N /\ \A k \in 1 .. N : cs[k].step \in Nat /\ cs[k].value \in P
    <3> DEFINE Q == [step : Nat, value : P]
    <3>1. \A c \in Q : c.step \in Nat /\ c.value \in P
      OBVIOUS
    <3> HIDE DEF Q
    <3>2. cs \in Seq(Q)
      BY <2>1 DEF Q
    <3>3. N \in Nat /\ DOMAIN cs = 1 .. N /\ \A k \in 1 .. N : cs[k] \in Q
      BY <3>2
    <3> QED BY <3>1, <3>3, Zenon
  <2> DEFINE T == {n \in Nat : n <= N => index[n] \in Nat}
  <2> HIDE DEF N
  <2>4. 0 \in T
    BY <2>2
  <2>5. ASSUME NEW n \in Nat, n \in T PROVE n + 1 \in T
    <3> SUFFICES ASSUME n + 1 <= N PROVE index[n + 1] \in Nat
      OBVIOUS
    <3> DEFINE k == n + 1
    <3>1. k \in 1 .. N /\ k - 1 = n /\ index[n] \in Nat
      BY <2>3, <2>5
    <3> HIDE DEF k
    <3>2. index[k] = index[k - 1] + cs[k].step /\ cs[k].step \in Nat
      BY <2>2, <2>3, <3>1, Zenon DEF N
    <3>3. index[k] \in Nat
      BY <3>1, <3>2
    <3> QED BY <3>3 DEF k
  <2> HIDE DEF T
  <2>6. \A n \in Nat : n \in T
    BY <2>4, <2>5, SetInduction
  <2>7. \A k \in 1 .. N : index[k] \in Nat
    BY <2>3, <2>6 DEF T
  <2> HIDE DEF cs, all
  <2>8. DOMAIN all = DOMAIN cs /\ \A k \in DOMAIN cs : all[k].value = cs[k].value /\ all[k].index = index[k]
    BY <2>2
  <2> QED BY <2>3, <2>7, <2>8 DEF P
<1>3. \A k \in DOMAIN cs : File!Legible(w, cs[k].value) <=> ~File!Foreign(w, cs[k].value)
  BY <1>2, ForeignIs
<1> HIDE DEF all, cs
<1>4. good <=> ~foreign
  BY <1>2, <1>3
<1> HIDE DEF good, foreign
<1>5. File!ReadChanges(m, File!WrittenChanges(m)) = IF foreign THEN File!Refused ELSE File!Gives(all)
  BY <1>1, <1>4, Zenon
<1> QED BY <1>5, Zenon DEF foreign, all, cs

-----------------------------------------------------------------------------
(* The names *)

\* How many of some places are among the first grows by one at each of them.
LEMMA UpToGrows ==
  ASSUME NEW N \in Nat, NEW places, places \subseteq 1 .. N
  PROVE  /\ File!UpTo(places, 0) = 0 /\ File!UpTo(places, N) = Cardinality(places)
         /\ \A k \in 0 .. N : File!UpTo(places, k) \in Nat
         /\ \A k \in 1 .. N : File!UpTo(places, k) = File!UpTo(places, k - 1) + (IF k \in places THEN 1 ELSE 0)
<1> DEFINE First(k) == {j \in places : j <= k}
<1>1. \A k : File!UpTo(places, k) = Cardinality(First(k))
  BY SameCardinality, Zenon DEF File!UpTo
<1>2. \A k \in 0 .. N : IsFiniteSet(First(k)) /\ Cardinality(First(k)) \in Nat
  <2> SUFFICES ASSUME NEW k \in 0 .. N PROVE IsFiniteSet(First(k)) /\ Cardinality(First(k)) \in Nat
    OBVIOUS
  <2>1. First(k) \subseteq 1 .. N
    OBVIOUS
  <2> HIDE DEF First
  <2>2. IsFiniteSet(1 .. N)
    BY FS_Interval
  <2>3. IsFiniteSet(First(k))
    BY <2>1, <2>2, FS_Subset
  <2> QED BY <2>3, FS_CardinalityType
<1>3. First(0) = {} /\ First(N) = places
  <2>1. \A j \in places : ~(j <= 0) /\ j <= N
    OBVIOUS
  <2> QED BY <2>1, Zenon
<1>4. ASSUME NEW k \in 1 .. N PROVE Cardinality(First(k)) = Cardinality(First(k - 1)) + (IF k \in places THEN 1 ELSE 0)
  <2> DEFINE A == First(k - 1)
  <2>1. k - 1 \in 0 .. N
    OBVIOUS
  <2>2. IsFiniteSet(A) /\ Cardinality(A) \in Nat
    BY <1>2, <2>1
  <2>3. CASE k \in places
    <3>a. \A j \in places : j <= k <=> (j <= k - 1 \/ j = k)
      OBVIOUS
    <3>b. ~(k <= k - 1) /\ k <= k
      OBVIOUS
    <3>1. First(k) = A \cup {k} /\ k \notin A
      BY <2>3, <3>a, <3>b, Zenon
    <3> HIDE DEF First, A
    <3>2. Cardinality(A \cup {k}) = Cardinality(A) + 1
      BY <2>2, <3>1, FS_AddElement
    <3> QED BY <2>3, <3>1, <3>2 DEF A
  <2>4. CASE k \notin places
    <3>a. \A j \in places : j <= k <=> (j <= k - 1 \/ j = k)
      OBVIOUS
    <3>1. First(k) = A
      BY <2>4, <3>a, Zenon
    <3> HIDE DEF First
    <3> QED BY <2>2, <2>4, <3>1
  <2> QED BY <2>3, <2>4
<1> HIDE DEF First
<1> QED BY <1>1, <1>2, <1>3, <1>4, FS_EmptySet

\* The places before one are fewer.
LEMMA UpToOrders ==
  ASSUME NEW N \in Nat, NEW places, places \subseteq 1 .. N, NEW j \in 0 .. N, NEW k \in places, j < k
  PROVE  File!UpTo(places, j) < File!UpTo(places, k)
<1>1. k \in 1 .. N /\ j \in Nat /\ k \in Nat
  OBVIOUS
<1> DEFINE u(i) == File!UpTo(places, i)
           T == {n \in Nat : j + n <= N => u(j) <= u(j + n)}
<1>2. (\A i \in 0 .. N : u(i) \in Nat) /\ \A i \in 1 .. N : u(i) = u(i - 1) + (IF i \in places THEN 1 ELSE 0)
  BY UpToGrows
<1> HIDE DEF u
<1>3. 0 \in T
  BY <1>1, <1>2
<1>4. ASSUME NEW n \in Nat, n \in T PROVE n + 1 \in T
  <2> SUFFICES ASSUME j + (n + 1) <= N PROVE u(j) <= u(j + (n + 1))
    OBVIOUS
  <2> DEFINE i == j + (n + 1)
  <2>1. i \in 1 .. N /\ i - 1 = j + n /\ j + n \in 0 .. N /\ u(j) <= u(j + n)
    BY <1>4, <1>1
  <2> HIDE DEF i
  <2>2. u(i) = u(j + n) + (IF i \in places THEN 1 ELSE 0)
    BY <1>2, <2>1, Zenon
  <2>3. u(j) \in Nat /\ u(j + n) \in Nat
    BY <1>2, <2>1
  <2> QED BY <2>1, <2>2, <2>3 DEF i
<1> HIDE DEF T
<1>5. k - 1 - j \in T /\ k - 1 - j \in Nat
  <2>1. k - 1 - j \in Nat
    BY <1>1
  <2> QED BY <1>3, <1>4, <2>1, SetInduction
<1>6. u(j) <= u(k - 1) /\ k - 1 \in 0 .. N
  <2>1. j + (k - 1 - j) = k - 1 /\ k - 1 <= N /\ k - 1 \in 0 .. N
    BY <1>1
  <2>2. j + (k - 1 - j) <= N => u(j) <= u(j + (k - 1 - j))
    BY <1>5 DEF T
  <2> QED BY <2>1, <2>2
<1>7. u(k) = u(k - 1) + 1
  BY <1>1, <1>2
<1>8. u(j) \in Nat /\ u(k - 1) \in Nat /\ u(k) \in Nat
  BY <1>1, <1>2, <1>6
<1> QED BY <1>6, <1>7, <1>8 DEF u

Parts == Names \cup {"scope", "type", "component", "upscope", "attribute", "subtype", "end", "unknown", "variable", "direction"} \cup Nat
Tags == {"scope", "upscope", "attribute", "end", "unknown", "variable"}

\* A written entry begins with its tag, and is as long as that says.
LEMMA EntryIs ==
  ASSUME NEW e \in File!Entries
  PROVE  /\ e.tag \in Tags /\ File!SizeOf(e.tag) \in Nat \ {0}
         /\ File!WrittenEntry(e) \in Seq(Parts) /\ Len(File!WrittenEntry(e)) = File!SizeOf(e.tag) /\ File!WrittenEntry(e)[1] = e.tag
         /\ e.tag = "scope" => e.name \in Names /\ File!WrittenEntry(e)[3] = e.name
         /\ e.tag = "variable" => e.name \in Names /\ e.alias \in 0 .. 1 /\ File!WrittenEntry(e)[3] = e.name /\ File!WrittenEntry(e)[5] = e.alias
<1>1. CASE e \in [tag : {"scope"}, name : Names]
  <2>1. e.tag = "scope" /\ e.name \in Names /\ File!WrittenEntry(e) = <<"scope", "type", e.name, "component">> /\ File!SizeOf(e.tag) = 4
    BY <1>1 DEF File!WrittenEntry, File!SizeOf
  <2> QED BY <2>1 DEF Parts, Tags
<1>2. CASE e = [tag |-> "upscope"]
  <2>1. e.tag = "upscope" /\ File!WrittenEntry(e) = <<"upscope">> /\ File!SizeOf(e.tag) = 1
    BY <1>2 DEF File!WrittenEntry, File!SizeOf
  <2> QED BY <2>1 DEF Parts, Tags
<1>3. CASE e = [tag |-> "attribute"]
  <2>1. e.tag = "attribute" /\ File!WrittenEntry(e) = <<"attribute", "type", "subtype", "upscope", 0>> /\ File!SizeOf(e.tag) = 5
    BY <1>3 DEF File!WrittenEntry, File!SizeOf
  <2> QED BY <2>1 DEF Parts, Tags
<1>4. CASE e = [tag |-> "end"]
  <2>1. e.tag = "end" /\ File!WrittenEntry(e) = <<"end">> /\ File!SizeOf(e.tag) = 1
    BY <1>4 DEF File!WrittenEntry, File!SizeOf
  <2> QED BY <2>1 DEF Parts, Tags
<1>5. CASE e \in [tag : {"variable"}, name : Names, alias : 0 .. 1]
  <2>1. e.tag = "variable" /\ e.name \in Names /\ e.alias \in 0 .. 1 /\ File!SizeOf(e.tag) = 5
        /\ File!WrittenEntry(e) = <<"variable", "direction", e.name, 8, e.alias>>
    BY <1>5 DEF File!WrittenEntry, File!SizeOf
  <2> QED BY <2>1 DEF Parts, Tags
<1>6. CASE e = [tag |-> "unknown"]
  <2>1. e.tag = "unknown" /\ File!WrittenEntry(e) = <<"unknown">> /\ File!SizeOf(e.tag) = 1
    BY <1>6 DEF File!WrittenEntry, File!SizeOf
  <2> QED BY <2>1 DEF Parts, Tags
<1> QED BY <1>1, <1>2, <1>3, <1>4, <1>5, <1>6 DEF File!Entries

\* The reader of names is the function its recursion defines.
LEMMA NamesWalk ==
  ASSUME NEW section, NEW widths, Len(section) \in Nat
  PROVE  \E f : f[0] = File!NoNames /\ (\A n \in 1 .. Len(section) : f[n] = File!NextName(section, widths, f[n - 1])) /\ File!NamesOf(section, widths) = f[Len(section)]
<1> DEFINE L == Len(section)
           Fn(f) == [n \in 0 .. L |-> IF n = 0 THEN File!NoNames ELSE File!NextName(section, widths, f[n - 1])]
           after == CHOOSE f : f = Fn(f)
<1>1. File!NamesOf(section, widths) = after[L]
  BY DEF File!NamesOf
<1>2. \A x, n : NextOf("name", widths, section, x, n) = File!NextName(section, widths, x)
  BY DEF NextOf
<1>3. \A f : Stepwise(f, "name", widths, section, File!NoNames, L) <=> f = Fn(f)
  BY <1>2 DEF Stepwise
<1> HIDE DEF Fn
<1>4. \E f : f = Fn(f)
  BY <1>3, StepwiseExists
<1>5. after = Fn(after)
  BY <1>4, Zenon
<1> HIDE DEF after
<1>6. after[0] = File!NoNames /\ \A n \in 1 .. L : after[n] = NextOf("name", widths, section, after[n - 1], n)
  <2>1. Stepwise(after, "name", widths, section, File!NoNames, L)
    BY <1>3, <1>5
  <2> QED BY <2>1, StepwiseIs
<1> QED BY <1>1, <1>2, <1>6

\* The scopes open after an entry.
OpensStep(x, e) == CASE e.tag = "scope" -> Append(x, e.name) [] e.tag = "upscope" -> Front(x) [] OTHER -> x
\* The count of open scopes is the function its recursion defines.
LEMMA OpensWalk ==
  ASSUME NEW entries, Len(entries) \in Nat
  PROVE  File!Opens(entries)[0] = <<>> /\ \A k \in 1 .. Len(entries) : File!Opens(entries)[k] = OpensStep(File!Opens(entries)[k - 1], entries[k])
<1> DEFINE L == Len(entries)
           Fn(f) == [k \in 0 .. L |-> IF k = 0 THEN <<>>
                      ELSE CASE entries[k].tag = "scope" -> Append(f[k - 1], entries[k].name)
                             [] entries[k].tag = "upscope" -> Front(f[k - 1])
                             [] OTHER -> f[k - 1]]
           opens == CHOOSE f : f = Fn(f)
<1>1. File!Opens(entries) = opens
  BY DEF File!Opens
<1>2. \A x, n : NextOf("opens", 0, entries, x, n) = OpensStep(x, entries[n])
  BY DEF NextOf, OpensStep
<1>a. \A f : Fn(f) = [k \in 0 .. L |-> IF k = 0 THEN <<>> ELSE OpensStep(f[k - 1], entries[k])]
  BY DEF OpensStep
<1>3. \A f : Stepwise(f, "opens", 0, entries, <<>>, L) <=> f = Fn(f)
  <2> HIDE DEF Fn
  <2> QED BY <1>2, <1>a DEF Stepwise
<1> HIDE DEF Fn
<1>4. \E f : f = Fn(f)
  BY <1>3, StepwiseExists
<1>5. opens = Fn(opens)
  BY <1>4, Zenon
<1> HIDE DEF opens
<1>6. opens[0] = <<>> /\ \A n \in 1 .. L : opens[n] = NextOf("opens", 0, entries, opens[n - 1], n)
  <2> DEFINE empty == <<>>
  <2>1. Stepwise(opens, "opens", 0, entries, empty, L)
    BY <1>3, <1>5
  <2> HIDE DEF empty
  <2>2. opens[0] = empty /\ \A n \in 1 .. L : opens[n] = NextOf("opens", 0, entries, opens[n - 1], n)
    BY <2>1, StepwiseIs
  <2> QED BY <2>2 DEF empty
<1> QED BY <1>1, <1>2, <1>6

IsNew(e) == e.tag = "variable" /\ e.alias = 0
HandleOf(e, handles) == IF e.alias = 0 THEN handles + 1 ELSE e.alias
Refuses(e, widths, scopes, handles) ==
  (e.tag = "upscope" /\ scopes = <<>>) \/ e.tag = "unknown" \/ (e.tag = "variable" /\ ~(HandleOf(e, handles) <= widths))
TakesEntry(section, widths, at, scopes, handles, names, e) ==
  /\ Refuses(e, widths, scopes, handles) =>
       File!NextName(section, widths, [at |-> at, scopes |-> scopes, handles |-> handles, names |-> names, refused |-> FALSE]).refused
  /\ ~Refuses(e, widths, scopes, handles) =>
       File!NextName(section, widths, [at |-> at, scopes |-> scopes, handles |-> handles, names |-> names, refused |-> FALSE])
       = [at |-> at + File!SizeOf(e.tag), scopes |-> OpensStep(scopes, e),
          handles |-> IF IsNew(e) THEN handles + 1 ELSE handles,
          names |-> IF e.tag = "variable" THEN Append(names, [path |-> Append(scopes, e.name), handle |-> HandleOf(e, handles)])
                    ELSE names,
          refused |-> FALSE]

\* One step of the reader of names, at any of the entries.
LEMMA EntryStep ==
  ASSUME NEW e \in File!Entries, NEW section \in Seq(Parts), NEW at \in Nat \ {0}, NEW chunk, chunk = File!WrittenEntry(e), At(section, at, chunk),
         NEW widths \in Nat, NEW scopes, NEW handles \in Nat, NEW names
  PROVE  TakesEntry(section, widths, at, scopes, handles, names, e)
<1> DEFINE r == [at |-> at, scopes |-> scopes, handles |-> handles, names |-> names, refused |-> FALSE]
           size == File!SizeOf(e.tag)
           there == at + size
<1>1. /\ e.tag \in Tags /\ Len(chunk) = size /\ size \in Nat \ {0} /\ chunk[1] = e.tag
      /\ e.tag = "scope" => chunk[3] = e.name
      /\ e.tag = "variable" => chunk[3] = e.name /\ chunk[5] = e.alias
  BY EntryIs
<1>2. Len(section) \in Nat /\ at + size - 1 <= Len(section) /\ \A i \in 1 .. size : section[at + i - 1] = chunk[i]
  BY <1>1 DEF At
<1>3. ~(at > Len(section))
  BY <1>1, <1>2
<1>4. section[at] = e.tag
  <2>1. section[at + 1 - 1] = chunk[1] /\ at + 1 - 1 = at
    BY <1>1, <1>2
  <2> QED BY <1>1, <2>1
<1>5. e.tag = "scope" \/ e.tag = "variable" => section[at + 2] = e.name
  <2> SUFFICES ASSUME e.tag = "scope" \/ e.tag = "variable" PROVE section[at + 2] = e.name
    OBVIOUS
  <2>1. size \in {4, 5}
    BY DEF File!SizeOf
  <2>2. 3 \in 1 .. size /\ at + 3 - 1 = at + 2
    BY <2>1
  <2>3. section[at + 2] = chunk[3]
    BY <1>2, <2>2
  <2> QED BY <1>1, <2>3
<1>6. e.tag = "variable" => section[at + 4] = e.alias
  <2> SUFFICES ASSUME e.tag = "variable" PROVE section[at + 4] = e.alias
    OBVIOUS
  <2>1. size = 5
    BY DEF File!SizeOf
  <2>2. 5 \in 1 .. size /\ at + 5 - 1 = at + 4
    BY <2>1
  <2>3. section[at + 4] = chunk[5]
    BY <1>2, <2>2
  <2> QED BY <1>1, <2>3
<1>7. r.at = at /\ r.scopes = scopes /\ r.handles = handles /\ r.names = names /\ r.refused = FALSE
  OBVIOUS
<1> DEFINE nr == File!NextName(section, widths, r)
           tag == section[at]
           name == section[at + 2]
           alias == section[at + 4]
           handle == IF alias = 0 THEN handles + 1 ELSE alias
<1>9. nr = CASE tag = "scope" -> [[r EXCEPT !.at = @ + File!SizeOf(tag)] EXCEPT !.scopes = Append(@, name)]
             [] tag = "upscope" -> IF scopes = <<>> THEN [r EXCEPT !.refused = TRUE] ELSE [[r EXCEPT !.at = @ + File!SizeOf(tag)] EXCEPT !.scopes = Front(@)]
             [] tag = "variable" /\ handle <= widths -> [[r EXCEPT !.at = @ + File!SizeOf(tag)] EXCEPT !.handles = IF alias = 0 THEN handle ELSE @,
                                      !.names = Append(@, [path |-> Append(scopes, name), handle |-> handle])]
             [] tag = "variable" /\ handle > widths -> [r EXCEPT !.refused = TRUE]
             [] tag = "unknown" -> [r EXCEPT !.refused = TRUE]
             [] OTHER -> [r EXCEPT !.at = @ + File!SizeOf(tag)]
  <2> HIDE DEF r
  <2> QED BY <1>3, <1>7, SameFront DEF File!NextName
<1>10. CASE e.tag = "scope"
  <2>1. nr = [[r EXCEPT !.at = @ + File!SizeOf(tag)] EXCEPT !.scopes = Append(@, name)]
    BY <1>4, <1>9, <1>10
  <2>2. nr = [at |-> there, scopes |-> Append(scopes, e.name), handles |-> handles, names |-> names, refused |-> FALSE]
    BY <1>4, <1>5, <1>10, <2>1
  <2> HIDE DEF nr, there
  <2> QED BY <1>10, <2>2 DEF nr, there, TakesEntry, Refuses, OpensStep, IsNew
<1>11. CASE e.tag = "upscope" /\ scopes = <<>>
  <2>1. nr = [r EXCEPT !.refused = TRUE]
    BY <1>4, <1>9, <1>11
  <2>2. nr.refused
    BY <2>1
  <2> HIDE DEF nr
  <2> QED BY <1>11, <2>2 DEF nr, TakesEntry, Refuses
<1>12. CASE e.tag = "upscope" /\ scopes # <<>>
  <2>1. nr = [[r EXCEPT !.at = @ + File!SizeOf(tag)] EXCEPT !.scopes = Front(@)]
    BY <1>4, <1>9, <1>12
  <2>2. nr = [at |-> there, scopes |-> Front(scopes), handles |-> handles, names |-> names, refused |-> FALSE]
    BY <1>4, <2>1
  <2> HIDE DEF nr, there
  <2> QED BY <1>12, <2>2 DEF nr, there, TakesEntry, Refuses, OpensStep, IsNew
<1>8. e.tag = "variable" => handle = HandleOf(e, handles) /\ handle \in Nat
  BY <1>6, EntryIs DEF HandleOf
<1>13. CASE e.tag = "variable" /\ HandleOf(e, handles) <= widths
  <2>1. nr = [[r EXCEPT !.at = @ + File!SizeOf(tag)] EXCEPT !.handles = IF alias = 0 THEN handle ELSE @,
                                      !.names = Append(@, [path |-> Append(scopes, name), handle |-> handle])]
    BY <1>4, <1>8, <1>9, <1>13
  <2>2. nr = [at |-> there, scopes |-> scopes, handles |-> IF alias = 0 THEN handle ELSE handles,
              names |-> Append(names, [path |-> Append(scopes, name), handle |-> handle]), refused |-> FALSE]
    BY <1>4, <2>1
  <2>3. nr = [at |-> there, scopes |-> scopes, handles |-> IF e.alias = 0 THEN handles + 1 ELSE handles,
              names |-> Append(names, [path |-> Append(scopes, e.name), handle |-> HandleOf(e, handles)]), refused |-> FALSE]
    BY <1>5, <1>6, <1>13, <2>2 DEF HandleOf
  <2> HIDE DEF nr, there
  <2> QED BY <1>13, <2>3 DEF nr, there, TakesEntry, Refuses, OpensStep, IsNew
<1>15. CASE e.tag = "unknown" \/ (e.tag = "variable" /\ ~(HandleOf(e, handles) <= widths))
  <2>1. nr = [r EXCEPT !.refused = TRUE]
    <3>1. CASE e.tag = "unknown"
      BY <1>4, <1>9, <3>1
    <3>2. CASE e.tag = "variable" /\ ~(HandleOf(e, handles) <= widths)
      <4>1. handle > widths /\ ~(handle <= widths)
        BY <1>8, <3>2
      <4> QED BY <1>4, <1>9, <3>2, <4>1
    <3> QED BY <1>15, <3>1, <3>2
  <2>2. nr.refused
    BY <2>1
  <2> HIDE DEF nr
  <2> QED BY <1>15, <2>2 DEF nr, TakesEntry, Refuses
<1>14. CASE e.tag \notin {"scope", "upscope", "unknown", "variable"}
  <2>1. nr = [r EXCEPT !.at = @ + File!SizeOf(tag)]
    BY <1>4, <1>9, <1>14
  <2>2. nr = [at |-> there, scopes |-> scopes, handles |-> handles, names |-> names, refused |-> FALSE]
    BY <1>4, <2>1
  <2> HIDE DEF nr, there
  <2> QED BY <1>14, <2>2 DEF nr, there, TakesEntry, Refuses, OpensStep, IsNew
<1> QED BY <1>10, <1>11, <1>12, <1>13, <1>14, <1>15

\* Up to an entry, no scope was closed that was not open.
BalancedUpTo(entries, n) == \A k \in 1 .. n : File!UpTo(File!Tagged(entries, "upscope"), k) <= File!UpTo(File!Tagged(entries, "scope"), k)

\* Every entry up to one is of a known type and has its width.
KnownUpTo(entries, widths, n) ==
  \A k \in 1 .. n : entries[k].tag # "unknown" /\ (entries[k].tag = "variable" => File!HandleAt(entries, k) <= widths)

\* As many scopes are open as were opened and not closed.
LEMMA OpensAre ==
  ASSUME NEW entries \in Seq(File!Entries), NEW n \in 0 .. Len(entries), BalancedUpTo(entries, n)
  PROVE  /\ File!Opens(entries)[n] \in Seq(Names)
         /\ Len(File!Opens(entries)[n]) = File!UpTo(File!Tagged(entries, "scope"), n) - File!UpTo(File!Tagged(entries, "upscope"), n)
<1> DEFINE N == Len(entries)
           o(k) == File!Opens(entries)[k]
           up == File!Tagged(entries, "upscope")
           sc == File!Tagged(entries, "scope")
           T == {k \in Nat : k <= n => o(k) \in Seq(Names) /\ Len(o(k)) = File!UpTo(sc, k) - File!UpTo(up, k)}
<1>1. N \in Nat /\ DOMAIN entries = 1 .. N /\ \A k \in 1 .. N : entries[k] \in File!Entries
  OBVIOUS
<1>2. o(0) = <<>> /\ \A k \in 1 .. N : o(k) = OpensStep(o(k - 1), entries[k])
  BY <1>1, OpensWalk
<1>3. up \subseteq 1 .. N /\ sc \subseteq 1 .. N /\ \A k \in 1 .. N : (k \in up <=> entries[k].tag = "upscope") /\ (k \in sc <=> entries[k].tag = "scope")
  BY <1>1 DEF File!Tagged
<1>4. \A k \in 1 .. n : File!UpTo(up, k) <= File!UpTo(sc, k)
  BY DEF BalancedUpTo
<1> HIDE DEF up, sc, o
<1>5. /\ File!UpTo(up, 0) = 0 /\ \A k \in 0 .. N : File!UpTo(up, k) \in Nat
      /\ \A k \in 1 .. N : File!UpTo(up, k) = File!UpTo(up, k - 1) + (IF k \in up THEN 1 ELSE 0)
  <2> HIDE DEF N
  <2> QED BY <1>1, <1>3, UpToGrows
<1>6. /\ File!UpTo(sc, 0) = 0 /\ \A k \in 0 .. N : File!UpTo(sc, k) \in Nat
      /\ \A k \in 1 .. N : File!UpTo(sc, k) = File!UpTo(sc, k - 1) + (IF k \in sc THEN 1 ELSE 0)
  <2> HIDE DEF N
  <2> QED BY <1>1, <1>3, UpToGrows
<1>7. 0 \in T
  <2>1. o(0) \in Seq(Names) /\ Len(o(0)) = 0
    <3>1. o(0) = <<>>
      BY <1>2, Zenon
    <3>2. \A x : x = <<>> => x \in Seq(Names) /\ Len(x) = 0
      OBVIOUS
    <3> QED BY <3>1, <3>2
  <2>2. File!UpTo(sc, 0) - File!UpTo(up, 0) = 0
    BY <1>5, <1>6
  <2> QED BY <2>1, <2>2
<1>8. ASSUME NEW i \in Nat, i \in T PROVE i + 1 \in T
  <2> SUFFICES ASSUME i + 1 <= n PROVE o(i + 1) \in Seq(Names) /\ Len(o(i + 1)) = File!UpTo(sc, i + 1) - File!UpTo(up, i + 1)
    OBVIOUS
  <2> DEFINE k == i + 1
             e == entries[k]
             a == File!UpTo(sc, i)
             b == File!UpTo(up, i)
             x == o(i)
  <2>1. k \in 1 .. N /\ k \in 1 .. n /\ k - 1 = i /\ i \in 0 .. N /\ k \in 0 .. N /\ i <= n
    BY <1>1
  <2>2. x \in Seq(Names) /\ Len(x) = a - b
    BY <1>8, <2>1
  <2>3. a \in Nat /\ b \in Nat /\ File!UpTo(up, k) <= File!UpTo(sc, k) /\ e \in File!Entries
    BY <1>1, <1>4, <1>5, <1>6, <2>1
  <2> HIDE DEF k, N
  <2>4. File!UpTo(up, k) = b + (IF e.tag = "upscope" THEN 1 ELSE 0)
    BY <1>3, <1>5, <2>1, Zenon
  <2>5. File!UpTo(sc, k) = a + (IF e.tag = "scope" THEN 1 ELSE 0)
    BY <1>3, <1>6, <2>1, Zenon
  <2>6. o(k) = OpensStep(x, e)
    BY <1>2, <2>1, Zenon
  <2>7. e.tag \in Tags /\ (e.tag = "scope" => e.name \in Names)
    BY <2>3, EntryIs
  <2> HIDE DEF e, a, b, x
  <2>8. o(k) \in Seq(Names) /\ Len(o(k)) = File!UpTo(sc, k) - File!UpTo(up, k)
    <3>1. CASE e.tag = "scope"
      <4>1. o(k) = Append(x, e.name)
        BY <2>6, <3>1 DEF OpensStep
      <4>2. o(k) \in Seq(Names) /\ Len(o(k)) = Len(x) + 1
        BY <2>2, <2>7, <3>1, <4>1
      <4>3. File!UpTo(sc, k) = a + 1 /\ File!UpTo(up, k) = b
        BY <2>3, <2>4, <2>5, <3>1
      <4> QED BY <2>2, <2>3, <4>2, <4>3
    <3>2. CASE e.tag = "upscope"
      <4>1. o(k) = Front(x)
        BY <2>6, <3>2 DEF OpensStep
      <4>2. File!UpTo(sc, k) = a /\ File!UpTo(up, k) = b + 1
        BY <2>3, <2>4, <2>5, <3>2
      <4>3. Len(x) >= 1 /\ Len(x) - 1 = a - (b + 1)
        BY <2>2, <2>3, <4>2
      <4>4. o(k) \in Seq(Names) /\ Len(o(k)) = Len(x) - 1
        BY <2>2, <4>1, <4>3 DEF Front
      <4> QED BY <4>2, <4>3, <4>4
    <3>3. CASE e.tag # "scope" /\ e.tag # "upscope"
      <4>1. o(k) = x
        BY <2>6, <3>3 DEF OpensStep
      <4>2. File!UpTo(sc, k) = a /\ File!UpTo(up, k) = b
        BY <2>3, <2>4, <2>5, <3>3
      <4> QED BY <2>2, <4>1, <4>2
    <3> QED BY <3>1, <3>2, <3>3
  <2> QED BY <2>8 DEF k
<1> HIDE DEF T
<1>9. n \in T
  <2>1. n \in Nat
    BY <1>1
  <2> QED BY <1>7, <1>8, <2>1, SetInduction
<1> QED BY <1>9 DEF T, o, up, sc

\* The names meant are those of the variables, in their order.
LEMMA MeantAre ==
  ASSUME NEW entries \in Seq(File!Entries), NEW variables, variables = File!Tagged(entries, "variable")
  PROVE  /\ Len(File!MeantNames(entries)) = Cardinality(variables) /\ Cardinality(variables) \in Nat
         /\ \E Q : File!MeantNames(entries) \in Seq(Q)
         /\ \A k \in variables : /\ File!UpTo(variables, k) \in 1 .. Cardinality(variables)
                                 /\ File!MeantNames(entries)[File!UpTo(variables, k)] = File!NameAt(entries, k)
<1> DEFINE N == Len(entries)
           C == Cardinality(variables)
           u(k) == File!UpTo(variables, k)
           place(i) == CHOOSE k \in variables : u(k) = i
           all == [i \in 1 .. C |-> File!NameAt(entries, place(i))]
<1>1. N \in Nat /\ variables \subseteq 1 .. N
  BY DEF File!Tagged
<1>2. File!MeantNames(entries) = all
  <2>1. File!Cardinality(variables) = Cardinality(variables)
    BY SameCardinality
  <2> QED BY <2>1 DEF File!MeantNames
<1>3. /\ u(0) = 0 /\ u(N) = C /\ \A k \in 0 .. N : u(k) \in Nat
      /\ \A k \in 1 .. N : u(k) = u(k - 1) + (IF k \in variables THEN 1 ELSE 0)
  <2> HIDE DEF N
  <2> QED BY <1>1, UpToGrows
<1>4. C \in Nat
  BY <1>1, <1>3
<1>5. \A j \in 0 .. N : \A k \in variables : j < k => u(j) < u(k)
  <2> HIDE DEF N
  <2> QED BY <1>1, UpToOrders
<1>6. ASSUME NEW k \in variables PROVE u(k) \in 1 .. C
  <2>1. k \in 1 .. N /\ k \in 0 .. N /\ 0 \in 0 .. N /\ 0 < k /\ N \in 0 .. N
    BY <1>1
  <2>2. u(k) > 0 /\ u(k) \in Nat
    <3>1. u(0) < u(k)
      BY <1>5, <2>1
    <3>2. u(k) \in Nat
      BY <1>3, <2>1
    <3> HIDE DEF u
    <3> QED BY <1>3, <3>1, <3>2
  <2>3. u(k) <= C
    <3> DEFINE T == {n \in Nat : k + n <= N => u(k) <= u(k + n)}
    <3> HIDE DEF u
    <3>1. 0 \in T
      BY <2>1, <2>2
    <3>2. ASSUME NEW n \in Nat, n \in T PROVE n + 1 \in T
      <4> SUFFICES ASSUME k + (n + 1) <= N PROVE u(k) <= u(k + (n + 1))
        OBVIOUS
      <4> DEFINE i == k + (n + 1)
      <4>1. i \in 1 .. N /\ i - 1 = k + n /\ k + n \in 0 .. N /\ u(k) <= u(k + n)
        BY <3>2, <2>1
      <4> HIDE DEF i
      <4>2. u(i) = u(k + n) + (IF i \in variables THEN 1 ELSE 0)
        BY <1>3, <4>1, Zenon
      <4>3. u(k) \in Nat /\ u(k + n) \in Nat
        BY <1>3, <2>1, <4>1
      <4> QED BY <4>1, <4>2, <4>3 DEF i
    <3> HIDE DEF T
    <3>3. N - k \in Nat /\ k + (N - k) = N
      BY <1>1, <2>1
    <3>4. N - k \in T
      BY <3>1, <3>2, <3>3, SetInduction
    <3>5. k + (N - k) <= N => u(k) <= u(k + (N - k))
      BY <3>4 DEF T
    <3> QED BY <1>1, <1>3, <3>3, <3>5
  <2> HIDE DEF u, C
  <2> QED BY <1>4, <2>2, <2>3
<1>7. ASSUME NEW k \in variables PROVE place(u(k)) = k
  <2> DEFINE p == place(u(k))
  <2>1. p \in variables /\ u(p) = u(k)
    <3>1. \E j \in variables : u(j) = u(k)
      OBVIOUS
    <3> HIDE DEF u
    <3> QED BY <3>1, Zenon
  <2> HIDE DEF p
  <2>2. p \in 0 .. N /\ k \in 0 .. N /\ p \in Int /\ k \in Int
    BY <1>1, <2>1
  <2>3. (p < k => u(p) < u(k)) /\ (k < p => u(k) < u(p))
    BY <1>5, <2>1, <2>2
  <2>4. u(p) \in Nat /\ u(k) \in Nat
    BY <1>3, <2>2
  <2> HIDE DEF u
  <2>5. ~(p < k) /\ ~(k < p)
    BY <2>1, <2>3, <2>4
  <2>6. p = k
    BY <2>2, <2>5
  <2> QED BY <2>6 DEF p, u
<1>8. ASSUME NEW k \in variables PROVE all[u(k)] = File!NameAt(entries, k)
  <2> HIDE DEF C, u, place
  <2>1. all[u(k)] = File!NameAt(entries, place(u(k)))
    BY <1>6
  <2> QED BY <1>7, <2>1
<1> HIDE DEF place
<1>9. Len(all) = C /\ all \in Seq({all[i] : i \in 1 .. C})
  <2> DEFINE Q == {all[i] : i \in 1 .. C}
  <2>1. DOMAIN all = 1 .. C /\ all = [i \in 1 .. C |-> all[i]] /\ \A i \in 1 .. C : all[i] \in Q
    OBVIOUS
  <2> HIDE DEF all, C, Q
  <2>2. all \in [1 .. C -> Q]
    BY <2>1, Zenon
  <2>3. Len(all) = C /\ all \in Seq(Q)
    BY <1>4, <2>1, <2>2
  <2> QED BY <2>3 DEF Q
<1> QED BY <1>2, <1>4, <1>6, <1>8, <1>9 DEF u

\* The names are read as they were meant, or refused.
LEMMA NamesRead ==
  ASSUME NEW entries \in Seq(File!Entries), NEW widths \in Nat
  PROVE  File!ReadNames(File!WrittenNames(entries), widths)
         = IF File!Balanced(entries) /\ File!Tagged(entries, "unknown") = {} /\ File!HaveWidths(entries, widths)
           THEN File!Gives(File!MeantNames(entries)) ELSE File!Refused
<1> DEFINE N == Len(entries)
           chunk(k) == File!WrittenEntry(entries[k])
           seqs == [k \in DOMAIN entries |-> chunk(k)]
           section == File!WrittenNames(entries)
           L == Len(section)
           variables == File!Tagged(entries, "variable")
           new == File!New(entries)
           all == File!MeantNames(entries)
           o(k) == File!Opens(entries)[k]
           v(k) == File!UpTo(variables, k)
           h(k) == File!UpTo(new, k)
           B(n) == BalancedUpTo(entries, n) /\ KnownUpTo(entries, widths, n)
<1>1. N \in Nat /\ DOMAIN entries = 1 .. N /\ \A k \in 1 .. N : entries[k] \in File!Entries
  OBVIOUS
<1>2. \A k \in 1 .. N : /\ seqs[k] = chunk(k) /\ chunk(k) \in Seq(Parts)
                        /\ Len(chunk(k)) = File!SizeOf(entries[k].tag) /\ File!SizeOf(entries[k].tag) \in Nat \ {0}
  BY <1>1, EntryIs
<1>3. seqs \in Seq(Seq(Parts)) /\ Len(seqs) = N /\ section = FlattenSeq(seqs)
  <2>1. section = FlattenSeq(seqs)
    BY SameFlattenSeq, Zenon DEF File!WrittenNames
  <2> DEFINE Q == Seq(Parts)
  <2>2. DOMAIN seqs = 1 .. N /\ \A k \in 1 .. N : seqs[k] \in Q
    BY <1>1, <1>2
  <2>3. seqs = [k \in 1 .. N |-> seqs[k]]
    BY <1>1
  <2> HIDE DEF Q, chunk, section, seqs, N
  <2>4. seqs \in Seq(Q) /\ Len(seqs) = N
    BY <1>1, <2>2, <2>3
  <2> QED BY <2>1, <2>4 DEF Q
<1>4. section \in Seq(Parts) /\ L \in Nat /\ Len(section) = L
  <2>1. section \in Seq(Parts)
    <3> HIDE DEF seqs, section
    <3> QED BY <1>3, FlattenInSeq
  <2> HIDE DEF section
  <2> QED BY <2>1
<1>5. variables \subseteq 1 .. N /\ new \subseteq 1 .. N
      /\ \A k \in 1 .. N : (k \in variables <=> entries[k].tag = "variable") /\ (k \in new <=> IsNew(entries[k]))
  BY <1>1 DEF File!Tagged, File!New, IsNew
<1>6. /\ all \in Seq({all[i] : i \in 1 .. Len(all)}) /\ Len(all) = Cardinality(variables)
      /\ \A k \in variables : v(k) \in 1 .. Len(all) /\ all[v(k)] = File!NameAt(entries, k)
  <2>1. Len(all) = Cardinality(variables) /\ (\E Q : all \in Seq(Q)) /\ \A k \in variables : v(k) \in 1 .. Cardinality(variables) /\ all[v(k)] = File!NameAt(entries, k)
    BY MeantAre
  <2> HIDE DEF all, v
  <2>2. PICK Q : all \in Seq(Q)
    BY <2>1
  <2>3. all \in Seq({all[i] : i \in 1 .. Len(all)})
    <3> DEFINE R == {all[i] : i \in 1 .. Len(all)}
    <3>1. Len(all) \in Nat /\ all \in [1 .. Len(all) -> Q]
      BY <2>2
    <3>2. all \in [1 .. Len(all) -> R]
      BY <3>1
    <3> HIDE DEF R
    <3>3. all \in Seq(R)
      BY <3>1, <3>2
    <3> QED BY <3>3 DEF R
  <2> QED BY <2>1, <2>3
<1> HIDE DEF seqs, section, chunk, o, variables, new, all
<1>7. PICK start : Laid(start, section, seqs)
  BY <1>3, FlattenPlaces
<1>8. start \in [0 .. N -> Nat] /\ start[0] = 0 /\ start[N] = L
  BY <1>3, <1>7 DEF Laid
<1>9. \A n \in 1 .. N : start[n] = start[n - 1] + Len(chunk(n)) /\ start[n] <= L
  BY <1>2, <1>3, <1>7, Zenon DEF Laid
<1>10. \A n \in 1 .. N : \A j \in 1 .. Len(chunk(n)) : section[start[n - 1] + j] = chunk(n)[j]
  <2>1. \A n \in 1 .. N : \A j \in 1 .. Len(seqs[n]) : section[start[n - 1] + j] = seqs[n][j]
    BY <1>3, <1>7, Zenon DEF Laid
  <2>2. \A n \in 1 .. N : seqs[n] = chunk(n)
    BY <1>2
  <2> QED BY <2>1, <2>2, Zenon
<1>11. PICK f : f[0] = File!NoNames /\ (\A n \in 1 .. L : f[n] = File!NextName(section, widths, f[n - 1])) /\ File!NamesOf(section, widths) = f[L]
  BY <1>4, NamesWalk
<1>12. o(0) = <<>> /\ \A k \in 1 .. N : o(k) = OpensStep(o(k - 1), entries[k])
  BY <1>1, OpensWalk DEF o
<1>13. /\ v(0) = 0 /\ v(N) = Len(all) /\ \A k \in 0 .. N : v(k) \in Nat
       /\ \A k \in 1 .. N : v(k) = v(k - 1) + (IF k \in variables THEN 1 ELSE 0)
  <2>1. /\ v(0) = 0 /\ v(N) = Cardinality(variables) /\ \A k \in 0 .. N : v(k) \in Nat
        /\ \A k \in 1 .. N : v(k) = v(k - 1) + (IF k \in variables THEN 1 ELSE 0)
    <3> HIDE DEF N
    <3> QED BY <1>1, <1>5, UpToGrows
  <2> QED BY <1>6, <2>1
<1>14. h(0) = 0 /\ \A k \in 1 .. N : h(k) = h(k - 1) + (IF k \in new THEN 1 ELSE 0)
  <2> HIDE DEF N
  <2> QED BY <1>1, <1>5, UpToGrows
<1>15. \A k \in 0 .. N : h(k) \in Nat
  <2> HIDE DEF N
  <2> QED BY <1>1, <1>5, UpToGrows
<1> HIDE DEF v, h, N, L
<1> DEFINE State(n) == [at |-> start[n] + 1, scopes |-> o(n), handles |-> h(n), names |-> SubSeq(all, 1, v(n)), refused |-> FALSE]
<1>16. State(0) = File!NoNames
  <2>1. SubSeq(all, 1, v(0)) = <<>>
    <3>1. SubSeq(all, 1, 0) = <<>>
      BY <1>6
    <3> QED BY <1>13, <3>1
  <2>2. start[0] + 1 = 1
    BY <1>8
  <2> QED BY <1>12, <1>14, <2>1, <2>2, Zenon DEF File!NoNames
<1>17. \A n \in 0 .. N : \A k \in 0 .. n : B(n) => B(k)
  <2> SUFFICES ASSUME NEW n \in 0 .. N, NEW k \in 0 .. n, B(n) PROVE B(k)
    OBVIOUS
  <2>1. \A i \in 1 .. k : i \in 1 .. n
    BY <1>1
  <2> QED BY <2>1 DEF BalancedUpTo, KnownUpTo
<1>18. \A n \in 0 .. N : B(n) => o(n) \in Seq(Names) /\ Len(o(n)) = File!UpTo(File!Tagged(entries, "scope"), n) - File!UpTo(File!Tagged(entries, "upscope"), n)
  BY OpensAre DEF o, N
<1>19. ASSUME NEW n \in Nat, NEW k, k = n + 1, k \in 1 .. N, B(n)
       PROVE  /\ B(k) => File!NextName(section, widths, State(n)) = State(k)
              /\ ~B(k) => File!NextName(section, widths, State(n)).refused
              /\ start[n] < start[k]
  <2> DEFINE e == entries[k]
             c == chunk(k)
             at == start[n] + 1
             x == o(n)
             names == SubSeq(all, 1, v(n))
             size == File!SizeOf(e.tag)
             a == File!UpTo(File!Tagged(entries, "scope"), n)
             b == File!UpTo(File!Tagged(entries, "upscope"), n)
             ak == File!UpTo(File!Tagged(entries, "scope"), k)
             bk == File!UpTo(File!Tagged(entries, "upscope"), k)
  <2>1. k - 1 = n /\ n \in 0 .. N /\ k \in 0 .. N /\ start[n] \in Nat /\ start[k] \in Nat /\ at \in Nat \ {0}
    BY <1>1, <1>8, <1>19
  <2>2. start[k] = start[n] + Len(c) /\ start[k] <= L
    BY <1>9, <1>19, <2>1, Zenon
  <2>3. \A j \in 1 .. Len(c) : section[start[n] + j] = c[j]
    BY <1>10, <1>19, <2>1, Zenon
  <2>4. e \in File!Entries /\ Len(c) = size /\ size \in Nat \ {0} /\ c = File!WrittenEntry(e) /\ e.tag \in Tags
    <3>1. e \in File!Entries /\ Len(c) = size /\ size \in Nat \ {0} /\ c = File!WrittenEntry(e)
      BY <1>1, <1>2, <1>19 DEF chunk
    <3> HIDE DEF e, c, size
    <3> QED BY <3>1, EntryIs
  <2>5. at + Len(c) - 1 <= L /\ at + size = start[k] + 1 /\ start[n] < start[k]
    <3> DEFINE y == Len(c)
               s == start[n]
               t == start[k]
    <3>1. s \in Nat /\ t \in Nat /\ y = size /\ y \in Nat \ {0} /\ t = s + y /\ t <= L
      BY <2>1, <2>2, <2>4
    <3> HIDE DEF y, s, t, size
    <3>2. (s + 1) + y - 1 <= L /\ (s + 1) + size = t + 1 /\ s < t
      BY <1>4, <3>1
    <3> QED BY <3>2 DEF y, s, t
  <2>6. At(section, at, c)
    <3>1. \A j \in 1 .. Len(c) : at + j - 1 = start[n] + j
      BY <2>1, <2>4
    <3>2. \A j \in 1 .. Len(c) : section[at + j - 1] = c[j]
      BY <2>3, <3>1
    <3> QED BY <1>4, <2>5, <3>2 DEF At
  <2>7. TakesEntry(section, widths, at, x, h(n), names, e)
    <3>1. h(n) \in Nat
      BY <1>15, <2>1
    <3> HIDE DEF e, c, x, names, at, size
    <3> QED BY <1>4, <2>1, <2>4, <2>6, <3>1, EntryStep
  <2>8. x \in Seq(Names) /\ Len(x) = a - b
    BY <1>18, <1>19, <2>1
  <2>9. /\ a \in Nat /\ ak \in Nat /\ ak = a + (IF e.tag = "scope" THEN 1 ELSE 0)
        /\ b \in Nat /\ bk \in Nat /\ bk = b + (IF e.tag = "upscope" THEN 1 ELSE 0)
    <3> DEFINE sc == File!Tagged(entries, "scope")
               up == File!Tagged(entries, "upscope")
    <3>1. up \subseteq 1 .. N /\ sc \subseteq 1 .. N /\ \A i \in 1 .. N : (i \in up <=> entries[i].tag = "upscope") /\ (i \in sc <=> entries[i].tag = "scope")
      BY <1>1 DEF File!Tagged
    <3> HIDE DEF sc, up
    <3>2. (\A i \in 0 .. N : File!UpTo(sc, i) \in Nat) /\ \A i \in 1 .. N : File!UpTo(sc, i) = File!UpTo(sc, i - 1) + (IF i \in sc THEN 1 ELSE 0)
      BY <1>1, <3>1, UpToGrows
    <3>3. (\A i \in 0 .. N : File!UpTo(up, i) \in Nat) /\ \A i \in 1 .. N : File!UpTo(up, i) = File!UpTo(up, i - 1) + (IF i \in up THEN 1 ELSE 0)
      BY <1>1, <3>1, UpToGrows
    <3>4. File!UpTo(sc, k) = File!UpTo(sc, n) + (IF e.tag = "scope" THEN 1 ELSE 0) /\ File!UpTo(sc, k) \in Nat /\ File!UpTo(sc, n) \in Nat
      BY <1>19, <2>1, <3>1, <3>2, Zenon
    <3>5. File!UpTo(up, k) = File!UpTo(up, n) + (IF e.tag = "upscope" THEN 1 ELSE 0) /\ File!UpTo(up, k) \in Nat /\ File!UpTo(up, n) \in Nat
      BY <1>19, <2>1, <3>1, <3>3, Zenon
    <3> QED BY <3>4, <3>5 DEF sc, up
  <2>0. (\A i \in 1 .. k : i \in 1 .. n \/ i = k) /\ (\A i \in 1 .. n : i \in 1 .. k) /\ k \in 1 .. k
    BY <1>19, <1>1
  <2>10. BalancedUpTo(entries, k) <=> bk <= ak
    <3>3. \A i \in 1 .. n : File!UpTo(File!Tagged(entries, "upscope"), i) <= File!UpTo(File!Tagged(entries, "scope"), i)
      BY <1>19 DEF BalancedUpTo
    <3> QED BY <2>0, <3>3, Zenon DEF BalancedUpTo
  <2>18. KnownUpTo(entries, widths, k) <=> e.tag # "unknown" /\ (e.tag = "variable" => File!HandleAt(entries, k) <= widths)
    <3>1. \A i \in 1 .. n : entries[i].tag # "unknown" /\ (entries[i].tag = "variable" => File!HandleAt(entries, i) <= widths)
      BY <1>19, Zenon DEF KnownUpTo
    <3> QED BY <2>0, <3>1, Zenon DEF KnownUpTo
  <2>11. BalancedUpTo(entries, k) <=> ~(e.tag = "upscope" /\ x = <<>>)
    <3>1. Len(x) \in Nat /\ (x = <<>> <=> Len(x) = 0)
      BY <2>8
    <3> HIDE DEF a, b, ak, bk, e, x
    <3>2. bk <= ak <=> ~(e.tag = "upscope" /\ Len(x) = 0)
      <4> DEFINE y == Len(x)
      <4>1. y \in Nat /\ y = a - b
        BY <2>8, <3>1
      <4> HIDE DEF y
      <4>2. bk <= ak <=> ~(e.tag = "upscope" /\ y = 0)
        BY <2>9, <4>1
      <4> QED BY <4>2 DEF y
    <3> HIDE DEF B
    <3> QED BY <2>10, <3>1, <3>2, Zenon
  <2>12. o(k) = OpensStep(x, e)
    BY <1>12, <1>19, <2>1, Zenon
  <2>13. h(k) = IF IsNew(e) THEN h(n) + 1 ELSE h(n)
    <3>1. h(k) = h(n) + (IF IsNew(e) THEN 1 ELSE 0) /\ h(n) \in Nat
      BY <1>5, <1>14, <1>15, <1>19, <2>1, Zenon
    <3> QED BY <3>1
  <2>19. e.tag = "variable" => File!HandleAt(entries, k) = HandleOf(e, h(n))
    <3> SUFFICES ASSUME e.tag = "variable" PROVE File!HandleAt(entries, k) = HandleOf(e, h(n))
      OBVIOUS
    <3>1. e.alias = 0 => h(k) = h(n) + 1
      BY <2>13 DEF IsNew
    <3>2. File!HandleAt(entries, k) = IF e.alias = 0 THEN h(k) ELSE e.alias
      BY DEF File!HandleAt, h, new
    <3> QED BY <3>1, <3>2 DEF HandleOf
  <2>20. B(k) <=> ~Refuses(e, widths, x, h(n))
    <3> HIDE DEF e, x, h
    <3> QED BY <2>11, <2>18, <2>19, Zenon DEF Refuses
  <2> DEFINE name == [path |-> Append(x, e.name), handle |-> HandleOf(e, h(n))]
  <2>14. SubSeq(all, 1, v(k)) = IF e.tag = "variable" THEN Append(names, name) ELSE names
    <3>1. v(k) = v(n) + (IF e.tag = "variable" THEN 1 ELSE 0) /\ v(n) \in Nat
      BY <1>5, <1>13, <1>19, <2>1, Zenon
    <3>2. CASE e.tag = "variable"
      <4>1. k \in variables /\ v(k) = v(n) + 1
        BY <1>5, <1>19, <3>1, <3>2
      <4>2. v(k) \in 1 .. Len(all) /\ all[v(k)] = File!NameAt(entries, k)
        BY <1>6, <4>1
      <4>3. o(k) = x
        BY <2>12, <3>2 DEF OpensStep
      <4>4. File!NameAt(entries, k) = [path |-> Append(o(k), e.name), handle |-> File!HandleAt(entries, k)]
        BY DEF File!NameAt, o
      <4>5. File!HandleAt(entries, k) = HandleOf(e, h(n))
        BY <2>19, <3>2
      <4>6. File!NameAt(entries, k) = name
        BY <4>3, <4>4, <4>5
      <4> DEFINE i == v(n)
                 j == v(k)
                 R == {all[p] : p \in 1 .. Len(all)}
      <4>7. all \in Seq(R) /\ i \in Nat /\ j = i + 1 /\ j \in 1 .. Len(all)
        BY <1>6, <3>1, <4>1, <4>2
      <4> HIDE DEF i, j, R
      <4>8. SubSeq(all, 1, j) = Append(SubSeq(all, 1, i), all[j])
        BY <4>7
      <4> QED BY <3>2, <4>2, <4>6, <4>8, Zenon DEF i, j
    <3>3. CASE e.tag # "variable"
      BY <3>1, <3>3
    <3> QED BY <3>2, <3>3
  <2> DEFINE r == [at |-> at, scopes |-> x, handles |-> h(n), names |-> names, refused |-> FALSE]
  <2>15. State(n) = r
    OBVIOUS
  <2>16. /\ Refuses(e, widths, x, h(n)) => File!NextName(section, widths, r).refused
         /\ ~Refuses(e, widths, x, h(n)) =>
              File!NextName(section, widths, r) = [at |-> at + size, scopes |-> OpensStep(x, e), handles |-> IF IsNew(e) THEN h(n) + 1 ELSE h(n),
                                      names |-> IF e.tag = "variable" THEN Append(names, name) ELSE names, refused |-> FALSE]
    BY <2>7 DEF TakesEntry
  <2>17. State(k) = [at |-> at + size, scopes |-> OpensStep(x, e), handles |-> IF IsNew(e) THEN h(n) + 1 ELSE h(n),
                     names |-> IF e.tag = "variable" THEN Append(names, name) ELSE names, refused |-> FALSE]
    BY <2>5, <2>12, <2>13, <2>14, Zenon
  <2> HIDE DEF State, r, e, x, at, size, names, name, B
  <2> QED BY <2>5, <2>15, <2>16, <2>17, <2>20, Zenon
<1> DEFINE T == {n \in Nat : n <= N => /\ n <= start[n]
                                       /\ IF B(n) THEN f[n] = State(n) ELSE f[n].refused}
           U == {n \in Nat : N + n <= L => f[N + n] = f[N]}
<1>20. \A x : x.refused => File!NextName(section, widths, x) = x
  BY DEF File!NextName
<1>21. \A n \in 0 .. N : n <= start[n] /\ IF B(n) THEN f[n] = State(n) ELSE f[n].refused
  <2>1. 0 \in T
    <3>1. B(0)
      BY DEF BalancedUpTo, KnownUpTo
    <3> HIDE DEF State, B
    <3> QED BY <1>8, <1>11, <1>16, <3>1
  <2>2. ASSUME NEW n \in Nat, n \in T PROVE n + 1 \in T
    <3> DEFINE k == n + 1
    <3> SUFFICES ASSUME k <= N PROVE k <= start[k] /\ IF B(k) THEN f[k] = State(k) ELSE f[k].refused
      OBVIOUS
    <3>1. k \in 1 .. N /\ k - 1 = n /\ n <= N /\ k \in Nat /\ n \in 0 .. N /\ n \in 0 .. k /\ k \in 0 .. N
      BY <1>1
    <3>2. n <= start[n] /\ IF B(n) THEN f[n] = State(n) ELSE f[n].refused
      BY <2>2, <3>1
    <3>a. k = n + 1
      OBVIOUS
    <3> HIDE DEF k, State
    <3>4. start[n] \in Nat /\ start[k] \in Nat /\ start[k] <= L
      BY <1>8, <1>9, <3>1
    <3>5. start[n] < start[k]
      <4>1. start[k] = start[k - 1] + Len(chunk(k)) /\ Len(chunk(k)) \in Nat \ {0}
        BY <1>2, <1>9, <3>1
      <4> QED BY <3>1, <3>4, <4>1
    <3>6. k <= start[k] /\ k \in 1 .. L
      BY <1>4, <3>1, <3>2, <3>4, <3>5, <3>a
    <3>7. f[k] = File!NextName(section, widths, f[n])
      BY <1>11, <3>1, <3>6, Zenon
    <3> HIDE DEF B
    <3>8. CASE B(n)
      <4>1. /\ B(k) => File!NextName(section, widths, State(n)) = State(k)
            /\ ~B(k) => File!NextName(section, widths, State(n)).refused
        BY <1>19, <3>1, <3>8, <3>a
      <4>2. f[n] = State(n)
        BY <3>2, <3>8
      <4> QED BY <3>6, <3>7, <4>1, <4>2
    <3>9. CASE ~B(n)
      <4>1. ~B(k)
        BY <1>17, <3>1, <3>9
      <4>2. f[n].refused
        BY <3>2, <3>9
      <4>3. f[k] = f[n]
        BY <1>20, <3>7, <4>2
      <4> QED BY <3>6, <4>1, <4>2, <4>3
    <3> QED BY <3>8, <3>9
  <2> HIDE DEF T, State, B
  <2>3. \A n \in Nat : n \in T
    BY <2>1, <2>2, SetInduction
  <2> QED BY <2>3 DEF T
<1>22. N <= L /\ IF B(N) THEN f[N] = State(N) ELSE f[N].refused
  BY <1>1, <1>8, <1>21
<1>23. State(N).at > Len(section) /\ State(N).names = all /\ State(N).refused = FALSE
  <2>1. State(N).at = start[N] + 1 /\ State(N).names = SubSeq(all, 1, Len(all)) /\ State(N).refused = FALSE
    BY <1>13
  <2>2. SubSeq(all, 1, Len(all)) = all
    BY <1>6
  <2> HIDE DEF State
  <2> QED BY <1>4, <1>8, <2>1, <2>2
<1> HIDE DEF State, B
<1>24. File!NextName(section, widths, f[N]) = f[N]
  <2>1. CASE B(N)
    <3>1. \A x : x.at > Len(section) => File!NextName(section, widths, x) = x
      BY DEF File!NextName
    <3> QED BY <1>22, <1>23, <2>1, <3>1
  <2>2. CASE ~B(N)
    BY <1>20, <1>22, <2>2
  <2> QED BY <2>1, <2>2
<1>25. f[L] = f[N]
  <2>1. 0 \in U
    BY <1>1
  <2>2. ASSUME NEW n \in Nat, n \in U PROVE n + 1 \in U
    <3> SUFFICES ASSUME N + (n + 1) <= L PROVE f[N + (n + 1)] = f[N]
      OBVIOUS
    <3> DEFINE k == N + (n + 1)
    <3>1. k \in 1 .. L /\ k - 1 = N + n /\ f[N + n] = f[N]
      BY <1>1, <1>4, <2>2
    <3>2. f[k] = File!NextName(section, widths, f[k - 1])
      BY <1>11, <3>1, Zenon
    <3> HIDE DEF k
    <3>3. f[k] = f[N]
      BY <1>24, <3>1, <3>2
    <3> QED BY <3>3 DEF k
  <2> HIDE DEF U
  <2>3. \A n \in Nat : n \in U
    BY <2>1, <2>2, SetInduction
  <2> DEFINE d == L - N
  <2>4. d \in Nat /\ N + d = L
    BY <1>1, <1>4, <1>22
  <2> HIDE DEF d
  <2>5. N + d <= L => f[N + d] = f[N]
    BY <2>3, <2>4 DEF U
  <2>6. N + d <= L
    BY <2>4, <1>4
  <2> QED BY <2>4, <2>5, <2>6
<1> DEFINE good == File!Balanced(entries) /\ File!Tagged(entries, "unknown") = {} /\ File!HaveWidths(entries, widths)
<1>26. good <=> B(N)
  <2>1. File!Balanced(entries) <=> BalancedUpTo(entries, N)
    BY <1>1 DEF File!Balanced, BalancedUpTo
  <2>2. File!Tagged(entries, "unknown") = {} /\ File!HaveWidths(entries, widths) <=> KnownUpTo(entries, widths, N)
    BY <1>1, <1>5 DEF File!Tagged, File!HaveWidths, KnownUpTo, variables
  <2> QED BY <2>1, <2>2, Zenon DEF B
<1> HIDE DEF good
<1>27. File!ReadNames(section, widths) = IF File!NamesOf(section, widths).refused THEN File!Refused ELSE File!Gives(File!NamesOf(section, widths).names)
  BY DEF File!ReadNames
<1>28. CASE B(N)
  <2>1. File!NamesOf(section, widths).refused = FALSE /\ File!NamesOf(section, widths).names = all
    BY <1>11, <1>22, <1>23, <1>25, <1>28
  <2> QED BY <1>26, <1>27, <1>28, <2>1 DEF section, all, good
<1>29. CASE ~B(N)
  <2>1. File!NamesOf(section, widths).refused
    BY <1>11, <1>22, <1>25, <1>29
  <2> QED BY <1>26, <1>27, <1>29, <2>1 DEF section, good
<1> QED BY <1>28, <1>29
-----------------------------------------------------------------------------
(* Every file *)

\* What is read of what was written.
IsRead ==
  CASE what = "file" -> File!ReadFile(SubSeq(File!WrittenBlocks(meant), 1, cut))
    [] what = "names" -> File!ReadNames(File!WrittenNames(meant.entries), meant.widths)
    [] what = "frame" -> File!ReadFrame(meant, File!WrittenFrame(meant))
    [] what = "changes" -> File!ReadChanges(meant, File!WrittenChanges(meant))
WellChanged(w) == meant.width = w /\ meant.times \in Nat /\ meant.changes \in Seq([step : Nat, value : File!ValuesOf(w)])
WellWritten ==
  \/ what = "file" /\ meant \in Seq(File!Types) /\ cut \in 0 .. Len(File!WrittenBlocks(meant))
  \/ what = "names" /\ meant.entries \in Seq(File!Entries) /\ meant.widths \in Nat
  \/ what = "frame" /\ meant \in Seq(Signals)
  \/ what = "changes" /\ \E w \in File!Widths : WellChanged(w)
FileRun == reading = "file" => WellWritten /\ (got = File!NotYet \/ got = IsRead)

\* A sequence of bounded length is a sequence.
LEMMA InBoundedSeq == ASSUME NEW S, NEW n \in Nat, NEW s \in File!BoundedSeq(S, n) PROVE s \in Seq(S)
BY DEF File!BoundedSeq, File!SeqOf

\* What TLC chooses to write is well written.
LEMMA FileInit == ASSUME File!Init PROVE WellWritten
<1>1. MaxParts \in Nat /\ 2 \in Nat /\ Deltas \subseteq Nat
  BY FileConstants DEF File!FileAssumption
<1>6. TimeCounts \subseteq Nat
  BY FileConstants DEF File!FileAssumption
<1>2. CASE what = "file" /\ meant \in File!BoundedSeq(File!Types, MaxParts) /\ cut \in 0 .. Len(File!WrittenBlocks(meant))
  BY <1>1, <1>2, InBoundedSeq DEF WellWritten
<1>3. CASE what = "names" /\ meant \in [entries : File!BoundedSeq(File!Entries, MaxParts), widths : 0 .. 2]
  <2>1. meant.entries \in File!BoundedSeq(File!Entries, MaxParts) /\ meant.widths \in Nat
    BY <1>3
  <2> QED BY <1>1, <1>3, <2>1, InBoundedSeq DEF WellWritten
<1>4. CASE what = "frame" /\ meant \in File!BoundedSeq(UNION {[width : {w}, value : File!ValuesOf(w)] : w \in File!Widths}, 2)
  <2>1. meant \in File!BoundedSeq(Signals, 2)
    BY <1>4 DEF Signals
  <2>2. meant \in Seq(Signals)
    BY <1>1, <2>1, InBoundedSeq
  <2> QED BY <1>4, <2>2 DEF WellWritten
<1>5. ASSUME what = "changes", NEW w \in File!Widths,
             meant \in [width : {w}, times : TimeCounts, changes : File!BoundedSeq([step : Deltas, value : File!ValuesOf(w)], 2)]
      PROVE  WellWritten
  <2> DEFINE changes == meant.changes
             few == [step : Deltas, value : File!ValuesOf(w)]
             more == [step : Nat, value : File!ValuesOf(w)]
  <2>1. meant.width = w /\ meant.times \in Nat /\ changes \in File!BoundedSeq(few, 2)
    BY <1>5, <1>6
  <2>2. few \subseteq more
    BY <1>1
  <2> HIDE DEF few, more, changes
  <2>3. changes \in Seq(few)
    BY <1>1, <2>1, InBoundedSeq
  <2>4. changes \in Seq(more)
    BY <2>2, <2>3
  <2> QED BY <1>5, <2>1, <2>4 DEF changes, more, WellWritten, WellChanged
<1> QED BY <1>2, <1>3, <1>4, <1>5, Zenon DEF File!Init

\* Until it is read nothing is reported; then what ReadFile computes is.
LEMMA FileRunAlways == Spec => []FileRun
<1>1. Init => FileRun
  <2> SUFFICES ASSUME Init, reading = "file" PROVE WellWritten /\ got = File!NotYet
    BY DEF FileRun
  <2>1. File!Init
    BY DEF Init
  <2> QED BY <2>1, FileInit DEF File!Init
<1>2. FileRun /\ [Next]_vars => FileRun'
  <2> SUFFICES ASSUME FileRun, [Next]_vars, reading' = "file" PROVE (WellWritten /\ (got = File!NotYet \/ got = IsRead))'
    BY DEF FileRun
  <2>1. ASSUME what' = what, meant' = meant, cut' = cut, WellWritten PROVE WellWritten' /\ IsRead' = IsRead
    <3>1. WellWritten'
      BY <2>1 DEF WellWritten, WellChanged
    <3>2. IsRead' = IsRead
      BY <2>1 DEF IsRead
    <3> QED BY <3>1, <3>2
  <2>2. CASE ReadFile
    <3>1. reading = "file" /\ what' = what /\ meant' = meant /\ cut' = cut /\ got' = IsRead
      BY <2>2, Zenon DEF ReadFile, File!Read, IsRead
    <3> QED BY <2>1, <3>1 DEF FileRun
  <2>3. CASE UNCHANGED <<reading, fileVars>>
    <3>1. what' = what /\ meant' = meant /\ cut' = cut /\ got' = got /\ reading = "file"
      BY <2>3 DEF fileVars
    <3>2. WellWritten' /\ IsRead' = IsRead
      BY <2>1, <3>1 DEF FileRun
    <3>3. File!NotYet' = File!NotYet
      BY DEF File!NotYet
    <3> QED BY <3>1, <3>2, <3>3 DEF FileRun
  <2> QED BY <2>2, <2>3 DEF Next, ReadVcd, ReadFst, ReadTable, ReadTimes, vars
<1> QED BY <1>1, <1>2, PTL DEF Spec

\* Whatever was written, what is read of it is right.
LEMMA WrittenIsRead == ASSUME WellWritten, got = IsRead PROVE File!ReadsWhatWasMeant /\ File!WholeOrRefused
<1>1. CASE what = "file" /\ meant \in Seq(File!Types) /\ cut \in 0 .. Len(File!WrittenBlocks(meant))
  <2> DEFINE read == File!ReadFile(SubSeq(File!WrittenBlocks(meant), 1, cut))
             types == meant
  <2>1. got = read
    BY <1>1 DEF IsRead
  <2>2. /\ cut = Len(File!WrittenBlocks(types)) /\ Once(types) => read = File!Gives(types)
        /\ read # File!Refused => /\ Once(read.value) /\ KindCount(read.value, "changes") = KindCount(types, "changes")
                                  /\ read.value = SubSeq(types, 1, Len(read.value))
    BY <1>1, FileRead
  <2> HIDE DEF read
  <2>3. \A s : (Once(s) <=> \A type \in {"geometry", "hierarchy"} : File!Cardinality({k \in DOMAIN s : s[k] = type}) = 1)
               /\ KindCount(s, "changes") = File!Cardinality({k \in DOMAIN s : s[k] = "changes"})
    BY SameCardinality DEF Once, KindCount
  <2>4. File!WholeOrRefused
    BY <1>1, <2>1, <2>2, <2>3 DEF File!WholeOrRefused
  <2>5. File!ReadsWhatWasMeant
    BY <1>1 DEF File!ReadsWhatWasMeant
  <2> QED BY <2>4, <2>5
<1>2. CASE what = "names" /\ meant.entries \in Seq(File!Entries) /\ meant.widths \in Nat
  <2>1. got = IF File!Balanced(meant.entries) /\ File!Tagged(meant.entries, "unknown") = {} /\ File!HaveWidths(meant.entries, meant.widths)
              THEN File!Gives(File!MeantNames(meant.entries)) ELSE File!Refused
    BY <1>2, NamesRead DEF IsRead
  <2> QED BY <1>2, <2>1 DEF File!ReadsWhatWasMeant, File!WholeOrRefused
<1>3. CASE what = "frame" /\ meant \in Seq(Signals)
  <2>1. got = IF \E h \in DOMAIN meant : meant[h].width # "string" /\ File!Foreign(meant[h].width, meant[h].value)
              THEN File!Refused ELSE File!Gives(File!MeantFrame(meant))
    BY <1>3, FrameRead DEF IsRead
  <2> QED BY <1>3, <2>1 DEF File!ReadsWhatWasMeant, File!WholeOrRefused
<1>4. CASE what = "changes" /\ \E w \in File!Widths : WellChanged(w)
  <2>1. PICK w \in File!Widths : WellChanged(w)
    BY <1>4
  <2>2. got = File!ReadChanges(meant, File!WrittenChanges(meant))
    BY <1>4 DEF IsRead
  <2>3. got = IF \E k \in DOMAIN meant.changes : File!Foreign(meant.width, meant.changes[k].value) \/ File!MeantChanges(meant)[k].index >= meant.times
              THEN File!Refused ELSE File!Gives(File!MeantChanges(meant))
    BY <2>1, <2>2, ChangesRead DEF WellChanged
  <2> QED BY <1>4, <2>3 DEF File!ReadsWhatWasMeant, File!WholeOrRefused
<1> QED BY <1>1, <1>2, <1>3, <1>4 DEF WellWritten

(***************************************************************************)
(* Of a file of any number of blocks, cut off anywhere, the blocks that    *)
(* are there are read or the file is refused; the names of any scopes and  *)
(* variables, the values of any signals, and their changes by steps of any *)
(* size are read as they were meant, or the file is refused, exactly when  *)
(* one of them is not what a writer may write (readHierarchy, startValue,  *)
(* Changes and Reader, vhdl/fst.ts).                                       *)
(***************************************************************************)
THEOREM FilesRead == Spec => [](reading = "file" => File!ReadsWhatWasMeant /\ File!WholeOrRefused)
<1>1. FileRun => (reading = "file" => File!ReadsWhatWasMeant /\ File!WholeOrRefused)
  <2> SUFFICES ASSUME FileRun, reading = "file" PROVE File!ReadsWhatWasMeant /\ File!WholeOrRefused
    OBVIOUS
  <2>1. CASE got = File!NotYet
    BY <2>1 DEF File!ReadsWhatWasMeant, File!WholeOrRefused
  <2>2. CASE got = IsRead
    BY <2>2, WrittenIsRead DEF FileRun
  <2> QED BY <2>1, <2>2 DEF FileRun
<1> QED BY <1>1, FileRunAlways, PTL

(***************************************************************************)
(* What an FST file is made of is read as it was meant, and nothing of a   *)
(* file that is cut off or laid out otherwise is taken for it (vhdl/fst.ts *)
(* as a whole, without the decompression).                                 *)
(***************************************************************************)
THEOREM LayoutRead == Spec => []ReadsTheLayout
<1>1. /\ (reading = "file" => File!ReadsWhatWasMeant /\ File!WholeOrRefused)
      /\ (reading = "table" => Chain!ReadsTheLayout)
      => ReadsTheLayout
  BY DEF ReadsTheLayout
<1> QED BY <1>1, FilesRead, TablesRead, PTL
=============================================================================
