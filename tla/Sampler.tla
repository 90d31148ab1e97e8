------------------------------- MODULE Sampler -------------------------------
(***************************************************************************)
(* The sampler of wave_query (vhdl/wave.ts): it holds the current value of *)
(* each signal asked for while a reader replays a waveform in time order,  *)
(* and records those values as the replay passes each time asked for.      *)
(* VcdDump and FstReplay are the two readers.  A time is in whole ticks,   *)
(* and "between" says that it lies between its tick and the next.          *)
(***************************************************************************)
EXTENDS Naturals, Sequences, FiniteSets

CONSTANTS
  Ids,      \* the signals of the file, by the id the file gives them
  Watched,  \* those asked for
  Values,   \* what a signal can be
  None,     \* no value yet, read as x
  MaxTime,  \* bounds the time stamps of a file
  Queries   \* the lists of times asked for

Times == 0 .. MaxTime
TimeAsked == [ticks : Nat, between : BOOLEAN]

\* Assumed of the constants where they are given values.
SamplerAssumption ==
  /\ Watched \subseteq Ids /\ None \notin Values /\ MaxTime \in Nat
  /\ Queries \subseteq Seq(TimeAsked)
  /\ None \notin Nat /\ None \notin [Watched -> Values \cup {None}]

VARIABLES
  query,     \* the times asked for, in the order of the request
  pending,   \* their positions, by time
  answered,  \* how many of pending are answered
  rows,      \* the values recorded, by position
  current,   \* the value of each watched signal where the replay is
  beyond,    \* which rows lie outside the file, once the replay ended
  outcome    \* "reading", "done" or "failed"

samplerVars == <<query, pending, answered, rows, current, beyond, outcome>>

Valuations == [Watched -> Values \cup {None}]

SamplerTypeOK ==
  /\ query \in Queries
  /\ pending \in [DOMAIN query -> DOMAIN query]
  /\ answered \in 0 .. Len(query)
  /\ rows \in [DOMAIN query -> Valuations \cup {None}]
  /\ current \in Valuations
  /\ beyond \in [DOMAIN query -> {"inside", "before", "after", "unknown"}]
  /\ outcome \in {"reading", "done", "failed"}

\* A stable sort by ticks.
SortedBy(p, q) ==
  /\ \A i \in DOMAIN q : \E k \in DOMAIN q : p[k] = i
  /\ \A j, k \in DOMAIN q : j < k =>
       \/ q[p[j]].ticks < q[p[k]].ticks
       \/ q[p[j]].ticks = q[p[k]].ticks /\ p[j] < p[k]

SamplerInit ==
  /\ query \in Queries
  /\ pending \in {p \in [DOMAIN query -> DOMAIN query] : SortedBy(p, query)}
  /\ answered = 0
  /\ rows = [i \in DOMAIN query |-> None]
  /\ current = [id \in Watched |-> None]
  /\ beyond = [i \in DOMAIN query |-> "unknown"]
  /\ outcome = "reading"

\* Faulty variant: a time is answered as the replay reaches it.
PassedAtTime(time) ==
  CHOOSE n \in answered .. Len(query) :
    /\ \A k \in answered + 1 .. n : query[pending[k]].ticks <= time
    /\ n < Len(query) => query[pending[n + 1]].ticks > time
\* How many of pending are answered once the replay is at a time.
Passed(time) ==
  CHOOSE n \in answered .. Len(query) :
    /\ \A k \in answered + 1 .. n : query[pending[k]].ticks < time
    /\ n < Len(query) => query[pending[n + 1]].ticks >= time

\* The rows once n of pending are answered.
RecordedTo(n) ==
  [i \in DOMAIN query |->
     IF \E k \in answered + 1 .. n : pending[k] = i THEN current ELSE rows[i]]

Advance(time) == answered' = Passed(time) /\ rows' = RecordedTo(Passed(time))
AllAnswered(time) == Passed(time) = Len(query)

\* A value for a signal nobody asked for is dropped.
SetTo(id, value) == IF id \in Watched THEN [current EXCEPT ![id] = value] ELSE current

Placed(i, first, last) ==
  LET after == query[i].ticks > last \/ (query[i].ticks = last /\ query[i].between)
  IN IF query[i].ticks < first THEN "before" ELSE IF after THEN "after" ELSE "inside"

FinishWith(first, last) ==
  /\ rows' = RecordedTo(Len(query)) /\ answered' = Len(query)
  /\ beyond' = [i \in DOMAIN query |-> Placed(i, first, last)]
  /\ outcome' = "done"
  /\ UNCHANGED <<query, pending, current>>

Fails == outcome' = "failed" /\ UNCHANGED <<query, pending, answered, rows, current, beyond>>
-----------------------------------------------------------------------------
(***************************************************************************)
(* What the rows are compared with: a waveform as the list of its changes, *)
(* in time order, each with the time it happened at.                       *)
(***************************************************************************)
ChangesOf(wave, id, time) == {k \in DOMAIN wave : wave[k].id = id /\ wave[k].at <= time}
ValueAt(wave, id, time) ==
  LET before == ChangesOf(wave, id, time) IN
  IF before = {} THEN None
  ELSE wave[CHOOSE k \in before : \A j \in before : j <= k].value

\* Each row is, for each signal, the last change at or before the time of the row.
RowsFollow(wave) ==
  \A i \in DOMAIN query : rows[i] # None =>
    \A id \in Watched : rows[i][id] = ValueAt(wave, id, query[i].ticks)

\* Twice the time of row i, so that one between two ticks has a whole number.
Halves(i) == 2 * query[i].ticks + (IF query[i].between THEN 1 ELSE 0)

\* Every row is there at the end, and is marked exactly when its time is outside the file.
EndsWith(first, last) ==
  outcome = "done" => \A i \in DOMAIN query :
    /\ rows[i] # None
    /\ beyond[i] = "before" <=> Halves(i) < 2 * first
    /\ beyond[i] = "after" <=> Halves(i) > 2 * last /\ Halves(i) >= 2 * first
=============================================================================
