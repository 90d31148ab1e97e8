------------------------------ MODULE FstReplay ------------------------------
(***************************************************************************)
(* The replay of an FST file (vhdl/fst.ts): the changes of a run are cut   *)
(* into blocks; a block gives the values it starts with, its time stamps,  *)
(* and for each signal a stream of changes that name a time by its index.  *)
(* The replay merges the streams of the watched signals and stops as soon  *)
(* as every time asked for is answered.  The file is chosen at the start:  *)
(* it is what the library that writes it makes of a wave.                  *)
(***************************************************************************)
EXTENDS Sampler, SequencesExt

CONSTANTS
  Framed,     \* the signals whose value a block starts with (strings have none)
  MaxChanges  \* bounds the changes of a wave

\* Assumed of the constants where they are given values.  A query names at least one signal.
FstAssumption == SamplerAssumption /\ Framed \subseteq Ids /\ MaxChanges \in Nat /\ Watched # {}

VARIABLES
  wave,      \* history: the changes of the run
  blocks,    \* the file
  begins,    \* the time each block says it begins at
  framed,    \* the values at time 0 are the first block's start values, not changes
  block,     \* how many blocks are replayed or open
  open,      \* the last of them is open
  position,  \* the next change of each stream of the open block
  time       \* the time of the last change replayed

file == <<wave, blocks, begins, framed>>
vars == <<samplerVars, file, block, open, position, time>>

Infinity == MaxTime + 2  \* an index no block has
-----------------------------------------------------------------------------
Waves ==
  {w \in BoundedSeq([id : Ids, at : Times, value : Values], MaxChanges) :
     \A j, k \in DOMAIN w : j <= k => w[j].at <= w[k].at}

\* The numbers of a set, from the least.
Ascending(set) ==
  CHOOSE s \in [1 .. Cardinality(set) -> set] :
    /\ \A n \in set : \E k \in DOMAIN s : s[k] = n
    /\ \A j, k \in DOMAIN s : j < k => s[j] < s[k]

\* A change is not in its block's streams but in the values it starts with.
InFrame(w, k, asValues) == asValues /\ w[k].at = 0 /\ w[k].id \in Framed

\* The value of a signal at the start of a block.
StartOf(w, id, from, asValues) ==
  LET early == {k \in DOMAIN w : w[k].id = id /\ (w[k].at < from \/ (from = 0 /\ InFrame(w, k, asValues)))}
  IN IF early = {} THEN None ELSE w[CHOOSE k \in early : \A j \in early : j <= k].value

\* The block that holds the changes from one time to before another.  Every time stamp
\* of the run is in its table, also where only signals nobody asked for change.
BlockOf(w, from, to, asValues) ==
  LET changes == {k \in DOMAIN w : from <= w[k].at /\ w[k].at < to}
      stamps == Ascending({w[k].at : k \in changes})
      stream(id) == Ascending({k \in changes : w[k].id = id /\ ~InFrame(w, k, asValues)})
      index(k) == CHOOSE i \in DOMAIN stamps : stamps[i] = w[k].at
  IN [stamps |-> stamps,
      frame |-> [id \in Framed |-> StartOf(w, id, from, asValues)],
      streams |-> [id \in Ids |-> [i \in DOMAIN stream(id) |->
                     [index |-> index(stream(id)[i]), value |-> w[stream(id)[i]].value]]]]

\* The file of a wave that is cut at the given times.
FileOf(w, cuts, asValues) ==
  LET from == Ascending(cuts \cup {0})
      to(b) == IF b = Len(from) THEN MaxTime + 1 ELSE from[b + 1]
  IN [b \in DOMAIN from |-> BlockOf(w, from[b], to(b), asValues)]

\* A block may begin before its first change; a damaged one even inside the block ahead.
MayBegin(b) ==
  IF b = 1 THEN {0}
  ELSE LET stamps == blocks[b].stamps IN {t \in Times : stamps # <<>> => t <= stamps[1]}

Init ==
  /\ SamplerInit
  /\ wave \in Waves /\ framed \in BOOLEAN
  /\ \E cuts \in SUBSET (1 .. MaxTime) : blocks = FileOf(wave, cuts, framed)
  /\ begins \in {f \in [DOMAIN blocks -> Times] : \A b \in DOMAIN blocks : f[b] \in MayBegin(b)}
  /\ block = 0 /\ open = FALSE
  /\ position = [id \in Watched |-> 1]
  /\ time = 0

TypeOK ==
  /\ SamplerTypeOK
  /\ block \in 0 .. Len(blocks) /\ open \in BOOLEAN
  /\ open => block > 0 /\ \A id \in Watched : position[id] \in 1 .. Len(blocks[block].streams[id]) + 1
  /\ time \in Times
-----------------------------------------------------------------------------
\* Faulty variant: blocks that meet at one time overlap.
OverlapsOrMeets(b) == begins[b] <= time
Overlaps(b) == begins[b] < time

StartValues(b) == [id \in Watched |-> IF id \in Framed THEN blocks[b].frame[id] ELSE current[id]]

\* Every time asked for is answered: the rest of the file is not read.
EndsAt(t) ==
  /\ AllAnswered(t) /\ FinishWith(0, MaxTime)
  /\ open' = FALSE /\ UNCHANGED position

OpenBlock ==
  /\ outcome = "reading" /\ ~open /\ block < Len(blocks)
  /\ block' = block + 1
  /\ \/ Overlaps(block') /\ Fails /\ UNCHANGED <<open, position>>
     \/ ~Overlaps(block') /\ EndsAt(begins[block'])
     \/ /\ ~Overlaps(block') /\ ~AllAnswered(begins[block'])
        /\ Advance(begins[block'])
        /\ current' = StartValues(block')
        /\ open' = TRUE /\ position' = [id \in Watched |-> 1]
        /\ UNCHANGED <<query, pending, beyond, outcome>>
  /\ UNCHANGED <<file, time>>

Stream(id) == blocks[block].streams[id]
Index(id) == IF position[id] > Len(Stream(id)) THEN Infinity ELSE Stream(id)[position[id]].index
\* The least index there is.
NextIndex == CHOOSE n \in 1 .. Infinity : (\E id \in Watched : Index(id) = n) /\ \A id \in Watched : n <= Index(id)

\* Faulty variant: no stream moves on.
NoneSteps == position
Stepped == [id \in Watched |-> IF Index(id) = NextIndex THEN position[id] + 1 ELSE position[id]]

Replay ==
  /\ outcome = "reading" /\ open /\ NextIndex # Infinity
  /\ time' = blocks[block].stamps[NextIndex]
  /\ \/ EndsAt(time')
     \/ /\ ~AllAnswered(time')
        /\ Advance(time')
        /\ current' = [id \in Watched |->
             IF Index(id) = NextIndex THEN Stream(id)[position[id]].value ELSE current[id]]
        /\ position' = Stepped
        /\ UNCHANGED <<query, pending, beyond, outcome, open>>
  /\ UNCHANGED <<file, block>>

EndBlock ==
  /\ outcome = "reading" /\ open /\ NextIndex = Infinity
  /\ open' = FALSE
  /\ LET stamps == blocks[block].stamps IN time' = IF stamps = <<>> THEN time ELSE Last(stamps)
  /\ UNCHANGED <<samplerVars, file, block, position>>

Finish ==
  /\ outcome = "reading" /\ ~open /\ block = Len(blocks)
  /\ FinishWith(0, MaxTime)
  /\ UNCHANGED <<file, block, open, position, time>>

Next == OpenBlock \/ Replay \/ EndBlock \/ Finish
\* A query is one synchronous call.
Spec == Init /\ [][Next]_vars /\ WF_vars(Next)
-----------------------------------------------------------------------------
(***************************************************************************)
(* However the run was cut into blocks, and wherever the replay could stop *)
(* early, each value reported is the last change of the run at or before   *)
(* that time: what a VCD file of the same run gives (VcdDump, LastChange), *)
(* as long as the blocks are in the order of their times.  (Of a block     *)
(* without changes the replay does not notice that it begins too late.)    *)
(***************************************************************************)
Overlapping == \E a, b \in DOMAIN blocks :
  a < b /\ blocks[a].stamps # <<>> /\ begins[b] < Last(blocks[a].stamps)
InTheirOrder == \A a, b \in DOMAIN blocks : a < b => begins[a] <= begins[b]
LastChange == InTheirOrder /\ ~Overlapping => RowsFollow(wave)

(***************************************************************************)
(* Stopping early leaves no row out, and marks the same rows as outside    *)
(* the file as reading it to the end would.                                *)
(***************************************************************************)
MarkedOutside == EndsWith(0, MaxTime)

(***************************************************************************)
(* A file is refused only when its blocks overlap.                         *)
(***************************************************************************)
RefusesDamagedOnly == outcome = "failed" => Overlapping

(***************************************************************************)
(* The merge of the streams ends, whichever of them runs out first.        *)
(***************************************************************************)
ReplayEnds == <>(outcome # "reading")
=============================================================================
