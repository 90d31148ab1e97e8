------------------------------ MODULE ChainTable ------------------------------
(***************************************************************************)
(* Where the changes of each signal sit in a block of an FST file, as      *)
(* FstFile.chains (vhdl/fst.ts) reads it from the table the writer leaves. *)
(* An odd entry is a step to the next offset or, when not positive, an     *)
(* alias; an even one skips signals without changes.  Signals count from   *)
(* 1 here.                                                                 *)
(***************************************************************************)
EXTENDS Integers, Sequences

CONSTANTS
  Count,    \* the signals of the block
  Lengths,  \* how long the changes of a signal can be
  None

Handles == 1 .. Count

\* Assumed of the constants where they are given values.
ChainAssumption == Count \in Nat \ {0} /\ Lengths \subseteq Nat \ {0} /\ None \notin Int

VARIABLES
  layout,   \* of each signal: no changes, changes of its own, or those of an earlier signal
  repeats,  \* whether the writer shortens an alias that repeats the last one
  outcome,  \* "not yet", "read" or "refused"
  chains    \* what was read: the chain of each signal

vars == <<layout, repeats, outcome, chains>>

Own(h) == layout[h] \in [length : Lengths]
Shares(h) == layout[h] \in [alias : Handles]

\* External: the FST writer.  The changes follow one another after the byte that names their compression.
Start[h \in 1 .. Count + 1] == IF h = 1 THEN 1 ELSE Start[h - 1] + (IF Own(h - 1) THEN layout[h - 1].length ELSE 0)
End == Start[Count + 1]
ChainOf[h \in Handles] ==
  IF Own(h) THEN [offset |-> Start[h], length |-> layout[h].length]
  ELSE IF Shares(h) THEN ChainOf[layout[h].alias] ELSE None

Skipping(w) == IF w.zeros = 0 THEN <<>> ELSE <<2 * w.zeros>>
Written(w, h) ==
  IF Own(h) THEN [w EXCEPT !.zeros = 0, !.offset = Start[h],
                    !.table = @ \o Skipping(w) \o <<2 * (Start[h] - w.offset) + 1>>]
  ELSE IF Shares(h) THEN [w EXCEPT !.zeros = 0, !.alias = layout[h].alias,
                    !.table = @ \o Skipping(w) \o
                      <<IF repeats /\ w.alias = layout[h].alias THEN 1 ELSE 1 - 2 * layout[h].alias>>]
  ELSE [w EXCEPT !.zeros = @ + 1]
Writing[h \in 0 .. Count] ==
  IF h = 0 THEN [table |-> <<>>, zeros |-> 0, offset |-> 0, alias |-> 0] ELSE Written(Writing[h - 1], h)
Table == Writing[Count].table \o Skipping(Writing[Count])
-----------------------------------------------------------------------------
Blank == [h \in Handles |-> 0]
Start0 == [index |-> 0, offset |-> 0, previous |-> 0, alias |-> 0, full |-> FALSE,
           offsets |-> Blank, aliases |-> Blank, lengths |-> Blank]

Closes(r, offset) == IF r.previous = 0 THEN r ELSE [r EXCEPT !.lengths[r.previous] = offset - r.offsets[r.previous]]

Step(r, entry) ==
  LET by == entry \div 2
      h == r.index + 1 IN
  IF entry % 2 = 0 THEN [r EXCEPT !.index = @ + by]
  ELSE IF h > Count THEN [r EXCEPT !.full = TRUE]
  ELSE IF by > 0 THEN [Closes(r, r.offset + by) EXCEPT !.index = h, !.offset = @ + by, !.offsets[h] = r.offset + by,
                                                     !.previous = h]
  ELSE LET alias == IF by < 0 THEN -by ELSE r.alias
       IN [r EXCEPT !.index = h, !.alias = alias, !.aliases[h] = alias]

Reads(table) ==
  LET after[k \in 0 .. Len(table)] == IF k = 0 THEN Start0 ELSE Step(after[k - 1], table[k])
  IN after[Len(table)]
ReadTable == Closes(Reads(Table), End)

\* Faulty variant: signals counted from 0 on one side only.
AliasNotBefore(r, h) == r.aliases[h] > 0 /\ r.aliases[h] >= h - 1
AliasOfLater(r, h) == r.aliases[h] > 0 /\ r.aliases[h] >= h

Chains(r) ==
  LET chain[h \in Handles] ==
        IF r.offsets[h] > 0 THEN [offset |-> r.offsets[h], length |-> r.lengths[h]]
        ELSE IF r.aliases[h] > 0 THEN chain[r.aliases[h]] ELSE None
  IN chain

Init ==
  /\ layout \in [Handles -> {None} \cup [length : Lengths] \cup [alias : Handles]]
  /\ \A h \in Handles : Shares(h) => layout[h].alias < h /\ layout[layout[h].alias] # None
  /\ repeats \in BOOLEAN
  /\ outcome = "not yet" /\ chains = [h \in Handles |-> None]

Read ==
  LET r == ReadTable IN
  /\ outcome = "not yet"
  /\ outcome' = IF r.full \/ r.index > Count \/ \E h \in Handles : AliasOfLater(r, h) THEN "refused" ELSE "read"
  /\ chains' = IF outcome' = "read" THEN Chains(r) ELSE chains
  /\ UNCHANGED <<layout, repeats>>

Spec == Init /\ [][Read]_vars
-----------------------------------------------------------------------------
(***************************************************************************)
(* Whatever mix of signals with changes, without, and sharing those of     *)
(* another, in a table written in any way the writer has, each signal is   *)
(* read from its own changes to their end, and no table is refused.        *)
(***************************************************************************)
ReadsTheLayout == outcome # "not yet" => outcome = "read" /\ chains = ChainOf
=============================================================================
