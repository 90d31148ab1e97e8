------------------------------- MODULE VcdDump -------------------------------
(***************************************************************************)
(* The values of a VCD file (vhdl/vcd.ts, class Dump), read token by token *)
(* after its declarations.  What a token is depends on where it is: after  *)
(* a vector value it is an id, though it may look like a time stamp, and   *)
(* inside a comment it is nothing.  Write is the simulator that wrote the  *)
(* file: each item it writes is one or more tokens.                        *)
(***************************************************************************)
EXTENDS Sampler

CONSTANTS
  TimeLike,  \* the ids that look like the time stamp #1
  MaxItems   \* bounds the items of a file

\* Assumed of the constants where they are given values.
VcdAssumption ==
  /\ SamplerAssumption /\ TimeLike \subseteq Ids /\ MaxItems \in Nat
  /\ {"misfit", "unreadable"} \cap (Values \cup {None}) = {}

VARIABLES
  unread,    \* tokens of the item being read
  value,     \* a vector value that waits for its id
  skipping,  \* inside a comment
  first,     \* the first time stamp
  time,      \* the last one
  wave,      \* history: the changes the simulator wrote
  bad,       \* history: it wrote something a reader has to refuse
  items      \* history: how many items it wrote

readerVars == <<value, skipping, first, time>>
vars == <<samplerVars, readerVars, unread, wave, bad, items>>

\* "misfit" is a value too wide for its signal, or of another kind.
Written == Values \cup {"misfit", "unreadable"}

Token(kind, at, val, id) == [kind |-> kind, at |-> at, value |-> val, id |-> id]
Stamp(t) == Token("time", t, None, None)
IdToken(id) == Token(IF id \in TimeLike THEN "time" ELSE "other", 1, None, id)
Word(kind) == Token(kind, 0, None, None)
Scalar(val, id) == Token("scalar", 0, val, id)
Vector(val) == Token("vector", 0, val, None)

Tokens == {Stamp(t) : t \in Times} \cup {IdToken(id) : id \in Ids}
          \cup {Word(kind) : kind \in {"comment", "bracket", "end", "other"}}
          \cup {Scalar(val, id) : val \in Written, id \in Ids} \cup {Vector(val) : val \in Written}

TypeOK ==
  /\ SamplerTypeOK
  /\ unread \in Seq(Tokens)
  /\ value \in Written \cup {None}
  /\ skipping \in BOOLEAN /\ bad \in BOOLEAN
  /\ first \in Times \cup {None} /\ time \in Times \cup {None}
  /\ wave \in Seq([id : Ids, at : Times, value : Values])
  /\ items \in 0 .. MaxItems

Init ==
  /\ SamplerInit
  /\ unread = <<>> /\ value = None /\ skipping = FALSE
  /\ first = None /\ time = None
  /\ wave = <<>> /\ bad = FALSE /\ items = 0

\* A change before the first time stamp happens at 0.
Now == IF time = None THEN 0 ELSE time
-----------------------------------------------------------------------------
Puts(tokens, isBad) ==
  /\ outcome = "reading" /\ unread = <<>> /\ items < MaxItems
  /\ unread' = tokens
  /\ bad' = (bad \/ isBad)
  /\ UNCHANGED <<samplerVars, readerVars>>
Writes(tokens, isBad) == Puts(tokens, isBad) /\ items' = items + 1

WriteTime ==
  \E t \in Times : Writes(<<Stamp(t)>>, t < Now) /\ UNCHANGED wave
WriteChange ==
  \E id \in Ids, val \in Written :
    /\ \/ Writes(<<Scalar(val, id)>>, val = "unreadable" \/ (val = "misfit" /\ id \in Watched))
       \/ Writes(<<Vector(val), IdToken(id)>>, val = "unreadable" \/ (val = "misfit" /\ id \in Watched))
    /\ wave' = IF val \in Values THEN Append(wave, [id |-> id, at |-> Now, value |-> val]) ELSE wave
WriteComment ==
  \E word \in Tokens \ {Word("end")} :
    Writes(<<Word("comment"), word, Word("end")>>, FALSE) /\ UNCHANGED wave
WriteBracket ==
  /\ \/ Writes(<<Word("bracket")>>, FALSE)
     \/ Writes(<<Word("end")>>, FALSE)
     \/ Writes(<<Word("other")>>, TRUE)
  /\ UNCHANGED wave
\* The file breaks off between two tokens of an item: it does not say that change, and nothing comes after it.
BreakOff ==
  /\ \/ \E val \in Written : Puts(<<Vector(val)>>, FALSE)
     \/ Puts(<<Word("comment")>>, FALSE)
     \/ \E word \in Tokens \ {Word("end")} : Puts(<<Word("comment"), word>>, FALSE)
  /\ items' = MaxItems
  /\ UNCHANGED wave
-----------------------------------------------------------------------------
Fits(val, id) == val \in Values \/ (val = "misfit" /\ id \notin Watched)

\* Also the effect on the sampler: the value of the signal from now on.
Change(val, id) ==
  IF Fits(val, id)
  THEN /\ current' = SetTo(id, val)
       /\ UNCHANGED <<query, pending, answered, rows, beyond, outcome>>
  ELSE Fails

\* What a comment holds is not read.
Skip(token) ==
  /\ skipping
  /\ skipping' = (token.kind # "end")
  /\ UNCHANGED <<samplerVars, value, first, time>>

ReadId(token) ==
  /\ ~skipping /\ value # None
  /\ Change(value, token.id)
  /\ value' = None
  /\ UNCHANGED <<skipping, first, time>>

Placeable(token) == ~skipping /\ value = None

ReadTime(token) ==
  /\ Placeable(token) /\ token.kind = "time"
  /\ IF time # None /\ token.at < time
     THEN Fails /\ UNCHANGED <<first, time>>
     ELSE /\ Advance(token.at)
          /\ first' = IF first = None THEN token.at ELSE first
          /\ time' = token.at
          /\ UNCHANGED <<query, pending, current, beyond, outcome>>
  /\ UNCHANGED <<skipping, value>>

ReadSection(token) ==
  /\ Placeable(token) /\ token.kind \in {"comment", "bracket", "end"}
  /\ skipping' = (token.kind = "comment")
  /\ UNCHANGED <<samplerVars, value, first, time>>

ReadValue(token) ==
  /\ Placeable(token)
  /\ CASE token.kind = "vector" -> value' = token.value /\ UNCHANGED samplerVars
       [] token.kind = "scalar" -> Change(token.value, token.id) /\ UNCHANGED value
       [] token.kind = "other" -> Fails /\ UNCHANGED value
       [] OTHER -> FALSE
  /\ UNCHANGED <<skipping, first, time>>

Read ==
  /\ outcome = "reading" /\ unread # <<>>
  /\ LET token == Head(unread) IN
       Skip(token) \/ ReadId(token) \/ ReadTime(token) \/ ReadSection(token) \/ ReadValue(token)
  /\ unread' = Tail(unread)
  /\ UNCHANGED <<wave, bad, items>>

\* The file ends, also inside an item.  One with no time stamp is refused.
Finish ==
  /\ outcome = "reading" /\ unread = <<>>
  /\ IF first = None THEN Fails ELSE FinishWith(first, time)
  /\ UNCHANGED <<readerVars, unread, wave, bad, items>>

Next == WriteTime \/ WriteChange \/ WriteComment \/ WriteBracket \/ BreakOff \/ Read \/ Finish
Spec == Init /\ [][Next]_vars
-----------------------------------------------------------------------------
(***************************************************************************)
(* Each value reported is the last change the simulator wrote at or before *)
(* that time, whatever comments say and whatever ids look like, and in     *)
(* whatever order the times were asked for.                                *)
(***************************************************************************)
LastChange == RowsFollow(wave)

(***************************************************************************)
(* At the end every time has its row, and a row is marked as outside the   *)
(* file exactly when its time, to the fraction of a tick, is before the    *)
(* first time stamp or after the last.                                     *)
(***************************************************************************)
MarkedOutside == first # None => EndsWith(first, time)

(***************************************************************************)
(* A file is refused only for something the simulator should not have      *)
(* written (or for having no time stamp), and never read to the end with   *)
(* such a thing in it: what is not asked for does not have to fit.         *)
(***************************************************************************)
RefusesBadOnly ==
  /\ outcome = "failed" => bad \/ first = None
  /\ outcome = "done" => ~bad
=============================================================================
