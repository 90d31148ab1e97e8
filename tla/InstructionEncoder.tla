-------------------------- MODULE InstructionEncoder --------------------------
(***************************************************************************)
(* The encoding of instructions (sim/InstructionEncoder.java): they are    *)
(* assembled as one program by RARS's own assembler, again and again: an   *)
(* instruction that fails is left out of the next attempt, and a numeric   *)
(* target is a label that can be placed only once the address of its       *)
(* instruction is known.  Errors come back by line of the generated text.  *)
(***************************************************************************)
EXTENDS Integers, Sequences, FiniteSetsExt, SequencesExt

CONSTANTS
  Count,         \* how many instructions
  Instructions,  \* what an instruction can be: [size, target, label, uses, broken]
  Labels,        \* the labels that instructions define and use
  Reach,         \* how far a branch reaches
  None

Indices == 1 .. Count

\* size in bytes, 0 for a label, comment or directive; target an offset; a label it defines and one it uses.
\* Assumed of the constants where they are given values.
EncoderAssumption ==
  /\ Count \in Nat \ {0} /\ Reach \in Nat /\ None \notin Int /\ None \notin Labels
  /\ Instructions \subseteq
       [size : Nat, target : Int \cup {None}, label : Labels \cup {None}, uses : Labels \cup {None}, broken : BOOLEAN]

VARIABLES
  sources,   \* the instructions asked for
  targets,   \* where the label of each placed target sits
  errors,    \* the instructions that failed
  result     \* of each instruction, once there is one: "error", "not an instruction" or "encoded"

vars == <<sources, targets, errors, result>>

Numeric(i) == sources[i].target # None
Odd(i) == Numeric(i) /\ sources[i].target % 2 # 0
Empty == [i \in {} |-> 0]

TypeOK ==
  /\ sources \in [Indices -> Instructions]
  /\ errors \subseteq Indices
  /\ DOMAIN targets \subseteq Indices /\ targets \in [DOMAIN targets -> Int]
  /\ result = None \/ DOMAIN result = Indices

\* An odd offset is an error before anything is assembled.
Init ==
  /\ sources \in [Indices -> Instructions]
  /\ targets = Empty
  /\ errors = {i \in Indices : Odd(i)}
  /\ result = None
-----------------------------------------------------------------------------
Line(owner, what) == [owner |-> owner, what |-> what]

\* The lines of an instruction: a target not placed yet is a label on the instruction itself.
LinesOf(i) ==
  IF i \in errors THEN <<>>
  ELSE <<Line(i, ".text")>>
       \o (IF Numeric(i) /\ i \notin DOMAIN targets THEN <<Line(i, "label")>> ELSE <<>>)
       \o <<Line(i, "instruction")>>
PlacedLines(i) == IF i \in DOMAIN targets THEN <<Line(i, ".text at"), Line(i, "label")>> ELSE <<>>
Text == FlattenSeq([i \in Indices |-> LinesOf(i)]) \o FlattenSeq([i \in Indices |-> PlacedLines(i)])

Owner(line) == Text[line].owner

\* RARS: instructions follow one another from the start of the text segment (address 0 here).
Address(i) == MapThenSumSet(LAMBDA j : sources[j].size, {j \in 1 .. i - 1 : j \notin errors})
LabelOf(i) == IF i \in DOMAIN targets THEN targets[i] ELSE Address(i)
Reaches(i) == LabelOf(i) - Address(i) \in -Reach .. Reach
Defining(label) == {i \in Indices : sources[i].label = label}
Defined(label) == label = None \/ ~(Defining(label) \subseteq errors)
\* A label that is defined twice is an error of the second.
Repeats(i, all) == sources[i].label # None /\ \E j \in all : j < i /\ sources[j].label = sources[i].label

\* RARS: the lines the assembler cannot assemble.
Fails(line) ==
  LET i == Text[line].owner IN
  /\ Text[line].what = "instruction"
  /\ \/ sources[i].broken \/ Repeats(i, Indices \ errors)
     \/ ~Defined(sources[i].uses) \/ (Numeric(i) /\ ~Reaches(i))
FailingLines == {line \in DOMAIN Text : Fails(line)}
-----------------------------------------------------------------------------
\* Faulty variant: the labels stay where they are.
TargetsKept == targets
TargetsAfterErrors == Empty

\* RARS reports some of the errors: those of one pass are reported before the next one runs.
AttemptFails ==
  /\ result = None
  /\ \E reported \in SUBSET FailingLines :
       /\ reported # {}
       /\ errors' = errors \cup {Owner(line) : line \in reported}
  /\ targets' = TargetsAfterErrors
  /\ UNCHANGED <<sources, result>>

\* Faulty variant: every target is placed again.
Placeable(i) == Numeric(i) /\ i \notin errors
ToPlace(i) == Numeric(i) /\ i \notin errors /\ i \notin DOMAIN targets

PlaceTargets ==
  /\ result = None /\ FailingLines = {}
  /\ \E i \in Indices : ToPlace(i)
  /\ targets' = [i \in DOMAIN targets \cup {j \in Indices : ToPlace(j)} |->
                   IF ToPlace(i) THEN Address(i) + sources[i].target ELSE targets[i]]
  /\ UNCHANGED <<sources, errors, result>>

Results ==
  /\ result = None /\ FailingLines = {}
  /\ \A i \in Indices : ~ToPlace(i)
  /\ result' = [i \in Indices |-> IF i \in errors THEN "error"
                                  ELSE IF sources[i].size = 0 THEN "not an instruction" ELSE "encoded"]
  /\ UNCHANGED <<sources, targets, errors>>

Next == AttemptFails \/ PlaceTargets \/ Results
\* One synchronous call.
Spec == Init /\ [][Next]_vars /\ WF_vars(Next)
-----------------------------------------------------------------------------
(***************************************************************************)
(* A placed target is as far from its instruction as was asked for, in the *)
(* program that is assembled now: no label is left from an attempt in      *)
(* which the instruction was elsewhere.  And when the result is there,     *)
(* every numeric target that did not fail has been placed.                 *)
(***************************************************************************)
TargetsFresh ==
  /\ \A i \in DOMAIN targets : targets[i] = Address(i) + sources[i].target
  /\ result # None => \A i \in Indices \ errors : Numeric(i) => i \in DOMAIN targets

\* The instructions that are wrong in themselves, and those that define a label again.
Wrong ==
  {i \in Indices : Odd(i) \/ sources[i].broken \/ (Numeric(i) /\ sources[i].target \notin -Reach .. Reach)}
Repeated == {i \in Indices : Repeats(i, Indices)}
\* The least set with these that has every instruction whose label only its own instructions define.
Closed(faulty) ==
  \A i \in Indices : sources[i].uses # None /\ Defining(sources[i].uses) \subseteq faulty => i \in faulty
Least(these) == {i \in Indices : \A faulty \in SUBSET Indices : these \subseteq faulty /\ Closed(faulty) => i \in faulty}

(***************************************************************************)
(* "An instruction that fails is left out of the next attempt, so the      *)
(* others still encode": only those fail that are wrong in themselves,     *)
(* define a label again, or use one that only such instructions define.    *)
(* One that repeats the label of an instruction that fails as well may be  *)
(* reported before that one is left out, and is not tried again.           *)
(***************************************************************************)
OthersStillEncode == errors \subseteq Least(Wrong \cup Repeated)

(***************************************************************************)
(* In whatever order the assembler reports errors, the result names all    *)
(* the instructions that cannot be encoded, and of those that can no two   *)
(* define one label.                                                       *)
(***************************************************************************)
AllErrorsFound ==
  result # None => Least(Wrong) \subseteq errors /\ \A i \in Indices \ errors : ~Repeats(i, Indices \ errors)

(***************************************************************************)
(* The attempts end: each one that fails leaves another instruction out,   *)
(* and targets are placed once between two failures.                       *)
(***************************************************************************)
AttemptsEnd == <>(result # None)
=============================================================================
