------------------------------ MODULE VhdlMutate ------------------------------
(***************************************************************************)
(* Calls of vhdl_mutate (tools/mutate.ts, with the runs of vhdl/nvc.ts):   *)
(* the testbenches run on the design, then on each mutated copy of it,     *)
(* which takes the design's place from a private folder.  Calls run side   *)
(* by side and share the folder of temporary files.                        *)
(***************************************************************************)
EXTENDS Integers, Sequences, FiniteSets, Functions

CONSTANTS
  Calls,      \* the calls
  Tops,       \* the testbenches of each, in order
  Mutants,    \* the mutated copies there are
  Mutations,  \* the copies each call makes, in order
  Design      \* the design as it is

Sources == Mutants \cup {Design}
TopSet == Range(Tops)

\* Assumed of the constants where they are given values.
MutateAssumption ==
  /\ Design \notin Mutants
  /\ Tops \in Seq(TopSet) /\ Tops # <<>>
  /\ \A c \in Calls : Mutations[c] \in Seq(Mutants) /\ Mutations[c] # <<>>

VARIABLES
  verdict,   \* what a testbench does on a source: pass, fail, never end, or the source does not analyse
  disk,      \* the mutated copy in each temporary folder
  call       \* of each call: phase; folder, 0 for none; the mutation and testbench it is at; which testbenches
             \* were ok on the design; those that caught and missed this mutation; the results so far

vars == <<verdict, disk, call>>

Empty == [f \in {} |-> Design]
Folders == 1 .. Cardinality(Calls)
Verdicts == [Sources \X TopSet -> {"pass", "fail", "endless", "broken"}]
Scores == [caughtBy : SUBSET TopSet, missedBy : SUBSET TopSet]

TypeOK ==
  /\ verdict \in Verdicts
  /\ DOMAIN disk \subseteq Folders /\ Range(disk) \subseteq Mutants
  /\ \A c \in Calls :
       /\ call[c].phase \in {"baseline", "folder", "write", "run", "remove", "answered", "refused", "throwing", "thrown"}
       /\ call[c].folder \in Folders \cup {0}
       /\ call[c].mutant \in DOMAIN Mutations[c] /\ call[c].top \in DOMAIN Tops
       /\ call[c].score \in Scores /\ call[c].results \in Seq(Scores) /\ call[c].oks \in Seq(BOOLEAN)

NoScore == [caughtBy |-> {}, missedBy |-> {}]
\* A copy that does not analyse does so for every testbench.
Init ==
  /\ \E broken \in SUBSET Mutants :
       verdict \in {v \in Verdicts : \A s \in Sources, t \in TopSet : v[<<s, t>>] = "broken" <=> s \in broken}
  /\ disk = Empty
  /\ call = [c \in Calls |-> [phase |-> "baseline", folder |-> 0, mutant |-> 1, top |-> 1,
                             oks |-> <<>>, score |-> NoScore, results |-> <<>>]]

\* nvc ended by itself, with 0 and without an error, and before the time limit.
Ok(source, t) == verdict[<<source, t>>] = "pass"
LastTop(c) == call[c].top = Len(Tops)
TopAfter(c) == IF LastTop(c) THEN 1 ELSE call[c].top + 1

BaselineOk(oks) == FALSE \notin Range(oks)

RunBaseline(c) ==
  LET oks == Append(call[c].oks, Ok(Design, Tops[call[c].top])) IN
  /\ call[c].phase = "baseline"
  /\ call' = [call EXCEPT ![c].oks = oks, ![c].top = TopAfter(c),
       ![c].phase = IF ~LastTop(c) THEN @ ELSE IF BaselineOk(oks) THEN "folder" ELSE "refused"]
  /\ UNCHANGED <<verdict, disk>>

\* Faulty variant: a folder named after the design.
NamedAfterDesign(f) == f = 1
\* mkdtemp: a folder nothing else has.
Fresh(f) == \A c \in Calls : call[c].folder # f

MakeFolder(c) ==
  /\ call[c].phase = "folder"
  /\ \E f \in Folders :
       /\ Fresh(f) /\ \A g \in 1 .. f - 1 : ~Fresh(g)
       /\ call' = [call EXCEPT ![c].folder = f, ![c].phase = "write"]
  /\ UNCHANGED <<verdict, disk>>

WriteMutant(c) ==
  LET own == call[c].folder IN
  /\ call[c].phase = "write"
  /\ disk' = [f \in DOMAIN disk \cup {own} |-> IF f = own THEN Mutations[c][call[c].mutant] ELSE disk[f]]
  /\ call' = [call EXCEPT ![c].score = NoScore, ![c].phase = "run"]
  /\ UNCHANGED verdict

AfterThrow == "throwing"

More(c) == call[c].mutant < Len(Mutations[c])

RunMutant(c) ==
  LET source == IF call[c].folder \in DOMAIN disk THEN disk[call[c].folder] ELSE Design
      t == Tops[call[c].top]
      score == IF Ok(source, t) THEN [call[c].score EXCEPT !.missedBy = @ \cup {t}]
               ELSE [call[c].score EXCEPT !.caughtBy = @ \cup {t}]
      to == IF ~LastTop(c) THEN "run" ELSE IF More(c) THEN "write" ELSE "remove" IN
  /\ call[c].phase = "run"
  /\ call' = IF verdict[<<source, t>>] = "broken" THEN [call EXCEPT ![c].phase = AfterThrow]
             ELSE [call EXCEPT ![c].score = score, ![c].top = TopAfter(c), ![c].phase = to,
                     ![c].mutant = IF to = "write" THEN @ + 1 ELSE @,
                     ![c].results = IF LastTop(c) THEN Append(@, score) ELSE @]
  /\ UNCHANGED <<verdict, disk>>

\* The copy cannot be written, or nvc cannot be started.
Throws(c) ==
  /\ call[c].phase \in {"baseline", "folder", "write", "run"}
  /\ call' = [call EXCEPT ![c].phase = IF call[c].folder = 0 THEN "thrown" ELSE AfterThrow]
  /\ UNCHANGED <<verdict, disk>>

RemoveFolder(c) ==
  /\ call[c].phase \in {"remove", "throwing"}
  /\ disk' = [f \in DOMAIN disk \ {call[c].folder} |-> disk[f]]
  /\ call' = [call EXCEPT ![c].folder = 0, ![c].phase = IF @ = "remove" THEN "answered" ELSE "thrown"]
  /\ UNCHANGED verdict

Step(c) == RunBaseline(c) \/ MakeFolder(c) \/ WriteMutant(c) \/ RunMutant(c) \/ Throws(c) \/ RemoveFolder(c)
Next == \E c \in Calls : Step(c)
\* Each await ends: a run has a time limit.
Fairness == \A c \in Calls : WF_vars(Step(c))
Spec == Init /\ [][Next]_vars /\ Fairness
-----------------------------------------------------------------------------
(***************************************************************************)
(* Every testbench is scored on every mutation of its own call: it misses  *)
(* the mutation exactly when it passes on that copy, whatever other calls  *)
(* write meanwhile, and it passed on the design itself.                    *)
(***************************************************************************)
ScoredOnOwnMutant ==
  \A c \in Calls : \A i \in DOMAIN call[c].results :
    /\ call[c].results[i].missedBy = {t \in TopSet : verdict[<<Mutations[c][i], t>>] = "pass"}
    /\ call[c].results[i].caughtBy = TopSet \ call[c].results[i].missedBy

(***************************************************************************)
(* "The unmutated design runs first": no mutation is scored while a        *)
(* testbench fails on the design, which would count each as caught, and    *)
(* an answer scores them all.                                              *)
(***************************************************************************)
BaselineFirst ==
  \A c \in Calls :
    /\ call[c].results # <<>> => \A t \in TopSet : verdict[<<Design, t>>] = "pass"
    /\ call[c].phase = "answered" => Len(call[c].results) = Len(Mutations[c])

(***************************************************************************)
(* Every call ends, and the folder of temporary files is then as it was,   *)
(* however the call ended.                                                 *)
(***************************************************************************)
EndsClean ==
  <>[](disk = Empty /\ \A c \in Calls : call[c].phase \in {"answered", "refused", "thrown"})
=============================================================================
