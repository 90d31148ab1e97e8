------------------------------- MODULE RunTool -------------------------------
(***************************************************************************)
(* One call of rars_assemble or rars_run (execute, tools/handlers.ts, with *)
(* tools/dumps.ts and prepareSource): the folder of an inline source, a    *)
(* bridge that finds the addresses of the labels to dump, a folder for the *)
(* dumps that are returned, the run of RARS, and what the call answers.    *)
(* Every await may fail.  SimulatorProcess is the run itself.              *)
(***************************************************************************)
EXTENDS Naturals, FiniteSets

CONSTANTS
  Dumps,   \* the dumps a call asks for
  Before   \* whether a file a dump is to be written to may be there already

VARIABLES
  inline,   \* the source comes with the call; else it is files of the workspace, which somebody may edit
  labels,   \* the dumps of a label's address
  toFile,   \* the dumps into files of the workspace; the contents of the others are returned
  broken,   \* the program does not assemble
  phase,    \* what the call awaits
  source, bridge, folder,  \* the folder of the source, the bridge and the folder of the dumps are there
  noLabels, \* the bridge could not assemble the program: there are no dumps (assemblyError)
  files,    \* what stands where each dump is to be written: "none", "old" or "new"
  ran,      \* how RARS ended
  missing,  \* the dumps found unwritten
  returned, \* the dumps whose contents are in the answer
  throwing, \* an exception is on its way out
  outcome,  \* "none", "completed", "error" or "thrown"
  stuck     \* history: the folders that could not be removed, "source" and "dumps"

vars == <<inline, labels, toFile, broken, phase, source, bridge, folder, noLabels, files, ran, missing,
          returned, throwing, outcome, stuck>>
inputs == <<inline, labels, toFile>>
held == <<source, bridge, folder, stuck>>

Ends == {"timed out", "cut", "rejected", "not assembled", "faulted", "step limit", "done"}

Init ==
  /\ inline \in BOOLEAN /\ labels \in SUBSET Dumps /\ toFile \in SUBSET Dumps
  /\ broken \in BOOLEAN
  /\ phase = "source" /\ source = FALSE /\ bridge = FALSE /\ folder = FALSE /\ noLabels = FALSE
  /\ \E old \in SUBSET toFile :
       /\ old # {} => Before
       /\ files = [d \in Dumps |-> IF d \in old THEN "old" ELSE "none"]
  /\ ran = "not yet" /\ missing = {} /\ returned = {} /\ throwing = FALSE /\ outcome = "none"
  /\ stuck = {}

\* The user edits the files: the program may assemble now, or no longer.
Edit ==
  /\ ~inline /\ outcome = "none"
  /\ broken' = ~broken
  /\ UNCHANGED <<inputs, phase, held, noLabels, files, ran, missing, returned, throwing, outcome>>

\* Where the finally blocks around an await lead when it throws.
Unwinds ==
  CASE phase \in {"source", "files", "bridge", "resolve", "prepare"} -> "remove source"
    [] phase = "symbols" -> "close bridge"
    [] phase \in {"run", "dumps"} -> "remove dumps"
    [] phase = "report" -> "remove source"
Throws ==
  /\ phase \in {"source", "files", "bridge", "symbols", "resolve", "prepare", "run", "dumps", "report"}
  /\ phase' = Unwinds /\ throwing' = TRUE
  /\ UNCHANGED <<inputs, broken, held, noLabels, files, ran, missing, returned, outcome>>

\* A source that cannot be written takes its folder with it, and the call throws (Throws).
PrepareSource ==
  /\ phase = "source"
  /\ source' = inline /\ phase' = "files"
  /\ UNCHANGED <<inputs, broken, bridge, folder, stuck, noLabels, files, ran, missing, returned, throwing, outcome>>

ResolveFiles ==
  /\ phase = "files"
  /\ phase' = IF labels = {} THEN "resolve" ELSE "bridge"
  /\ UNCHANGED <<inputs, broken, held, noLabels, files, ran, missing, returned, throwing, outcome>>

\* The bridge assembles the program; it refuses a broken one and ends.
StartBridge ==
  /\ phase = "bridge"
  /\ noLabels' = broken /\ bridge' = ~broken
  /\ phase' = IF broken THEN "prepare" ELSE "symbols"
  /\ UNCHANGED <<inputs, broken, source, folder, stuck, files, ran, missing, returned, throwing, outcome>>

ReadSymbols ==
  /\ phase = "symbols"
  /\ phase' = "close bridge"
  /\ UNCHANGED <<inputs, broken, held, noLabels, files, ran, missing, returned, throwing, outcome>>

CloseBridge ==
  /\ phase = "close bridge"
  /\ bridge' = FALSE /\ phase' = IF throwing THEN "remove source" ELSE "resolve"
  /\ UNCHANGED <<inputs, broken, source, folder, stuck, noLabels, files, ran, missing, returned, throwing, outcome>>

\* A label that is unknown or not aligned, or a range past the end, throws (Throws).
ResolveDumps ==
  /\ phase = "resolve"
  /\ phase' = "prepare"
  /\ UNCHANGED <<inputs, broken, held, noLabels, files, ran, missing, returned, throwing, outcome>>

Requested == IF noLabels THEN {} ELSE Dumps
PrepareDumps ==
  /\ phase = "prepare"
  /\ folder' = (Requested \ toFile # {}) /\ phase' = "run"
  /\ UNCHANGED <<inputs, broken, source, bridge, stuck, noLabels, files, ran, missing, returned, throwing, outcome>>

\* RARS writes the dumps once the program assembled, all it can; one it is stopped in, some of them.
WritesDumps(end) == end \in {"faulted", "step limit", "done", "timed out", "cut"}
RunRars ==
  /\ phase = "run"
  /\ \E end \in Ends, wrote \in SUBSET Requested :
       /\ end \notin {"rejected", "timed out", "cut"} => (broken <=> end = "not assembled")
       /\ wrote # {} => WritesDumps(end) /\ ~broken
       /\ ran' = end
       /\ files' = [d \in Dumps |-> IF d \in wrote THEN "new" ELSE files[d]]
  /\ phase' = "dumps"
  /\ UNCHANGED <<inputs, broken, held, noLabels, missing, returned, throwing, outcome>>

Finished == ran \notin {"timed out", "cut", "rejected"}
DumpsWritten == Finished /\ ran # "not assembled"

Missing(d) == files[d] = "none"

ReadDumps ==
  /\ phase = "dumps"
  /\ missing' = IF DumpsWritten THEN {d \in Requested : Missing(d)} ELSE {}
  /\ returned' = IF DumpsWritten THEN {d \in Requested \ toFile : files[d] # "none"} ELSE {}
  /\ phase' = "remove dumps"
  /\ UNCHANGED <<inputs, broken, held, noLabels, files, ran, throwing, outcome>>

\* A folder that cannot be removed stays, and the call throws.
RemoveDumps ==
  /\ phase = "remove dumps"
  /\ \/ /\ folder' = FALSE /\ phase' = IF throwing THEN "remove source" ELSE "report"
        /\ UNCHANGED <<throwing, stuck>>
     \/ /\ folder /\ phase' = "remove source" /\ throwing' = TRUE /\ stuck' = stuck \cup {"dumps"}
        /\ UNCHANGED folder
  /\ UNCHANGED <<inputs, broken, source, bridge, noLabels, files, ran, missing, returned, outcome>>

\* The bridge said that the program does not assemble, and RARS did not.
BridgeAlone == noLabels /\ ran # "not assembled"

IsError == ran # "done" \/ missing # {}
Report ==
  /\ phase = "report"
  /\ throwing' = BridgeAlone
  /\ outcome' = IF BridgeAlone THEN "none" ELSE IF IsError THEN "error" ELSE "completed"
  /\ phase' = "remove source"
  /\ UNCHANGED <<inputs, broken, held, noLabels, files, ran, missing, returned>>

RemoveSource ==
  /\ phase = "remove source" /\ phase' = "settled"
  /\ \/ source' = FALSE /\ UNCHANGED <<throwing, stuck>>
     \/ source /\ throwing' = TRUE /\ stuck' = stuck \cup {"source"} /\ UNCHANGED source
  /\ outcome' = IF throwing' THEN "thrown" ELSE outcome
  /\ UNCHANGED <<inputs, broken, bridge, folder, noLabels, files, ran, missing, returned>>

Call == PrepareSource \/ ResolveFiles \/ StartBridge \/ ReadSymbols \/ CloseBridge \/ ResolveDumps \/ PrepareDumps
        \/ RunRars \/ ReadDumps \/ RemoveDumps \/ Report \/ RemoveSource \/ Throws
Next == Call \/ Edit
\* Every await ends: a bridge and a run have a time limit.
Spec == Init /\ [][Next]_vars /\ WF_vars(Call)
-----------------------------------------------------------------------------
(***************************************************************************)
(* A call says that it completed only when RARS ran the program to its end *)
(* and every dump asked for is in its file or in the answer, also when     *)
(* bridge and RARS disagree whether the program assembles.                 *)
(***************************************************************************)
CompletedIsComplete == outcome = "completed" =>
  /\ ran = "done"
  /\ \A d \in Dumps : files[d] # "none" /\ (d \in toFile \/ d \in returned)

(***************************************************************************)
(* However a call ends, its bridge is gone and its folders are, but for one *)
(* that could not be removed, and then the call has thrown; and no folder  *)
(* goes while RARS or a bridge uses what is in it.                         *)
(***************************************************************************)
NothingLeft ==
  /\ phase = "settled" => ~bridge /\ (source <=> "source" \in stuck) /\ (folder <=> "dumps" \in stuck)
  /\ phase = "settled" /\ stuck # {} => outcome = "thrown"
  /\ phase \in {"bridge", "symbols", "run"} => source = inline
  /\ phase \in {"run", "dumps"} => folder = (Requested \ toFile # {})
  /\ bridge => phase \in {"symbols", "close bridge"}

(***************************************************************************)
(* "When RARS writes no file for a dump, the reply is an error" (README):  *)
(* a call that completed has the dumps of this run.                        *)
(***************************************************************************)
DumpsOfThisRun == outcome = "completed" => \A d \in Dumps : files[d] = "new"

(***************************************************************************)
(* Every call ends.                                                        *)
(***************************************************************************)
CallEnds == <>(phase = "settled")
=============================================================================
