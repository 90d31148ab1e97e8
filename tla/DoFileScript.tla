----------------------------- MODULE DoFileScript -----------------------------
(***************************************************************************)
(* The dry run of a .do script (the Tcl in vhdl/dofile.ts): files run one  *)
(* top-level command at a time and may run other files; an error is        *)
(* reported by the file it happened in and passed up as reported, unless   *)
(* onerror {resume} holds there; quit ends everything; cd moves the folder *)
(* that paths resolve from, and the recorded steps let analyzeSteps follow *)
(* it.  A file's commands are chosen as they are first run and stay so.    *)
(***************************************************************************)
EXTENDS Naturals, Sequences, SequencesExt

CONSTANTS
  Files,     \* the files of the workspace, "main" among them
  MaxDepth,  \* how deep files may nest (32 in the code)
  MaxLines   \* bounds the commands of a file

\* Assumed of the constants where they are given values.
ScriptAssumption == "main" \in Files /\ MaxDepth \in Nat \ {0} /\ MaxLines \in Nat

VARIABLES
  script,    \* the commands of each file, as far as they were run
  stack,     \* the files running, outermost first: [file, line, callerOnerror]
  onerror,   \* "resume" or what else onerror was set to
  depth,     \* how many files are running
  cwd,       \* the folder the script is in
  steps,     \* the steps reported: [command, folder], folder only of a cd
  errors,    \* the errors reported: [file, line, step]
  raised,    \* the error on its way up: "none", "tcl", "reported", "quit", "fatal"
  answering, \* the runner still answers lookups
  status,    \* "running", "done" or "crashed"
  ownOnerror,\* history: what each running file itself set onerror to
  wasIn,     \* history: the folder the script was in after each step
  happened,  \* history: where each error happened
  stopped    \* history: an error was reported that no running file resumes after or catches

vars == <<script, stack, onerror, depth, cwd, steps, errors, raised, answering, status,
          ownOnerror, wasIn, happened, stopped>>

Folders == {"start", "sub"}
Plain == {"vcom", "fail", "quit", "cd", "cd outside", "return", "end"}
Onerrors == {"resume", "stop"}
Op(names, targets, caught) == [name : names, to : targets, caught : caught]
Commands ==
  Op(Plain, {"none"}, {FALSE}) \cup Op({"onerror"}, Onerrors, {FALSE})
  \cup Op({"do"}, Files, BOOLEAN) \cup Op({"quit"}, {"none"}, {TRUE})

TypeOK ==
  /\ script \in [Files -> Seq(Commands)]
  /\ stack \in Seq([file : Files, line : Nat, callerOnerror : Onerrors])
  /\ onerror \in Onerrors /\ depth \in 0 .. MaxDepth /\ cwd \in Folders
  /\ steps \in Seq([command : STRING, folder : Folders \cup {"none"}])
  /\ errors \in Seq([file : Files, line : Nat, step : Nat])
  /\ raised \in {"none", "tcl", "reported", "quit", "fatal"}
  /\ answering \in BOOLEAN /\ status \in {"running", "done", "crashed"}

\* The main file is running: runFile was called for it.
Init ==
  /\ script = [f \in Files |-> <<>>]
  /\ stack = <<[file |-> "main", line |-> 1, callerOnerror |-> "stop"]>>
  /\ onerror = "stop" /\ depth = 1 /\ cwd = "start"
  /\ steps = <<>> /\ errors = <<>> /\ raised = "none"
  /\ answering = TRUE /\ status = "running"
  /\ ownOnerror = <<"none">> /\ wasIn = <<>> /\ happened = <<>>
  /\ stopped = FALSE

Top == Last(stack)
Known == Top.line <= Len(script[Top.file])
Command == script[Top.file][Top.line]
Here == [file |-> Top.file, line |-> Top.line, step |-> Len(steps)]

NextLine == stack' = [stack EXCEPT ![Len(stack)].line = @ + 1]
EmitStep(command, folder, after) ==
  steps' = Append(steps, [command |-> command, folder |-> folder]) /\ wasIn' = Append(wasIn, after)

\* The command at the line of the file on top is read for the first time.
ReadCommand ==
  /\ status = "running" /\ raised = "none" /\ stack # <<>> /\ ~Known
  /\ \E c \in Commands :
       /\ Top.line > MaxLines => c.name = "end"
       /\ script' = [script EXCEPT ![Top.file] = Append(@, c)]
  /\ UNCHANGED <<stack, onerror, depth, cwd, steps, errors, raised, answering, status,
                 ownOnerror, wasIn, happened, stopped>>

Runs(name) ==
  /\ status = "running" /\ raised = "none" /\ stack # <<>> /\ Known /\ Command.name = name
  /\ UNCHANGED <<script, errors, status, stopped>>

Raise(error) == raised' = error /\ UNCHANGED stack
Continues == UNCHANGED <<onerror, depth, answering, ownOnerror>>

Record ==
  /\ Runs("vcom")
  /\ EmitStep("vcom", "none", cwd) /\ NextLine
  /\ Continues /\ UNCHANGED <<cwd, raised, happened>>

\* A command Tcl fails: nothing is recorded.
TclError ==
  /\ Runs("fail")
  /\ Raise("tcl") /\ happened' = Append(happened, Here)
  /\ Continues /\ UNCHANGED <<cwd, steps, wasIn>>

OnerrorCommand ==
  /\ Runs("onerror")
  /\ EmitStep("onerror", "none", cwd) /\ NextLine
  /\ onerror' = Command.to
  /\ ownOnerror' = [ownOnerror EXCEPT ![Len(stack)] = Command.to]
  /\ UNCHANGED <<depth, answering, cwd, raised, happened>>

\* quit raises an error of its own kind, which a catch in the script catches like any other.
Quit ==
  /\ Runs("quit")
  /\ EmitStep("quit", "none", cwd)
  /\ IF Command.caught THEN NextLine /\ UNCHANGED raised ELSE Raise("quit")
  /\ Continues /\ UNCHANGED <<cwd, happened>>

StepFolder(to) == to
\* cd asks the runner, and moves only within the workspace; cd outside is refused.
Cd ==
  /\ \/ /\ Runs("cd") /\ answering
        /\ \E to \in Folders : cwd' = to /\ EmitStep("cd", StepFolder(to), to)
        /\ NextLine /\ UNCHANGED <<raised, happened>>
     \/ /\ Runs("cd outside") /\ answering
        /\ EmitStep("cd", "none", cwd) /\ UNCHANGED cwd
        /\ Raise("tcl") /\ happened' = Append(happened, [Here EXCEPT !.step = @ + 1])
     \/ /\ (Runs("cd") \/ Runs("cd outside")) /\ ~answering
        /\ EmitStep("cd", "none", cwd) /\ Raise("fatal") /\ UNCHANGED <<cwd, happened>>
  /\ Continues

Push(f) ==
  /\ stack' = Append(stack, [file |-> f, line |-> 1, callerOnerror |-> onerror])
  /\ depth' = depth + 1
  /\ ownOnerror' = Append(ownOnerror, "none")

\* do runs a file: the runner says where it is, or that it is missing.
IncludeFails(error) ==
  /\ IF Command.caught THEN NextLine /\ UNCHANGED <<raised, happened>>
     ELSE /\ Raise(error)
          /\ happened' = IF error = "tcl" THEN Append(happened, [Here EXCEPT !.step = @ + 1]) ELSE happened
  /\ UNCHANGED <<depth, ownOnerror>>

MayNest == depth < MaxDepth

Include ==
  /\ Runs("do")
  /\ EmitStep("do", "none", cwd)
  /\ \/ answering /\ MayNest /\ Push(Command.to) /\ UNCHANGED <<raised, happened>>
     \/ answering /\ IncludeFails("tcl")  \* it is missing, or nests too deep
     \/ ~answering /\ IncludeFails("fatal")
  /\ UNCHANGED <<onerror, answering, cwd>>

\* The runner goes: every later lookup fails.
RunnerStops ==
  /\ status = "running" /\ answering
  /\ answering' = FALSE
  /\ UNCHANGED <<script, stack, onerror, depth, cwd, steps, errors, raised, status,
                 ownOnerror, wasIn, happened, stopped>>
-----------------------------------------------------------------------------
\* Faulty variant: onerror stays as the file left it.
OnerrorKept == onerror
OnerrorAfter == Top.callerOnerror

\* The file on top ends; the command of the file below that ran it has this outcome.
Pop(error) ==
  LET below == SubSeq(stack, 1, Len(stack) - 1)
      caught == below # <<>> /\ script[Last(below).file][Last(below).line].caught
      passes == error # "none" /\ ~caught
  IN /\ depth' = depth - 1
     /\ onerror' = OnerrorAfter
     /\ ownOnerror' = SubSeq(ownOnerror, 1, Len(stack) - 1)
     /\ raised' = IF passes THEN error ELSE "none"
     /\ stack' = IF passes \/ below = <<>> THEN below ELSE [below EXCEPT ![Len(below)].line = @ + 1]
     /\ UNCHANGED <<cwd, steps, answering, wasIn, happened>>

\* The end of the file, or a return, which ends the file it is in.
FileEnds == (Runs("end") \/ Runs("return")) /\ Pop("none")

Reports == raised = "tcl"

\* Faulty variant: only the file with the error stops at it.
ResumesReported == onerror = "resume" \/ raised = "reported"
Resumes == onerror = "resume"

NobodyContinues ==
  /\ onerror # "resume"
  /\ \A k \in 1 .. Len(stack) - 1 :
       /\ ~script[stack[k].file][stack[k].line].caught
       /\ stack[k + 1].callerOnerror # "resume"

\* runCommands: the error of the command at the line of the file on top.
HandleError ==
  /\ status = "running" /\ raised # "none" /\ stack # <<>>
  /\ errors' = IF Reports THEN Append(errors, Here) ELSE errors
  /\ stopped' = (stopped \/ (Reports /\ NobodyContinues))
  /\ \/ /\ raised \in {"quit", "fatal"}
        /\ Pop(raised)
     \/ /\ raised \in {"tcl", "reported"} /\ ~Resumes
        /\ Pop("reported")
     \/ /\ raised \in {"tcl", "reported"} /\ Resumes
        /\ NextLine /\ raised' = "none"
        /\ Continues /\ UNCHANGED <<cwd, steps, wasIn, happened>>
  /\ UNCHANGED <<script, status>>

\* main: a script that quit or stopped at an error was checked all the same.
MainEnds ==
  /\ status = "running" /\ stack = <<>>
  /\ status' = IF raised = "fatal" THEN "crashed" ELSE "done"
  /\ UNCHANGED <<script, stack, onerror, depth, cwd, steps, errors, raised, answering,
                 ownOnerror, wasIn, happened, stopped>>

Next == ReadCommand \/ Record \/ TclError \/ OnerrorCommand \/ Quit \/ Cd \/ Include
        \/ FileEnds \/ HandleError \/ MainEnds \/ RunnerStops
Spec == Init /\ [][Next]_vars
-----------------------------------------------------------------------------
\* analyzeSteps: the folder a step resolves its paths from, followed through the cd steps.
FolderAfter(k) ==
  LET moves == {j \in 1 .. k : steps[j].command = "cd" /\ steps[j].folder # "none"}
  IN IF moves = {} THEN "start" ELSE steps[CHOOSE j \in moves : \A i \in moves : i <= j].folder

(***************************************************************************)
(* onerror {resume} applies to the file that sets it and to the files that *)
(* file runs: it is what the innermost running file that set it set it to, *)
(* and "stop" when no running file did.                                    *)
(***************************************************************************)
OnerrorScoped ==
  LET setters == {k \in DOMAIN ownOnerror : ownOnerror[k] # "none"}
  IN stack # <<>> =>
       /\ depth = Len(stack)
       /\ onerror = IF setters = {} THEN "stop" ELSE ownOnerror[CHOOSE k \in setters : \A j \in setters : j <= k]

(***************************************************************************)
(* Every error is reported once, in order, at the place it happened and    *)
(* with the number of steps before it, however many files it passes; one   *)
(* that was not reported yet is still on its way, or the script is gone.   *)
(***************************************************************************)
ReportedOnce == IF raised = "tcl" THEN Front(happened) = errors ELSE happened = errors

(***************************************************************************)
(* The folder analyzeSteps makes out from the recorded steps is the one    *)
(* the script really was in, also after a cd that failed and after a file  *)
(* that moved and ended.                                                   *)
(***************************************************************************)
FoldersFollowed == \A k \in DOMAIN steps : FolderAfter(k) = wasIn[k]

(***************************************************************************)
(* The script stops at its first error: once one is reported that no       *)
(* running file resumes after and no command catches, nothing is recorded  *)
(* and nothing reported any more, however deep the file it happened in.    *)
(***************************************************************************)
StopsAtError == [][stopped => steps' = steps /\ errors' = errors]_vars
=============================================================================
