------------------------------- MODULE ToolRuns -------------------------------
(***************************************************************************)
(* The tools that run other programs: a call of rars_run or rars_assemble  *)
(* (RunTool), one run of RARS or of the VHDL simulator (SimulatorProcess), *)
(* the dry run of a do file (DoFileRun), and calls that score mutations    *)
(* (VhdlMutate).  They share no state: a behaviour is of one of them,      *)
(* chosen at the start, and the variables of the others are None.          *)
(***************************************************************************)
EXTENDS Naturals, Sequences

CONSTANTS
  Dumps, Before,                             \* of RunTool
  Stdins, MaxPrinted,                        \* of SimulatorProcess
  MaxMessages,                               \* of DoFileRun
  Calls, Tops, Mutants, Mutations, Design,   \* of VhdlMutate
  Limit, None

VARIABLES
  tool,  \* "run", "simulate", "do file" or "mutate"
  inline, labels, toFile, broken, phase, source, bridge, folder, noLabels, files, ran, missing, returned, throwing,
  outcome, stuck,
  child, timedOut, truncated, timer, settled,  \* of SimulatorProcess and of DoFileRun
  withStdin, pipe, kept, stdin, server, printed,
  out, exit, answers, steps, errors, captured, complained, partial, finished, failure, stdinError, lookups, directory, written,
  verdict, disk, call

Run == INSTANCE RunTool
Process == INSTANCE SimulatorProcess
DoFile == INSTANCE DoFileRun
Mutate == INSTANCE VhdlMutate

ASSUME ToolRunsAssumption ==
  /\ Limit \in Nat /\ MaxPrinted \in Nat /\ MaxMessages \in Nat
  /\ Stdins \subseteq BOOLEAN
  /\ Mutate!MutateAssumption

callVars == <<inline, labels, toFile, broken, phase, source, bridge, folder, noLabels, files, ran, missing, returned,
              throwing, outcome, stuck>>
processVars == <<withStdin, pipe, kept, stdin, server, printed>>
doFileVars == <<out, exit, answers, steps, errors, captured, complained, partial, finished, failure, stdinError, lookups,
                directory, written>>
runVars == <<child, timedOut, truncated, timer, settled>>
mutateVars == <<verdict, disk, call>>
vars == <<tool, callVars, runVars, processVars, doFileVars, mutateVars>>

NoCall ==
  /\ inline = None /\ labels = None /\ toFile = None /\ broken = None /\ phase = None /\ source = None
  /\ bridge = None /\ folder = None /\ noLabels = None /\ files = None /\ ran = None /\ missing = None
  /\ returned = None /\ throwing = None /\ outcome = None /\ stuck = None
NoProcess == withStdin = None /\ pipe = None /\ kept = None /\ stdin = None /\ server = None /\ printed = None
NoDoFile ==
  /\ out = None /\ exit = None /\ answers = None /\ steps = None /\ errors = None /\ captured = None /\ complained = None
  /\ partial = None /\ finished = None /\ failure = None /\ stdinError = None /\ lookups = None
  /\ directory = None /\ written = None
NoRun == child = None /\ timedOut = None /\ truncated = None /\ timer = None /\ settled = None
NoMutate == verdict = None /\ disk = None /\ call = None

Init ==
  \/ tool = "run" /\ Run!Init /\ NoRun /\ NoProcess /\ NoDoFile /\ NoMutate
  \/ tool = "simulate" /\ Process!Init /\ NoCall /\ NoDoFile /\ NoMutate
  \/ tool = "do file" /\ DoFile!Init /\ NoCall /\ NoProcess /\ NoMutate
  \/ tool = "mutate" /\ Mutate!Init /\ NoCall /\ NoRun /\ NoProcess /\ NoDoFile

\* The fairness of each tool: awaits end, callbacks are called, timers fire, and SIGKILL ends a program.
Calling(A) == tool = "run" /\ A /\ UNCHANGED <<tool, runVars, processVars, doFileVars, mutateVars>>
Simulating(A) == tool = "simulate" /\ A /\ UNCHANGED <<tool, callVars, doFileVars, mutateVars>>
RunningDoFile(A) == tool = "do file" /\ A /\ UNCHANGED <<tool, callVars, processVars, mutateVars>>
Scoring(A) == tool = "mutate" /\ A /\ UNCHANGED <<tool, callVars, runVars, processVars, doFileVars>>
Next == Calling(Run!Next) \/ Simulating(Process!Next) \/ RunningDoFile(DoFile!Next) \/ Scoring(Mutate!Next)
Fairness ==
  /\ WF_vars(Calling(Run!Call))
  /\ \A s \in {"stdout", "stderr"} : WF_vars(Simulating(Process!Data(s)))
  /\ WF_vars(Simulating(Process!TimerFires)) /\ WF_vars(Simulating(Process!ExitSeen))
  /\ WF_vars(Simulating(Process!Close)) /\ WF_vars(Simulating(Process!Dies))
  /\ WF_vars(RunningDoFile(DoFile!Data)) /\ WF_vars(RunningDoFile(DoFile!Located))
  /\ WF_vars(RunningDoFile(DoFile!TimerFires)) /\ WF_vars(RunningDoFile(DoFile!Close))
  /\ WF_vars(RunningDoFile(DoFile!Settle)) /\ WF_vars(RunningDoFile(DoFile!DiesOfSignal))
  /\ \A c \in Calls : WF_vars(Scoring(Mutate!Step(c)))
Spec == Init /\ [][Next]_vars /\ Fairness
-----------------------------------------------------------------------------
(***************************************************************************)
(* What a run reports is all there is or is said to be cut: the output of  *)
(* RARS and of the simulator, the steps and errors of a do file, of which a *)
(* cut run has the first ones; and a call that completed ran its program   *)
(* to the end and has every dump (SimulatorProcess, DoFileRun, RunTool).   *)
(***************************************************************************)
ReportedWhole ==
  /\ tool = "run" => Run!CompletedIsComplete
  /\ tool = "simulate" => Process!OutputWhole
  /\ tool = "do file" => DoFile!WholeIsWhole /\ DoFile!CutIsPrefix

(***************************************************************************)
(* Once a run is settled nothing of it is left: no program, no bridge, no  *)
(* timer, no lookup, and no folder of a call but one whose removal failed, *)
(* which the call then throws; no folder goes while a program uses it.     *)
(***************************************************************************)
NothingLeft ==
  /\ tool = "run" => Run!NothingLeft
  /\ tool = "simulate" => Process!NothingLeft
  /\ tool = "do file" => DoFile!NothingLeft

(***************************************************************************)
(* Every testbench is scored on the mutations of its own call, whatever    *)
(* another call writes meanwhile, and none while a testbench fails on the  *)
(* design itself (VhdlMutate).                                             *)
(***************************************************************************)
ScoresRight == tool = "mutate" => Mutate!ScoredOnOwnMutant /\ Mutate!BaselineFirst

(***************************************************************************)
(* Every call and run ends, whatever the program or script, and tclsh and  *)
(* the runner never wait for each other on the way; every call that scores *)
(* mutations ends and leaves no folder.                                    *)
(***************************************************************************)
RunSettles ==
  /\ tool = "run" => Run!CallEnds
  /\ tool = "simulate" => Process!RunSettles
  /\ tool = "do file" => DoFile!RunSettles /\ []DoFile!NobodyWaitsForNothing
  /\ tool = "mutate" => Mutate!EndsClean
=============================================================================
