---------------------------- MODULE RarsSimulator ----------------------------
(***************************************************************************)
(* The debugger the bridge drives (sim/RarsSimulator.java): one loaded     *)
(* program, its run/stop status, backstep history, breakpoints and the     *)
(* output of the current run.  RARS itself is external: an instruction     *)
(* goes to some address, may write output, and ends for some reason.       *)
(*                                                                         *)
(* Every public method is synchronized and ends in a snapshot, which hands *)
(* over the new output; "activity" is where the method in progress is.     *)
(***************************************************************************)
EXTENDS Naturals, Sequences

CONSTANTS
  Addresses,    \* code addresses a program counter or a breakpoint may have
  Entry,        \* where a run starts
  MaxRuns,      \* bounds the loads and resets
  OutputLimit,  \* the most output one run keeps (maxOutputBytes), in chunks
  MaxHistory    \* how many instructions RARS's BackStepper remembers

ASSUME SimulatorAssumption ==
  /\ Entry \in Addresses
  /\ MaxRuns \in Nat
  /\ OutputLimit \in Nat
  /\ MaxHistory \in Nat

VARIABLES
  program,     \* "none", "setUp", or "rejected": it did not assemble, and has no run
  status,      \* "ready", "paused", "terminated"
  stopReason,  \* why the last step, continue or backstep stopped
  exception,   \* a terminated program's exception is reported
  pc,
  history,     \* what a backstep can undo, the latest instruction last
  breakpoints,
  run,         \* how many loads and resets have started a run
  written,     \* chunks of output kept from the current run
  taken,       \* chunks of it handed over by snapshots
  activity     \* "idle", "step", "continue", or "stopped" before its snapshot

simVars == <<program, status, stopReason, exception, pc, history, breakpoints,
             run, written, taken, activity>>

Terminations == {"exited", "ran_off_end", "exception"}
StopReasons == {"none", "step", "breakpoint", "step_limit", "paused", "backstep",
                "terminated"} \cup Terminations
Undo == [run : Nat, pc : Addresses]

SimTypeOK ==
  /\ program \in {"none", "setUp", "rejected"}
  /\ status \in {"ready", "paused", "terminated"}
  /\ stopReason \in StopReasons
  /\ exception \in BOOLEAN
  /\ pc \in Addresses
  /\ history \in Seq(Undo) /\ Len(history) <= MaxHistory
  /\ breakpoints \subseteq Addresses
  /\ run \in Nat /\ written \in 0 .. OutputLimit /\ taken \in 0 .. written
  /\ activity \in {"idle", "step", "continue", "stopped"}

SimInit ==
  /\ program = "none" /\ status = "ready" /\ stopReason = "none"
  /\ exception = FALSE
  /\ pc = Entry /\ history = <<>> /\ breakpoints = {}
  /\ run = 0 /\ written = 0 /\ taken = 0
  /\ activity = "idle"

Loaded == program # "none"  \* ensureLoaded

-----------------------------------------------------------------------------
(* Loading and resetting *)

\* Faulty variant: the history of the last run is kept.
SetUpKeepsHistory ==
  /\ pc' = Entry
  /\ written' = 0 /\ taken' = 0
  /\ UNCHANGED history
  /\ status' = "paused" /\ stopReason' = "none" /\ exception' = FALSE
  /\ run' = run + 1
\* setup: a new run, which can neither be stepped back past nor add to old output.
SetUp ==
  /\ pc' = Entry
  /\ written' = 0 /\ taken' = 0
  /\ history' = <<>>
  /\ status' = "paused" /\ stopReason' = "none" /\ exception' = FALSE
  /\ run' = run + 1

Load ==
  /\ activity = "idle" /\ run < MaxRuns
  /\ program' = "setUp"
  /\ SetUp
  /\ UNCHANGED <<breakpoints, activity>>

\* The new program replaces the old one, history and all, before it fails to assemble,
\* and assembling moves the program counter; status, reason and output stay.
LoadRejected ==
  /\ activity = "idle"
  /\ program' = "rejected"
  /\ history' = <<>>
  /\ pc' \in Addresses
  /\ UNCHANGED <<status, stopReason, exception, breakpoints, run, written, taken, activity>>

Reset ==
  /\ activity = "idle" /\ Loaded /\ run < MaxRuns
  /\ program' = "setUp"
  /\ SetUp
  /\ UNCHANGED <<breakpoints, activity>>

-----------------------------------------------------------------------------
(* Running *)

EnsureRunnable == Loaded /\ status # "terminated"

Start(what) ==
  /\ activity = "idle" /\ EnsureRunnable
  /\ activity' = what
  /\ UNCHANGED <<program, status, stopReason, exception, pc, history,
                 breakpoints, run, written, taken>>

Stop(newStatus, why) ==
  /\ status' = newStatus /\ stopReason' = why /\ activity' = "stopped"

\* RARS remembers the instruction, forgetting the oldest one at its limit.
Remembered(undo) ==
  IF Len(history) < MaxHistory THEN Append(history, undo)
  ELSE IF MaxHistory = 0 THEN <<>> ELSE Append(Tail(history), undo)

\* What an instruction changes in RARS; output past the limit is dropped, and of a
\* program that was not set up neither the output nor the history is kept.
Execute(next, writes) ==
  /\ activity \in {"step", "continue"}
  /\ pc' = next
  /\ history' = IF program = "setUp" THEN Remembered([run |-> run, pc |-> pc]) ELSE history
  /\ written' = IF writes /\ program = "setUp" /\ written < OutputLimit
                THEN written + 1 ELSE written
  /\ UNCHANGED <<program, breakpoints, run, taken>>

\* The run goes on: a step stops here, a continue only at a breakpoint.
InstructionDone(next, writes) ==
  /\ Execute(next, writes)
  /\ \/ activity = "step" /\ Stop("paused", "step")
     \/ activity = "continue" /\ next \in breakpoints /\ Stop("paused", "breakpoint")
     \/ /\ activity = "continue" /\ next \notin breakpoints
        /\ UNCHANGED <<status, stopReason, activity>>
  /\ UNCHANGED exception

\* An ebreak instruction.
ProgramBreak(next, writes) ==
  /\ Execute(next, writes)
  /\ Stop("paused", "breakpoint")
  /\ UNCHANGED exception

\* The program ends; an exception RARS throws is reported, one it returns is not.
ProgramEnd(next, writes, why) ==
  /\ Execute(next, writes)
  /\ Stop("terminated", why)
  /\ exception' \in IF why = "exception" THEN {TRUE, exception} ELSE {exception}

Instruction ==
  \E next \in Addresses, writes \in BOOLEAN :
    \/ InstructionDone(next, writes)
    \/ ProgramBreak(next, writes)
    \/ \E why \in Terminations : ProgramEnd(next, writes, why)

StopContinue(why) ==
  /\ activity = "continue"
  /\ Stop("paused", why)
  /\ UNCHANGED <<program, exception, pc, history, breakpoints, run, written, taken>>

PauseContinue == StopContinue("paused")
LimitContinue == StopContinue("step_limit")

\* RARS fails in a way simulateOne does not expect: the error leaves the status.
RunFails ==
  /\ activity \in {"step", "continue"}
  /\ activity' = "idle"
  /\ UNCHANGED <<program, status, stopReason, exception, pc, history, breakpoints,
                 run, written, taken>>

-----------------------------------------------------------------------------
(* Requests that run nothing *)

Backstep ==
  /\ activity = "idle" /\ Loaded
  /\ history # <<>>
  /\ pc' = history[Len(history)].pc
  /\ history' = SubSeq(history, 1, Len(history) - 1)
  /\ Stop("paused", "backstep")
  /\ exception' = FALSE
  /\ UNCHANGED <<program, breakpoints, run, written, taken>>

Terminate ==
  /\ activity = "idle" /\ Loaded
  /\ Stop("terminated", "terminated")
  /\ UNCHANGED <<program, exception, pc, history, breakpoints, run, written, taken>>

\* A breakpoint may be put anywhere, and stays when another program is loaded.
AddBreakpoint(address) ==
  /\ activity = "idle" /\ Loaded
  /\ breakpoints' = breakpoints \cup {address}
  /\ activity' = "stopped"
  /\ UNCHANGED <<program, status, stopReason, exception, pc, history, run, written, taken>>

RemoveBreakpoint(address) ==
  /\ activity = "idle" /\ Loaded
  /\ breakpoints' = breakpoints \ {address}
  /\ activity' = "stopped"
  /\ UNCHANGED <<program, status, stopReason, exception, pc, history, run, written, taken>>

\* modify, which may write pc; registers and memory are RARS's and not modelled.
Modify(address) ==
  /\ activity = "idle" /\ Loaded
  /\ pc' = address
  /\ activity' = "stopped"
  /\ UNCHANGED <<program, status, stopReason, exception, history, breakpoints, run,
                 written, taken>>

\* inspect, assemble and pause only report the state.
Inspect ==
  /\ activity = "idle" /\ Loaded
  /\ activity' = "stopped"
  /\ UNCHANGED <<program, status, stopReason, exception, pc, history, breakpoints, run,
                 written, taken>>

Report ==
  \/ Backstep \/ Terminate \/ Inspect
  \/ \E address \in Addresses : AddBreakpoint(address) \/ RemoveBreakpoint(address)

ModifyAny == \E address \in Addresses : Modify(address)

\* The snapshot that ends a request hands over the output it had not.
Snapshot ==
  /\ activity = "stopped" /\ run > 0
  /\ taken' = written
  /\ activity' = "idle"
  /\ UNCHANGED <<program, status, stopReason, exception, pc, history, breakpoints,
                 run, written>>

\* An error in its place: there is no output to hand over after a first load that was
\* rejected, or the bridge's hook failed first.
SnapshotFails ==
  /\ activity = "stopped"
  /\ activity' = "idle"
  /\ UNCHANGED <<program, status, stopReason, exception, pc, history, breakpoints,
                 run, written, taken>>

SimNext ==
  \/ Load \/ LoadRejected \/ Reset
  \/ Start("step") \/ Start("continue")
  \/ Instruction \/ PauseContinue \/ LimitContinue \/ RunFails
  \/ Report \/ ModifyAny \/ Snapshot \/ SnapshotFails

SimSpec == SimInit /\ [][SimNext]_simVars

-----------------------------------------------------------------------------
(* Properties *)

(***************************************************************************)
(* A backstep undoes an instruction of the current run only: neither a     *)
(* load or a reset can be stepped back past, nor a load that failed, after *)
(* which the old program's history is out of reach.                        *)
(***************************************************************************)
BackstepStaysInRun ==
  /\ \A i \in DOMAIN history : history[i].run = run
  /\ program = "rejected" => history = <<>>

(***************************************************************************)
(* What a snapshot reports fits together: a terminated program, and only   *)
(* it, has a reason it ended for, and an exception is reported for no      *)
(* other; a backstep or a restart from the end takes both back.            *)
(***************************************************************************)
ReasonFitsStatus ==
  /\ status = "terminated" <=> stopReason \in Terminations \cup {"terminated"}
  /\ exception => status = "terminated"
  /\ status = "ready" => run = 0
=============================================================================
