--------------------------- MODULE SimulatorProcess ---------------------------
(***************************************************************************)
(* One run of an external program with a time limit and an output limit:   *)
(* runSimulatorProcess (vhdl/process.ts) and, with stdin, runRars          *)
(* (rars/cli.ts).  The program, its pipes and the kernel run beside Node,  *)
(* whose callbacks (a chunk, the timer, a failed write, exit, close) come  *)
(* in any order the pipes and the program allow.  Output is counted.       *)
(***************************************************************************)
EXTENDS Naturals, FiniteSets

CONSTANTS
  Limit,       \* maxOutputBytes
  MaxPrinted,  \* bounds what the program prints
  Stdins       \* whether a run has stdin: runRars (TRUE), runSimulatorProcess (FALSE), or either

VARIABLES
  withStdin,  \* which of the two runs
  child,      \* "starting", "running", "killed" (a signal is on its way), "gone" or "missing"
  pipe,       \* printed to each stream and not read yet
  kept,       \* captured of each stream
  timedOut, truncated,
  timer,      \* the timer is set
  stdin,      \* "none", "pending" (not all read by the program), "written" or "destroyed"
  settled,    \* "no", "result" or "error"
  server,     \* "up", or "down" once an error event had no listener
  printed     \* history: what the program printed to each stream

vars == <<withStdin, child, pipe, kept, timedOut, truncated, timer, stdin, settled, server, printed>>

Streams == {"stdout", "stderr"}
Total(count) == count["stdout"] + count["stderr"]

TypeOK ==
  /\ withStdin \in Stdins
  /\ child \in {"starting", "running", "killed", "gone", "missing"}
  /\ {pipe, kept, printed} \subseteq [Streams -> 0 .. MaxPrinted]
  /\ timedOut \in BOOLEAN /\ truncated \in BOOLEAN /\ timer \in BOOLEAN
  /\ stdin \in {"none", "pending", "written", "destroyed"}
  /\ settled \in {"no", "result", "error"} /\ server \in {"up", "down"}
  /\ Total(kept) <= Limit

\* The program is spawned, the timer set, and stdin given to it, all at once.
Init ==
  /\ withStdin \in Stdins
  /\ child = "starting"
  /\ pipe = [s \in Streams |-> 0] /\ kept = pipe /\ printed = pipe
  /\ timedOut = FALSE /\ truncated = FALSE /\ timer = TRUE
  /\ stdin \in IF withStdin THEN {"none", "pending"} ELSE {"none"}
  /\ settled = "no" /\ server = "up"
-----------------------------------------------------------------------------
\* The program and the kernel.
Alive == child \in {"running", "killed"}
Starts == child = "starting" /\ child' = "running" /\ UNCHANGED <<pipe, stdin, printed>>
Prints ==
  /\ Alive /\ Total(printed) < MaxPrinted
  /\ \E s \in Streams : pipe' = [pipe EXCEPT ![s] = @ + 1] /\ printed' = [printed EXCEPT ![s] = @ + 1]
  /\ UNCHANGED <<child, stdin>>
ReadsStdin ==
  /\ Alive /\ stdin = "pending"
  /\ stdin' = "written" /\ UNCHANGED <<child, pipe, printed>>
ExitsItself == Alive /\ child' = "gone" /\ UNCHANGED <<pipe, stdin, printed>>
DiesOfSignal == child = "killed" /\ child' = "gone" /\ UNCHANGED <<pipe, stdin, printed>>
Program ==
  /\ Starts \/ Prints \/ ReadsStdin \/ ExitsItself \/ DiesOfSignal
  /\ UNCHANGED <<withStdin, kept, timedOut, truncated, timer, settled, server>>
-----------------------------------------------------------------------------
\* Faulty variant: the program is left running.
NotKilled == child
Killed == IF child \in {"starting", "running"} THEN "killed" ELSE child

Room(s) == Limit - Total(kept)

\* A chunk arrives.
Data(s) ==
  /\ server = "up" /\ settled = "no"
  /\ \E chunk \in 1 .. pipe[s] :
       /\ kept' = [kept EXCEPT ![s] = @ + (IF chunk < Room(s) THEN chunk ELSE Room(s))]
       /\ truncated' = (truncated \/ chunk > Room(s))
       /\ child' = IF chunk > Room(s) THEN Killed ELSE child
       /\ pipe' = [pipe EXCEPT ![s] = @ - chunk]
  /\ UNCHANGED <<withStdin, timedOut, timer, stdin, settled, server, printed>>

TimerFires ==
  /\ server = "up" /\ timer
  /\ timer' = FALSE
  /\ timedOut' = (settled = "no")
  /\ child' = Killed
  /\ UNCHANGED <<withStdin, pipe, kept, truncated, stdin, settled, server, printed>>

TimerAfterError == withStdin /\ timer

\* The program cannot be spawned.
SpawnError ==
  /\ server = "up" /\ child = "starting"
  /\ child' = "missing" /\ settled' = "error"
  /\ timer' = TimerAfterError
  /\ stdin' = IF stdin = "pending" THEN "destroyed" ELSE stdin
  /\ UNCHANGED <<withStdin, pipe, kept, timedOut, truncated, server, printed>>

\* Node sees a write to stdin fail before it sees the exit: nobody listens for that error.
StdinError ==
  /\ server = "up" /\ child = "gone" /\ stdin = "pending"
  /\ server' = "down"
  /\ UNCHANGED <<withStdin, child, pipe, kept, timedOut, truncated, timer, stdin, settled, printed>>

\* Node sees the exit, and gives up what is left to write.
ExitSeen ==
  /\ server = "up" /\ child = "gone" /\ stdin = "pending"
  /\ stdin' = "destroyed"
  /\ UNCHANGED <<withStdin, child, pipe, kept, timedOut, truncated, timer, settled, server, printed>>

\* Faulty variant: the exit settles the run, with output still in the pipes.
AtExit == child = "gone"
AtClose == child = "gone" /\ \A s \in Streams : pipe[s] = 0

Close ==
  /\ server = "up" /\ settled = "no" /\ AtClose /\ stdin # "pending"
  /\ timer' = FALSE /\ settled' = "result"
  /\ UNCHANGED <<withStdin, child, pipe, kept, timedOut, truncated, stdin, server, printed>>

Node == (\E s \in Streams : Data(s)) \/ TimerFires \/ ExitSeen \/ Close
Next == Program \/ Node \/ SpawnError \/ StdinError

\* A process that was sent SIGKILL dies.
Dies == DiesOfSignal /\ UNCHANGED <<withStdin, kept, timedOut, truncated, timer, settled, server>>
\* The timer fires, and callbacks are called.
Fairness ==
  /\ \A s \in Streams : WF_vars(Data(s))
  /\ WF_vars(TimerFires) /\ WF_vars(ExitSeen) /\ WF_vars(Close) /\ WF_vars(Dies)
Spec == Init /\ [][Next]_vars /\ Fairness
-----------------------------------------------------------------------------
(***************************************************************************)
(* Unless it says so, a result has all that was printed to both streams,   *)
(* however exit, chunks and the timer were interleaved; and it says that   *)
(* it was truncated exactly when more than the limit was printed.          *)
(***************************************************************************)
OutputWhole == settled = "result" =>
  /\ truncated <=> Total(printed) > Limit
  /\ IF truncated THEN Total(kept) = Limit ELSE kept = printed

(***************************************************************************)
(* Nothing of a run is left once it is settled: neither the program nor    *)
(* the timer, which would hold the server up.  (runRars leaves the timer   *)
(* of a program that could not be spawned.)                                *)
(***************************************************************************)
NothingLeft == settled # "no" =>
  /\ child \in {"gone", "missing"}
  /\ timer => withStdin /\ child = "missing"

(***************************************************************************)
(* Every run is settled, by the timer if by nothing else (unless the server *)
(* went down before, which is ServerSurvives).                             *)
(***************************************************************************)
RunSettles == <>(settled # "no" \/ server = "down")

(***************************************************************************)
(* A run that passes its time limit is killed and answered, and the server *)
(* carries on (rars-cli.test.ts, "kills a program that exceeds its         *)
(* wall-clock limit").                                                     *)
(***************************************************************************)
ServerSurvives == server = "up"
=============================================================================
