---------------------------- MODULE BridgeServer ----------------------------
(***************************************************************************)
(* The Java bridge (server/BridgeServer.java) around one RarsSimulator: it *)
(* serves one client at a time, a reader thread numbering the requests and *)
(* a worker thread answering them in order.  A pause takes effect as it is *)
(* read, so it reaches a continue the worker is still running.             *)
(*                                                                         *)
(* The reader's assignment of pausedBefore and its hand-over of the task   *)
(* are one step: until the worker gets the task it cannot tell them apart. *)
(***************************************************************************)
EXTENDS RarsSimulator

CONSTANTS
  Headless,    \* the mode: only a headless bridge encodes
  Asked,       \* what clients ask for
  MaxClients,  \* bounds the clients served, one after the other
  MaxSent      \* bounds the requests of one client

\* "report" is every request but modify that runs nothing and is answered with a snapshot.
Requests == {"hello", "load", "reset", "step", "continue", "pause", "report", "modify", "encode"}
\* A client's line need not be a request at all.
Lines == Requests \cup {"malformed"}

ASSUME ServerAssumption ==
  /\ Headless \in BOOLEAN
  /\ Asked \subseteq Lines
  /\ MaxClients \in Nat
  /\ MaxSent \in Nat

VARIABLES
  phase,          \* "accepting", "serving", or "leaving": waiting for the worker
  clients,        \* how many clients have connected; the current one's number
  asked,          \* what the current client has sent
  hungUp,         \* the client has closed its end
  count,          \* how many of its requests the reader has read
  tasks,          \* the worker's queue; the first is the one it is at
  pausedBefore,   \* requests numbered below this are paused
  gone,           \* the reader has left: nothing more is answered
  authenticated,
  worker,         \* "idle", "answering", "running" or "sending"
  made            \* history: the replies made for the current client

readerVars == <<phase, clients, asked, hungUp, count, pausedBefore, gone>>
workerVars == <<authenticated, worker, made>>
vars == <<simVars, readerVars, tasks, workerVars>>

Forever == MaxSent + 1  \* Long.MAX_VALUE: past every request's number
Task == [client : Nat, number : Nat, what : Lines]
Piece == [run : Nat, from : Nat, to : Nat]
Reply == [id : Nat, ok : BOOLEAN, run : Nat, out : Seq(Piece)]

TypeOK ==
  /\ SimTypeOK
  /\ phase \in {"accepting", "serving", "leaving"}
  /\ clients \in 0 .. MaxClients
  /\ asked \in Seq(Lines) /\ count \in 0 .. Len(asked) /\ Len(asked) <= MaxSent
  /\ hungUp \in BOOLEAN /\ gone \in BOOLEAN /\ authenticated \in BOOLEAN
  /\ tasks \in Seq(Task)
  /\ pausedBefore \in 0 .. Forever
  /\ worker \in {"idle", "answering", "running", "sending"}
  /\ made \in Seq(Reply)

Init ==
  /\ SimInit
  /\ phase = "accepting" /\ clients = 0
  /\ asked = <<>> /\ hungUp = FALSE /\ count = 0
  /\ tasks = <<>> /\ pausedBefore = 0 /\ gone = FALSE
  /\ authenticated = FALSE /\ worker = "idle" /\ made = <<>>

-----------------------------------------------------------------------------
(* The server and the reader thread *)

Accept ==
  /\ phase = "accepting" /\ clients < MaxClients
  /\ phase' = "serving" /\ clients' = clients + 1
  /\ asked' = <<>> /\ hungUp' = FALSE /\ count' = 0
  /\ pausedBefore' = 0 /\ gone' = FALSE
  /\ authenticated' = FALSE /\ made' = <<>>
  /\ UNCHANGED <<simVars, tasks, worker>>

ClientSends(what) ==
  /\ phase = "serving" /\ ~hungUp
  /\ Len(asked) < MaxSent
  /\ asked' = Append(asked, what)
  /\ UNCHANGED <<simVars, phase, clients, hungUp, count, pausedBefore, gone, tasks, workerVars>>

ClientHangsUp ==
  /\ phase = "serving" /\ ~hungUp
  /\ hungUp' = TRUE
  /\ UNCHANGED <<simVars, phase, clients, asked, count, pausedBefore, gone, tasks, workerVars>>

\* Faulty variant: a pause waits for its turn, as the other requests do.
PausesNone(number) == 0
\* What is read before a pause is paused.
PausesBefore(number) == number
Read ==
  /\ phase = "serving" /\ count < Len(asked)
  /\ LET number == count + 1 IN
       /\ count' = number
       /\ pausedBefore' = IF asked[number] = "pause" THEN PausesBefore(number) ELSE pausedBefore
       /\ tasks' = Append(tasks, [client |-> clients, number |-> number, what |-> asked[number]])
  /\ UNCHANGED <<simVars, phase, clients, asked, hungUp, gone, workerVars>>

\* Faulty variant: what the client left running is not stopped.
LeaveRunning ==
  /\ phase = "serving" /\ hungUp
  /\ phase' = "leaving"
  /\ gone' = TRUE
  /\ UNCHANGED <<simVars, clients, asked, hungUp, count, tasks, pausedBefore, workerVars>>
\* The end of the input, or an error that loses what is still unread.
Leave ==
  /\ phase = "serving" /\ hungUp
  /\ phase' = "leaving"
  /\ gone' = TRUE
  /\ pausedBefore' = Forever
  /\ UNCHANGED <<simVars, clients, asked, hungUp, count, tasks, workerVars>>

\* Faulty variant: the worker is shut down, and not waited for.
WorkerEndsLater ==
  /\ phase = "leaving"
  /\ phase' = "accepting"
  /\ UNCHANGED <<simVars, clients, asked, hungUp, count, pausedBefore, gone, tasks, workerVars>>
\* shutdown and awaitTermination: the next client comes after the last task.
WorkerEnds ==
  /\ phase = "leaving" /\ tasks = <<>> /\ worker = "idle"
  /\ phase' = "accepting"
  /\ UNCHANGED <<simVars, clients, asked, hungUp, count, pausedBefore, gone, tasks, workerVars>>

-----------------------------------------------------------------------------
(* The worker thread *)

Current == tasks[1]
Doing(step) == tasks # <<>> /\ worker = step

\* The reply is made; it is sent if the client has not gone by then.
Respond(ok, inRun, out) ==
  /\ made' = Append(made, [id |-> Len(made) + 1, ok |-> ok, run |-> inRun, out |-> out])
  /\ worker' = "sending"

\* Faulty variant: all the run has written, whatever was handed over before.
AllOutput == IF written = 0 THEN <<>> ELSE << [run |-> run, from |-> 0, to |-> written] >>
NewOutput == IF taken = written THEN <<>>
             ELSE << [run |-> run, from |-> taken, to |-> written] >>

Take ==
  /\ Doing("idle") /\ ~gone
  /\ worker' = "answering"
  /\ UNCHANGED <<simVars, readerVars, tasks, authenticated, made>>

\* What a client that left had queued is dropped.
Drop ==
  /\ Doing("idle") /\ gone
  /\ tasks' = Tail(tasks)
  /\ UNCHANGED <<simVars, readerVars, workerVars>>

Greet ==
  /\ Doing("answering")
  /\ ~authenticated /\ Current.what = "hello"
  /\ authenticated' = TRUE
  /\ Respond(TRUE, run, <<>>)
  /\ UNCHANGED <<simVars, readerVars, tasks>>

\* A request that is refused before it does anything: it comes before hello, is not
\* known, or does not fit the simulator's state or its own arguments.
Refused(what) ==
  \/ what \in {"hello", "load", "report", "modify", "encode"}
  \/ what \in {"step", "continue"} /\ ~EnsureRunnable
  \/ what \in {"pause", "reset"} /\ ~Loaded

Refuse ==
  /\ Doing("answering")
  /\ IF authenticated THEN Refused(Current.what) ELSE Current.what \notin {"hello", "malformed"}
  /\ Respond(FALSE, run, <<>>)
  /\ UNCHANGED <<simVars, readerVars, tasks, authenticated>>

\* A line that is no request has an error in its turn, hello or not; it names no request.
Unknown == 0
ReportMalformed ==
  /\ Doing("answering") /\ Current.what = "malformed"
  /\ made' = Append(made, [id |-> Unknown, ok |-> FALSE, run |-> run, out |-> <<>>])
  /\ worker' = "sending"
  /\ UNCHANGED <<simVars, readerVars, tasks, authenticated>>

Dispatch(whats) == Doing("answering") /\ authenticated /\ Current.what \in whats

DoRestart ==
  /\ \/ Dispatch({"load"}) /\ Load
     \/ Dispatch({"reset"}) /\ Reset
  /\ Respond(TRUE, run + 1, <<>>)
  /\ UNCHANGED <<readerVars, tasks, authenticated>>

DoLoadRejected ==
  /\ Dispatch({"load"}) /\ LoadRejected
  /\ Respond(FALSE, run, <<>>)
  /\ UNCHANGED <<readerVars, tasks, authenticated>>

DoEncode ==
  /\ Dispatch({"encode"}) /\ Headless /\ ~Loaded
  /\ Respond(TRUE, run, <<>>)
  /\ UNCHANGED <<simVars, readerVars, tasks, authenticated>>

\* The requests that end in a snapshot of what they did.
DoStart ==
  /\ \/ Dispatch({"step"}) /\ Start("step")
     \/ Dispatch({"continue"}) /\ Start("continue")
     \/ Dispatch({"report"}) /\ Report
     \/ Dispatch({"modify"}) /\ ModifyAny
     \/ Dispatch({"pause"}) /\ Inspect
  /\ worker' = "running"
  /\ UNCHANGED <<readerVars, tasks, authenticated, made>>

\* Faulty variant: a pause is a flag, and stops continues read after it too.
EverPaused == pausedBefore > 0
PauseRequested == Current.number < pausedBefore

Run ==
  /\ Doing("running")
  /\ \/ (activity = "continue" => ~PauseRequested) /\ Instruction
     \/ PauseRequested /\ PauseContinue
     \/ LimitContinue
  /\ UNCHANGED <<readerVars, tasks, workerVars>>

DoSnapshot ==
  /\ Doing("running") /\ Snapshot
  /\ Respond(TRUE, run, NewOutput)
  /\ UNCHANGED <<readerVars, tasks, authenticated>>

DoFail ==
  /\ Doing("running")
  /\ \/ RunFails
     \/ run = 0 /\ SnapshotFails
  /\ Respond(FALSE, run, <<>>)
  /\ UNCHANGED <<readerVars, tasks, authenticated>>

\* The windows of a visible RARS are brought up to date once a request has taken effect;
\* when that fails the reply is an error.  A command's snapshot has taken the output by
\* then, that of modify has not.
HookFails ==
  /\ ~Headless
  /\ \/ Dispatch({"load"}) /\ Load
     \/ Dispatch({"reset"}) /\ Reset
     \/ Doing("running") /\ Current.what # "modify" /\ Snapshot
     \/ Doing("running") /\ Current.what = "modify" /\ SnapshotFails
  /\ Respond(FALSE, run, <<>>)
  /\ UNCHANGED <<readerVars, tasks, authenticated>>

Send ==
  /\ Doing("sending")
  /\ worker' = "idle"
  /\ tasks' = Tail(tasks)
  /\ UNCHANGED <<simVars, readerVars, authenticated, made>>

Worker ==
  \/ Take \/ Drop \/ Greet \/ Refuse \/ ReportMalformed
  \/ DoRestart \/ DoLoadRejected \/ DoEncode \/ DoStart
  \/ Run \/ DoSnapshot \/ DoFail \/ HookFails \/ Send

Next ==
  \/ Accept \/ ClientHangsUp \/ Read \/ Leave \/ WorkerEnds
  \/ \E what \in Asked : ClientSends(what)
  \/ Worker

Spec == Init /\ [][Next]_vars

\* Both threads keep running.  Nothing is assumed of the clients, of how a program's
\* instructions behave, or of a continue ever reaching its step limit.
FairSpec == Spec /\ WF_vars(Worker) /\ WF_vars(Read) /\ WF_vars(Leave) /\ WF_vars(WorkerEnds)

-----------------------------------------------------------------------------
(* Safety *)

(***************************************************************************)
(* The worker never does anything for a client once the next one is        *)
(* accepted, and the simulator is free by then: leave, shutdown and        *)
(* awaitTermination leave no task, no running continue and no snapshot     *)
(* behind.                                                                 *)
(***************************************************************************)
OneClientAtATime ==
  /\ \A i \in DOMAIN tasks : tasks[i].client = clients
  /\ phase = "accepting" => tasks = <<>> /\ activity = "idle"

(***************************************************************************)
(* The simulator is busy exactly while the worker runs the first task, so  *)
(* no request waits on the simulator's lock or finds it mid-run.           *)
(***************************************************************************)
BusyForTheWorker == activity # "idle" <=> worker = "running"

(***************************************************************************)
(* The bridge does what its client asked for.  Nothing is done for one     *)
(* before its own hello was answered, however the clients before it        *)
(* authenticated; and a pause stops the continues read before it and no    *)
(* later one: what stops a continue as "paused" is a pause the same client *)
(* sent after it, or the client's leaving.                                 *)
(***************************************************************************)
OnlyAsAsked ==
  [][/\ simVars' # simVars =>
          \E number \in 1 .. Current.number - 1 :
            asked[number] = "hello" /\ made[number].ok
     /\ activity = "continue" /\ activity' = "stopped" /\ stopReason' = "paused" =>
          \/ gone
          \/ \E number \in Current.number + 1 .. count : asked[number] = "pause"]_vars

\* What a request is to the client's end of the connection.
Kind(what) ==
  CASE what \in {"load", "reset"} -> "reset"
    [] what \in {"step", "continue"} -> "continue"
    [] what \in {"report", "modify"} -> "inspect"
    [] OTHER -> what

Contract == INSTANCE BridgeContract WITH
  MaxWritten <- OutputLimit,
  sent <- [i \in DOMAIN asked |-> Kind(asked[i])],
  answered <- Len(made),
  replies <- made

\* For one client that sends requests only, the bridge keeps the contract BridgeConnection
\* relies on.
KeepsContract == Contract!BridgeSpec

-----------------------------------------------------------------------------
(* Liveness *)

(***************************************************************************)
(* Every pause is answered unless its client leaves: the continues before  *)
(* it stop, even one that would run for ever.                              *)
(***************************************************************************)
PausesAnswered ==
  \A number \in 1 .. MaxSent :
    (phase = "serving" /\ count >= number /\ asked[number] = "pause")
      ~> (Len(made) >= number \/ hungUp)

\* A client that leaves, whatever it left running or queued, frees the bridge.
NextClientServed == (phase = "serving" /\ hungUp) ~> (phase = "accepting")
=============================================================================
