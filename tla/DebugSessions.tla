---------------------------- MODULE DebugSessions ----------------------------
(***************************************************************************)
(* The life of the headless debugger sessions: rars_debug_start (the       *)
(* folder of inline source, the bridge process and its startup, the load), *)
(* the session store with its idle timers, the queue of each session, and  *)
(* all the ways a session ends: closed by its user, expired, failed, or    *)
(* closed with every other one when the server shuts down.                 *)
(*                                                                         *)
(* A session is the rars_debug_start call that makes it.  How one request  *)
(* is answered is BridgeConnection's; here it settles sooner or later, and *)
(* the connection may fail at any time.                                    *)
(***************************************************************************)
EXTENDS Naturals, Sequences

CONSTANTS
  Sessions,   \* the calls of rars_debug_start
  Inline,     \* the ones whose program is inline source
  MaxQueued   \* bounds the requests waiting in one session's queue

ASSUME SessionsAssumption ==
  /\ Inline \subseteq Sessions
  /\ MaxQueued \in Nat

VARIABLES
  start,     \* how far the call that starts the session is
  folder,    \* the sessions whose folder of inline source exists
  bridge,    \* the bridge process: "none", "running", "killed" (signalled) or "exited"
  conn,      \* its connection: "none", "open", "failed" or "closed"
  listed,    \* the sessions in the store
  timers,    \* the sessions whose idle timer is set
  expired,   \* sessions the idle timer closed
  failures,  \* sessions that failed while in the store
  queue,     \* a session's requests and its close; the first is in progress
  closing,   \* its close: "no", "asked", "stopping" the bridge, or "done"
  server,    \* "up", "closing", "exited", or "killed" by a second signal
  awaited    \* the sessions whose close the server's shutdown awaits

vars == <<start, folder, bridge, conn, listed, timers, expired, failures,
          queue, closing, server, awaited>>
storeVars == <<listed, timers, expired, failures, queue, closing>>
serverVars == <<server, awaited>>
Alive == server \in {"up", "closing"}

Starts == {"idle", "prepared", "spawned", "ready", "loaded", "undoing", "refused", "started"}
InFlight == {"prepared", "spawned", "ready", "loaded", "undoing"}

TypeOK ==
  /\ start \in [Sessions -> Starts]
  /\ folder \subseteq Inline
  /\ bridge \in [Sessions -> {"none", "running", "killed", "exited"}]
  /\ conn \in [Sessions -> {"none", "open", "failed", "closed"}]
  /\ listed \subseteq Sessions /\ timers \subseteq Sessions
  /\ expired \subseteq Sessions /\ failures \subseteq Sessions
  /\ queue \in [Sessions -> Seq({"request", "close"})]
  /\ closing \in [Sessions -> {"no", "asked", "stopping", "done"}]
  /\ server \in {"up", "closing", "exited", "killed"} /\ awaited \subseteq Sessions

Init ==
  /\ start = [s \in Sessions |-> "idle"]
  /\ folder = {}
  /\ bridge = [s \in Sessions |-> "none"]
  /\ conn = [s \in Sessions |-> "none"]
  /\ listed = {} /\ timers = {} /\ expired = {} /\ failures = {}
  /\ queue = [s \in Sessions |-> <<>>]
  /\ closing = [s \in Sessions |-> "no"]
  /\ server = "up" /\ awaited = {}

\* Faulty variant: stopBridge only waits.
NotSignalled(b) == b
\* stopBridge signals, and is over once the process has exited.
Signalled(b) == IF b = "running" THEN "killed" ELSE b
Stopped(s) == bridge[s] \in {"none", "exited"}

\* BridgeConnection.close: no effect on a connection that failed.
ClosedConn(c) == IF c = "open" THEN "closed" ELSE c

-----------------------------------------------------------------------------
(* rars_debug_start *)

\* The folder is written, or removed again when that fails.
Prepare(s) ==
  /\ start[s] = "idle"
  /\ \/ /\ start' = [start EXCEPT ![s] = "prepared"]
        /\ folder' = folder \cup ({s} \cap Inline)
     \/ /\ start' = [start EXCEPT ![s] = "refused"]
        /\ UNCHANGED folder
  /\ UNCHANGED <<bridge, conn, storeVars>>

\* A process that cannot be spawned shows as an error of the startup.
Spawn(s) ==
  /\ start[s] = "prepared"
  /\ start' = [start EXCEPT ![s] = "spawned"]
  /\ bridge' \in {[bridge EXCEPT ![s] = b] : b \in {"none", "running"}}
  /\ UNCHANGED <<folder, conn, storeVars>>

\* The port, the connection and the reply to hello came in time.
StartUp(s) ==
  /\ start[s] = "spawned" /\ bridge[s] # "none"
  /\ start' = [start EXCEPT ![s] = "ready"]
  /\ conn' = [conn EXCEPT ![s] = "open"]
  /\ UNCHANGED <<folder, bridge, storeVars>>

\* They did not, or the bridge exited: abort.
StartUpFails(s) ==
  /\ start[s] = "spawned"
  /\ start' = [start EXCEPT ![s] = "undoing"]
  /\ bridge' = [bridge EXCEPT ![s] = Signalled(bridge[s])]
  /\ UNCHANGED <<folder, conn, storeVars>>

LoadReplied(s) ==
  /\ start[s] = "ready" /\ conn[s] = "open"
  /\ start' = [start EXCEPT ![s] = "loaded"]
  /\ UNCHANGED <<folder, bridge, conn, storeVars>>

\* The program does not assemble, or the request fails: the session is closed again.
LoadFails(s) ==
  /\ start[s] = "ready"
  /\ start' = [start EXCEPT ![s] = "undoing"]
  /\ conn' = [conn EXCEPT ![s] = ClosedConn(conn[s])]
  /\ bridge' = [bridge EXCEPT ![s] = Signalled(bridge[s])]
  /\ UNCHANGED <<folder, storeVars>>

\* The bridge has gone, the folder goes, and the caller gets the error.
Undone(s) ==
  /\ start[s] = "undoing" /\ Stopped(s)
  /\ start' = [start EXCEPT ![s] = "refused"]
  /\ folder' = folder \ {s}
  /\ UNCHANGED <<bridge, conn, storeVars>>

-----------------------------------------------------------------------------
(* The store *)

\* QueuedBackend.close, of the sessions in "which": once each, after what is queued.
AskedToClose(which) ==
  /\ queue' = [s \in Sessions |->
       IF s \in which /\ closing[s] = "no" THEN Append(queue[s], "close") ELSE queue[s]]
  /\ closing' = [s \in Sessions |->
       IF s \in which /\ closing[s] = "no" THEN "asked" ELSE closing[s]]

Forget(which) == listed' = listed \ which /\ timers' = timers \ which

\* Faulty variant: a failure is recorded, and not told to a listener that comes later.
AddUnheard(s) ==
  /\ start[s] = "loaded"
  /\ start' = [start EXCEPT ![s] = "started"]
  /\ listed' = listed \cup {s} /\ timers' = timers \cup {s}
  /\ UNCHANGED <<folder, bridge, conn, expired, failures, queue, closing>>
\* add: a connection that failed in the meantime tells its new listener at once.
Add(s) ==
  /\ start[s] = "loaded"
  /\ start' = [start EXCEPT ![s] = "started"]
  /\ \/ /\ conn[s] # "failed"
        /\ listed' = listed \cup {s} /\ timers' = timers \cup {s}
        /\ UNCHANGED <<failures, queue, closing>>
     \/ /\ conn[s] = "failed"
        /\ failures' = failures \cup {s}
        /\ AskedToClose({s})
        /\ UNCHANGED <<listed, timers>>
  /\ UNCHANGED <<folder, bridge, conn, expired>>

\* A tool call on the session.  A pause is not queued, and changes nothing here.
Call(s) ==
  /\ s \in listed /\ Len(queue[s]) < MaxQueued
  /\ queue' = [queue EXCEPT ![s] = Append(@, "request")]
  /\ UNCHANGED <<start, folder, bridge, conn, listed, timers, expired, failures, closing>>

Close(s) ==
  /\ s \in listed
  /\ Forget({s})
  /\ AskedToClose({s})
  /\ UNCHANGED <<start, folder, bridge, conn, expired, failures>>

\* The idle timer.  One that outlived its session only finds it gone.
Expire(s) ==
  /\ s \in timers
  /\ expired' = expired \cup {s}
  /\ Forget({s})
  /\ AskedToClose({s} \cap listed)
  /\ UNCHANGED <<start, folder, bridge, conn, failures>>

\* Faulty variants: a session that was removed may still fail; one that fails is not closed.
FailedAnyway(s) ==
  /\ failures' = failures \cup {s}
  /\ Forget({s})
  /\ AskedToClose({s})
FailedOnly(s) ==
  IF s \in listed
  THEN Forget({s}) /\ failures' = failures \cup {s} /\ UNCHANGED <<queue, closing>>
  ELSE UNCHANGED <<listed, timers, failures, queue, closing>>
\* failed: the listener of a session's connection.
Failed(s) ==
  IF s \in listed
  THEN Forget({s}) /\ failures' = failures \cup {s} /\ AskedToClose({s})
  ELSE UNCHANGED <<listed, timers, failures, queue, closing>>

\* The connection fails, for the bridge exited or any other reason: its listeners
\* stop the bridge and tell the store, if the session got that far.
ConnFails(s) ==
  /\ conn[s] = "open"
  /\ conn' = [conn EXCEPT ![s] = "failed"]
  /\ bridge' = [bridge EXCEPT ![s] = Signalled(bridge[s])]
  /\ \/ start[s] = "started" /\ Failed(s)
     \/ start[s] # "started" /\ UNCHANGED <<listed, timers, failures, queue, closing>>
  /\ UNCHANGED <<start, folder, expired>>

-----------------------------------------------------------------------------
(* A session's queue *)

\* The reply, a timeout, or the error of a connection that has ended.
RequestSettles(s) ==
  /\ queue[s] # <<>> /\ Head(queue[s]) = "request"
  /\ queue' = [queue EXCEPT ![s] = Tail(@)]
  /\ UNCHANGED <<start, folder, bridge, conn, listed, timers, expired, failures, closing>>

CloseBegins(s) ==
  /\ queue[s] # <<>> /\ Head(queue[s]) = "close" /\ closing[s] = "asked"
  /\ closing' = [closing EXCEPT ![s] = "stopping"]
  /\ conn' = [conn EXCEPT ![s] = ClosedConn(conn[s])]
  /\ bridge' = [bridge EXCEPT ![s] = Signalled(bridge[s])]
  /\ UNCHANGED <<start, folder, listed, timers, expired, failures, queue>>

\* Faulty variant: close does not wait for the process to exit.
CloseEndsEarly(s) ==
  /\ closing[s] = "stopping"
  /\ closing' = [closing EXCEPT ![s] = "done"]
  /\ folder' = folder \ {s}
  /\ queue' = [queue EXCEPT ![s] = Tail(@)]
  /\ UNCHANGED <<start, bridge, conn, listed, timers, expired, failures>>
CloseEnds(s) ==
  /\ closing[s] = "stopping" /\ Stopped(s)
  /\ closing' = [closing EXCEPT ![s] = "done"]
  /\ folder' = folder \ {s}
  /\ queue' = [queue EXCEPT ![s] = Tail(@)]
  /\ UNCHANGED <<start, bridge, conn, listed, timers, expired, failures>>

-----------------------------------------------------------------------------
(* The bridge process *)

\* By itself, or because of the signal.
Exits(s) ==
  /\ bridge[s] \in {"running", "killed"}
  /\ bridge' = [bridge EXCEPT ![s] = "exited"]
  /\ UNCHANGED <<start, folder, conn, storeVars>>

-----------------------------------------------------------------------------
(* The server *)

\* A signal: no call is taken any more, and closeAll closes the sessions in the store.
\* It knows nothing of a start in flight, nor of a close somebody else awaits.
ShutDown ==
  /\ server = "up"
  /\ server' = "closing" /\ awaited' = listed
  /\ Forget(listed)
  /\ AskedToClose(listed)
  /\ UNCHANGED <<start, folder, bridge, conn, expired, failures>>

\* Faulty variant: the bridges are left to themselves.
NothingKilled == UNCHANGED bridge
\* Every bridge still running when this process exits is killed.
KilledOnExit == bridge' = [s \in Sessions |-> Signalled(bridge[s])]

\* The closes are over, and process.exit ends whatever else is under way.
ServerExits ==
  /\ server = "closing" /\ \A s \in awaited : closing[s] = "done"
  /\ server' = "exited" /\ KilledOnExit
  /\ UNCHANGED <<start, folder, conn, storeVars, awaited>>

\* Both signals are listened to once: a second one ends the process with no exit handler.
SecondSignal ==
  /\ server = "closing"
  /\ server' = "killed"
  /\ UNCHANGED <<start, folder, bridge, conn, storeVars, awaited>>

StartSteps(s) ==
  /\ Alive
  /\ \/ Spawn(s) \/ StartUp(s) \/ StartUpFails(s) \/ LoadReplied(s) \/ LoadFails(s)
     \/ Undone(s) \/ Add(s)
  /\ UNCHANGED serverVars
QueueSteps(s) == Alive /\ (RequestSettles(s) \/ CloseBegins(s) \/ CloseEnds(s)) /\ UNCHANGED serverVars
UserSteps(s) == server = "up" /\ (Prepare(s) \/ Call(s) \/ Close(s)) /\ UNCHANGED serverVars
\* A timer or the connection calls back.
CallbackSteps(s) == Alive /\ (Expire(s) \/ ConnFails(s)) /\ UNCHANGED serverVars
BridgeSteps(s) == Exits(s) /\ UNCHANGED serverVars

Next ==
  \/ \E s \in Sessions : UserSteps(s) \/ StartSteps(s) \/ CallbackSteps(s) \/ QueueSteps(s) \/ BridgeSteps(s)
  \/ ShutDown \/ ServerExits \/ SecondSignal

Spec == Init /\ [][Next]_vars

\* One timer limits a start, BridgeConnection settles every request, and a bridge
\* that was sent SIGKILL exits.  Nobody has to call, close, expire, fail or signal.
FairSpec ==
  /\ Spec
  /\ \A s \in Sessions :
       /\ WF_vars(StartSteps(s))
       /\ WF_vars(QueueSteps(s))
       /\ WF_vars(bridge[s] = "killed" /\ BridgeSteps(s))
       /\ WF_vars(bridge[s] = "exited" /\ start[s] = "started" /\ ConnFails(s) /\ CallbackSteps(s))
  /\ WF_vars(ServerExits)

-----------------------------------------------------------------------------
(* Safety *)

(***************************************************************************)
(* Nothing a session holds is ever without somebody who will release it: a *)
(* bridge that was not signalled and a folder of inline source belong to a *)
(* start in flight, to a session its user can reach, or to a close that is *)
(* on its way, however starting, failing, expiring, closing and a shutdown *)
(* interleave.                                                             *)
(***************************************************************************)
NothingForgotten ==
  \A s \in Sessions :
    Alive /\ (bridge[s] = "running" \/ s \in folder) =>
      \/ start[s] \in InFlight
      \/ s \in listed
      \/ closing[s] \in {"asked", "stopping"}

(***************************************************************************)
(* A server that exits leaves no bridge that was not killed, not even of a *)
(* start in flight, and nothing else of the sessions its shutdown found.   *)
(***************************************************************************)
ExitLeavesNoBridge ==
  server = "exited" =>
    /\ \A s \in Sessions : bridge[s] # "running"
    /\ \A s \in awaited : Stopped(s) /\ s \notin folder

(***************************************************************************)
(* "Every bridge still running when this process exits is killed then"     *)
(* (bridge-process.ts), however the process ends.                          *)
(***************************************************************************)
NoBridgeOutlivesServer ==
  ~Alive => \A s \in Sessions : bridge[s] # "running"

(***************************************************************************)
(* When a start is refused, or a close is over, the bridge has exited and  *)
(* the folder is gone: "close returns once it has exited".                 *)
(***************************************************************************)
EndedLeavesNothing ==
  \A s \in Sessions :
    start[s] = "refused" \/ closing[s] = "done" => Stopped(s) /\ s \notin folder

\* A session can be reached exactly while its idle timer can close it: no session
\* stays for ever, and no timer fires for one that has gone.
IdleTimerOfEachListed == timers = listed

\* What store.get answers for a session.
Answer(s) ==
  IF s \in listed THEN "ok"
  ELSE IF s \in expired THEN "SESSION_EXPIRED"
  ELSE IF s \in failures THEN "SESSION_FAILED" ELSE "SESSION_NOT_FOUND"

(***************************************************************************)
(* What an ID answers once its session was removed stays: it is not found  *)
(* after a close, expired after the idle limit, failed after a failure,    *)
(* though its connection and its bridge end only after that.               *)
(***************************************************************************)
AnswerStays ==
  [][\A s \in Sessions :
       start[s] = "started" /\ s \notin listed => Answer(s)' = Answer(s)]_vars

-----------------------------------------------------------------------------
(* Liveness *)

\* A start ends: in the store, refused, or with the server.
StartEnds ==
  \A s \in Sessions : start[s] = "prepared" ~> start[s] \in {"started", "refused"} \/ ~Alive

\* A session that was removed, or whose bridge died, lets go of everything; a shutdown
\* ends, and of what it did not await only folders may be left.
EndedIsReleased ==
  /\ \A s \in Sessions :
       start[s] = "started" /\ (s \notin listed \/ bridge[s] = "exited")
         ~> (Stopped(s) /\ s \notin folder \cup listed) \/ ~Alive
  /\ server = "closing" ~> server = "killed" \/ (server = "exited" /\ \A s \in Sessions : Stopped(s))
=============================================================================
