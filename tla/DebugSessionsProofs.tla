------------------------ MODULE DebugSessionsProofs ------------------------
(***************************************************************************)
(* Debugger sessions, for every set of sessions and every queue length.    *)
(* NothingForgotten needs to know which stages exclude each other: what is *)
(* listed has started and is not closing, and what closes has started.     *)
(***************************************************************************)
EXTENDS DebugSessions, TLAPS

\* What the variables that the stages depend on range over; the queues are not among them.
Typed ==
  /\ start \in [Sessions -> Starts]
  /\ bridge \in [Sessions -> {"none", "running", "killed", "exited"}]
  /\ conn \in [Sessions -> {"none", "open", "failed", "closed"}]
  /\ closing \in [Sessions -> {"no", "asked", "stopping", "done"}]
  /\ listed \subseteq Sessions /\ awaited \subseteq Sessions

Stages ==
  \A s \in Sessions :
    /\ start[s] = "idle" => bridge[s] = "none" /\ s \notin folder
    /\ s \in listed => start[s] = "started" /\ closing[s] = "no"
    /\ closing[s] # "no" => start[s] = "started"

\* A server that has exited killed the bridges, and awaited its closes.
Exited ==
  server = "exited" => (\A s \in Sessions : bridge[s] # "running") /\ (\A s \in awaited : closing[s] = "done")

SessionsInv ==
  /\ Typed
  /\ Stages
  /\ NothingForgotten
  /\ EndedLeavesNothing
  /\ IdleTimerOfEachListed
  /\ Exited

-----------------------------------------------------------------------------

LEMMA SessionsInitially == Init => SessionsInv
<1> SUFFICES ASSUME Init PROVE SessionsInv
  OBVIOUS
<1>1. Typed
  BY DEF Init, Typed, Starts
<1>2. Stages /\ NothingForgotten /\ EndedLeavesNothing /\ IdleTimerOfEachListed /\ Exited
  BY DEF Init, Stages, NothingForgotten, EndedLeavesNothing, IdleTimerOfEachListed, Exited
<1> QED BY <1>1, <1>2 DEF SessionsInv

\* What asking to close does to the stages of every session.
LEMMA AskedStages ==
  ASSUME Typed, NEW which, AskedToClose(which)
  PROVE  /\ closing' \in [Sessions -> {"no", "asked", "stopping", "done"}]
         /\ \A s \in Sessions : s \notin which => closing'[s] = closing[s]
         /\ \A s \in Sessions : s \in which /\ closing[s] = "no" => closing'[s] = "asked"
         /\ \A s \in Sessions : s \in which /\ closing[s] # "no" => closing'[s] = closing[s]
  BY DEF AskedToClose, Typed

LEMMA StartKeeps ==
  ASSUME SessionsInv, NEW s \in Sessions,
         \/ Prepare(s) \/ Spawn(s) \/ StartUp(s) \/ StartUpFails(s)
         \/ LoadReplied(s) \/ LoadFails(s) \/ Undone(s),
         Alive, UNCHANGED serverVars
  PROVE  SessionsInv'
<1> USE DEF SessionsInv, storeVars, serverVars, Alive
<1>1. Typed' /\ UNCHANGED storeVars
  BY DEF Typed, Starts, Prepare, Spawn, StartUp, StartUpFails, LoadReplied, LoadFails, Undone,
         Signalled, ClosedConn
<1>2. \A t \in Sessions : t # s =>
        start'[t] = start[t] /\ bridge'[t] = bridge[t] /\ (t \in folder' <=> t \in folder)
  BY DEF Typed, Prepare, Spawn, StartUp, StartUpFails, LoadReplied, LoadFails, Undone
<1>3. s \notin listed /\ closing[s] = "no" /\ start[s] # "started"
  BY DEF Stages, Typed, Prepare, Spawn, StartUp, StartUpFails, LoadReplied, LoadFails, Undone
<1>4. \/ start'[s] \in InFlight
      \/ start'[s] = "refused" /\ bridge'[s] \in {"none", "exited"} /\ s \notin folder'
  BY DEF Typed, Stages, InFlight, Stopped,
         Prepare, Spawn, StartUp, StartUpFails, LoadReplied, LoadFails, Undone
<1>5. Stages'
  BY <1>1, <1>2, <1>3, <1>4 DEF Stages, InFlight
<1>6. NothingForgotten'
  BY <1>1, <1>2, <1>3, <1>4 DEF NothingForgotten
<1>7. EndedLeavesNothing'
  BY <1>1, <1>2, <1>3, <1>4 DEF EndedLeavesNothing, Stopped, InFlight
<1>8. Exited'
  BY DEF Exited
<1> QED BY <1>1, <1>5, <1>6, <1>7, <1>8 DEF IdleTimerOfEachListed

LEMMA StoreKeeps ==
  ASSUME SessionsInv, NEW s \in Sessions,
         \/ Add(s) \/ Call(s) \/ Close(s) \/ Expire(s) \/ ConnFails(s),
         Alive, UNCHANGED serverVars
  PROVE  SessionsInv'
<1> USE DEF SessionsInv, Alive, serverVars
<1>0. Exited'
  BY DEF Exited
<1> USE <1>0
<1>1. CASE Add(s)
  <2>1. CASE conn[s] # "failed"
    BY <1>1, <2>1 DEF Add, Typed, Starts, Stages, NothingForgotten, EndedLeavesNothing,
                      Stopped, IdleTimerOfEachListed, InFlight
  <2>2. CASE conn[s] = "failed"
    <3>1. AskedToClose({s})
      BY <1>1, <2>2 DEF Add
    <3> QED
      BY <1>1, <2>2, <3>1, AskedStages DEF Add, Typed, Starts, Stages, NothingForgotten,
         EndedLeavesNothing, Stopped, IdleTimerOfEachListed, InFlight
  <2> QED BY <2>1, <2>2
<1>2. CASE Call(s)
  BY <1>2 DEF Call, Typed, Stages, NothingForgotten, EndedLeavesNothing,
              Stopped, IdleTimerOfEachListed
<1>3. CASE Close(s) \/ Expire(s)
  <2>1. s \in listed /\ start[s] = "started" /\ closing[s] = "no"
    BY <1>3 DEF Close, Expire, IdleTimerOfEachListed, Stages
  <2>2. AskedToClose({s}) /\ Forget({s}) /\ UNCHANGED <<start, folder, bridge, conn>>
    <3>1. {s} \cap listed = {s}
      BY <2>1
    <3> QED BY <1>3, <3>1 DEF Close, Expire
  <2> QED BY <2>1, <2>2, AskedStages DEF Forget, Typed, Stages, NothingForgotten,
             EndedLeavesNothing, Stopped, IdleTimerOfEachListed
<1>4. CASE ConnFails(s)
  <2>1. /\ UNCHANGED <<start, folder>>
        /\ conn' \in [Sessions -> {"none", "open", "failed", "closed"}]
        /\ bridge' \in [Sessions -> {"none", "running", "killed", "exited"}]
        /\ \A t \in Sessions : bridge'[t] = Signalled(bridge[t]) \/ bridge'[t] = bridge[t]
    BY <1>4 DEF ConnFails, Typed, Signalled
  <2>2. CASE s \in listed /\ start[s] = "started"
    <3>1. AskedToClose({s}) /\ Forget({s}) /\ closing[s] = "no"
      BY <1>4, <2>2 DEF ConnFails, Failed, Stages
    <3> QED BY <2>1, <2>2, <3>1, AskedStages DEF Forget, Typed, Stages, NothingForgotten,
               EndedLeavesNothing, Stopped, Signalled, IdleTimerOfEachListed
  <2>3. CASE ~(s \in listed /\ start[s] = "started")
    <3>1. UNCHANGED <<listed, timers, queue, closing>>
      BY <1>4, <2>3 DEF ConnFails, Failed
    <3> QED BY <2>1, <3>1 DEF Typed, Stages, NothingForgotten,
               EndedLeavesNothing, Stopped, Signalled, IdleTimerOfEachListed
  <2> QED BY <2>2, <2>3
<1> QED BY <1>1, <1>2, <1>3, <1>4

LEMMA QueueKeeps ==
  ASSUME SessionsInv, NEW s \in Sessions, QueueSteps(s) \/ BridgeSteps(s)
  PROVE  SessionsInv'
<1> USE DEF SessionsInv, Alive, serverVars
<1>0. UNCHANGED serverVars /\ (QueueSteps(s) => Alive)
  BY DEF QueueSteps, BridgeSteps
<1>1. CASE QueueSteps(s) /\ RequestSettles(s)
  BY <1>0, <1>1 DEF Exited, RequestSettles, Typed, Stages, NothingForgotten, EndedLeavesNothing,
                    Stopped, IdleTimerOfEachListed
<1>2. CASE QueueSteps(s) /\ CloseBegins(s)
  BY <1>0, <1>2 DEF Exited, CloseBegins, Typed, Stages, NothingForgotten, EndedLeavesNothing,
                    Stopped, Signalled, ClosedConn, IdleTimerOfEachListed
<1>3. CASE QueueSteps(s) /\ CloseEnds(s)
  BY <1>0, <1>3 DEF Exited, CloseEnds, Typed, Stages, NothingForgotten, EndedLeavesNothing,
                    Stopped, IdleTimerOfEachListed
<1>4. CASE Exits(s)
  BY <1>0, <1>4 DEF Exited, Exits, storeVars, Typed, Stages, NothingForgotten, EndedLeavesNothing,
                    Stopped, IdleTimerOfEachListed
<1> QED BY <1>1, <1>2, <1>3, <1>4 DEF QueueSteps, BridgeSteps

\* Shutting down asks the listed sessions to close; a server that has gone holds nothing.
LEMMA ServerKeeps ==
  ASSUME SessionsInv, ShutDown \/ ServerExits \/ SecondSignal
  PROVE  SessionsInv'
<1> USE DEF SessionsInv, Alive
<1>1. CASE ShutDown
  <2>1. AskedToClose(listed) /\ Forget(listed) /\ UNCHANGED <<start, folder, bridge, conn>>
    BY <1>1 DEF ShutDown
  <2>2. server = "up" /\ server' = "closing" /\ awaited' = listed
    BY <1>1 DEF ShutDown
  <2> QED BY <2>1, <2>2, AskedStages DEF Forget, Typed, Stages, NothingForgotten,
             EndedLeavesNothing, Stopped, IdleTimerOfEachListed, Exited
<1>2. CASE ServerExits
  <2>1. UNCHANGED <<start, folder, conn, listed, timers, closing, awaited>> /\ server' = "exited"
    BY <1>2 DEF ServerExits, storeVars
  <2>2. /\ bridge' \in [Sessions -> {"none", "running", "killed", "exited"}]
        /\ \A s \in Sessions : bridge'[s] = Signalled(bridge[s])
    BY <1>2 DEF ServerExits, KilledOnExit, Signalled, Typed
  <2>3. \A s \in awaited : closing[s] = "done"
    BY <1>2 DEF ServerExits
  <2> QED BY <2>1, <2>2, <2>3 DEF Signalled, Typed, Stages, NothingForgotten,
             EndedLeavesNothing, Stopped, IdleTimerOfEachListed, Exited
<1>3. CASE SecondSignal
  BY <1>3 DEF SecondSignal, storeVars, Typed, Stages, NothingForgotten,
              EndedLeavesNothing, Stopped, IdleTimerOfEachListed, Exited
<1> QED BY <1>1, <1>2, <1>3

LEMMA SessionsNext == SessionsInv /\ [Next]_vars => SessionsInv'
<1> SUFFICES ASSUME SessionsInv, [Next]_vars PROVE SessionsInv'
  OBVIOUS
<1>1. ASSUME NEW s \in Sessions, StartSteps(s) PROVE SessionsInv'
  BY <1>1, StartKeeps, StoreKeeps DEF StartSteps
<1>2. ASSUME NEW s \in Sessions, UserSteps(s) \/ CallbackSteps(s) PROVE SessionsInv'
  BY <1>2, StartKeeps, StoreKeeps DEF UserSteps, CallbackSteps, Alive
<1>3. ASSUME NEW s \in Sessions, QueueSteps(s) \/ BridgeSteps(s) PROVE SessionsInv'
  BY <1>3, QueueKeeps
<1>4. CASE ShutDown \/ ServerExits \/ SecondSignal
  BY <1>4, ServerKeeps
<1>5. CASE UNCHANGED vars
  BY <1>5 DEF vars, SessionsInv, Typed, Stages, NothingForgotten, EndedLeavesNothing,
              Stopped, IdleTimerOfEachListed, Exited, Alive
<1> QED BY <1>1, <1>2, <1>3, <1>4, <1>5 DEF Next

(***************************************************************************)
(* No bridge process and no folder of inline source is ever left without   *)
(* somebody who will release it, and none outlives the end of its session. *)
(***************************************************************************)
THEOREM SessionsRelease ==
  Spec => [](NothingForgotten /\ EndedLeavesNothing /\ IdleTimerOfEachListed)
<1>1. SessionsInv => NothingForgotten /\ EndedLeavesNothing /\ IdleTimerOfEachListed
  BY DEF SessionsInv
<1> QED BY <1>1, SessionsInitially, SessionsNext, PTL DEF Spec

\* A session that was refused, or that is closed, has no bridge and no folder.
THEOREM EndedHoldsNothing == Spec => []EndedLeavesNothing
  BY SessionsRelease, PTL

(***************************************************************************)
(* A server that exits by itself leaves no bridge it has not killed, and   *)
(* nothing at all of the sessions it closed.                               *)
(***************************************************************************)
THEOREM ExitsClean == Spec => []ExitLeavesNoBridge
<1>1. SessionsInv => ExitLeavesNoBridge
  BY DEF SessionsInv, Exited, ExitLeavesNoBridge, EndedLeavesNothing, Typed
<1> QED BY <1>1, SessionsInitially, SessionsNext, PTL DEF Spec

(***************************************************************************)
(* What the ID of a session that was removed answers does not change, for  *)
(* only a session still in the store can expire or fail.                   *)
(***************************************************************************)
THEOREM AnswersStay == Spec => AnswerStays
<1> DEFINE Kept == \A s \in Sessions :
      start[s] = "started" /\ s \notin listed => Answer(s)' = Answer(s)
<1>1. SessionsInv /\ [Next]_vars => Kept
  <2> SUFFICES ASSUME SessionsInv, [Next]_vars,
                      NEW s \in Sessions, start[s] = "started", s \notin listed
               PROVE  Answer(s)' = Answer(s)
    OBVIOUS
  <2>1. s \notin timers
    BY DEF SessionsInv, IdleTimerOfEachListed
  <2>2. s \notin listed' /\ (s \in expired' <=> s \in expired) /\ (s \in failures' <=> s \in failures)
    <3>1. ASSUME NEW t \in Sessions, StartSteps(t) PROVE <2>2
      BY <3>1 DEF StartSteps, Spawn, StartUp, StartUpFails, LoadReplied, LoadFails,
                  Undone, Add, storeVars
    <3>2. ASSUME NEW t \in Sessions, UserSteps(t) PROVE <2>2
      BY <3>2, <2>1 DEF UserSteps, Prepare, Call, Close, Forget, storeVars
    <3>3. ASSUME NEW t \in Sessions, CallbackSteps(t) PROVE <2>2
      BY <3>3, <2>1 DEF CallbackSteps, Expire, ConnFails, Failed, Forget
    <3>4. ASSUME NEW t \in Sessions, QueueSteps(t) \/ BridgeSteps(t) PROVE <2>2
      BY <3>4 DEF QueueSteps, RequestSettles, CloseBegins, CloseEnds, BridgeSteps, Exits, storeVars
    <3>5. CASE ShutDown \/ ServerExits \/ SecondSignal
      BY <3>5 DEF ShutDown, ServerExits, SecondSignal, Forget, storeVars
    <3>6. CASE UNCHANGED vars
      BY <3>6 DEF vars
    <3> QED BY <3>1, <3>2, <3>3, <3>4, <3>5, <3>6 DEF Next
  <2> QED BY <2>2 DEF Answer
<1>2. Kept => [Kept]_vars
  OBVIOUS
<1> HIDE DEF Kept
<1>3. Spec => [][Kept]_vars
  BY <1>1, SessionsInitially, SessionsNext, PTL DEF Spec
<1> QED BY <1>3, PTL DEF AnswerStays, Kept
=============================================================================
