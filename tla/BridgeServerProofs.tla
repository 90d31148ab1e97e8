------------------------- MODULE BridgeServerProofs -------------------------
(***************************************************************************)
(* The debugger's state machine, for every set of addresses, history limit *)
(* and output limit; and the bridge's threads, for every number of clients *)
(* and requests.  What is proved of the simulator carries over to the      *)
(* server because the threads change it only by its operations; what is    *)
(* left is who is using it, and for which client.                          *)
(***************************************************************************)
EXTENDS BridgeServer, SequenceTheorems, TLAPS

-----------------------------------------------------------------------------
(* The simulator.  RunsOnlyRunnable is what makes ReasonFitsStatus         *)
(* inductive: an instruction that ends "paused" leaves the exception as it *)
(* was, which is right only because a run starts with none.                *)

RunsOnlyRunnable == activity \in {"step", "continue"} => EnsureRunnable

SimInv ==
  /\ SimTypeOK
  /\ RunsOnlyRunnable
  /\ BackstepStaysInRun
  /\ ReasonFitsStatus

-----------------------------------------------------------------------------
(* The history of a run *)

\* Remembering an instruction keeps the history within its limit, and adds no more than it.
LEMMA RememberedIsHistory ==
  ASSUME history \in Seq(Undo), Len(history) <= MaxHistory, NEW undo, undo \in Undo
  PROVE  /\ Remembered(undo) \in Seq(Undo)
         /\ Len(Remembered(undo)) <= MaxHistory
         /\ \A i \in DOMAIN Remembered(undo) :
              \/ Remembered(undo)[i] = undo
              \/ \E j \in DOMAIN history : Remembered(undo)[i] = history[j]
<1>1. CASE Len(history) < MaxHistory
  <2>1. Remembered(undo) = Append(history, undo)
    BY <1>1 DEF Remembered
  <2>2. Append(history, undo) \in Seq(Undo) /\ Len(Append(history, undo)) = Len(history) + 1
        /\ Append(history, undo)[Len(history) + 1] = undo
        /\ \A i \in 1 .. Len(history) : Append(history, undo)[i] = history[i]
    OBVIOUS
  <2> QED BY <1>1, <2>1, <2>2, SimulatorAssumption
<1>2. CASE ~(Len(history) < MaxHistory) /\ MaxHistory = 0
  BY <1>2 DEF Remembered
<1>3. CASE ~(Len(history) < MaxHistory) /\ MaxHistory # 0
  <2>1. history # <<>> /\ Len(history) = MaxHistory
    BY <1>3, SimulatorAssumption
  <2>2. Tail(history) \in Seq(Undo) /\ Len(Tail(history)) = Len(history) - 1
        /\ \A i \in 1 .. Len(history) - 1 : Tail(history)[i] = history[i + 1]
    BY <2>1
  <2>3. Remembered(undo) = Append(Tail(history), undo)
    BY <1>3 DEF Remembered
  <2> DEFINE rest == Tail(history)
  <2>5. Append(rest, undo) \in Seq(Undo) /\ Len(Append(rest, undo)) = Len(rest) + 1
        /\ Append(rest, undo)[Len(rest) + 1] = undo
        /\ \A i \in 1 .. Len(rest) : Append(rest, undo)[i] = rest[i]
    BY <2>2
  <2>6. \A i \in 1 .. Len(rest) : rest[i] = history[i + 1] /\ i + 1 \in DOMAIN history
    BY <2>1, <2>2
  <2> HIDE DEF rest
  <2> QED BY <2>1, <2>2, <2>3, <2>5, <2>6, SimulatorAssumption DEF rest
<1> QED BY <1>1, <1>2, <1>3

\* An instruction of the current run is all that the history gains.
LEMMA ExecuteKeepsHistory ==
  ASSUME SimTypeOK, BackstepStaysInRun,
         NEW next \in Addresses, NEW writes \in BOOLEAN, Execute(next, writes)
  PROVE  /\ history' \in Seq(Undo) /\ Len(history') <= MaxHistory
         /\ BackstepStaysInRun'
         /\ pc' \in Addresses /\ run' = run
         /\ written' \in 0 .. OutputLimit /\ taken' \in 0 .. written'
<1>1. [run |-> run, pc |-> pc] \in Undo
  BY DEF SimTypeOK, Undo
<1>2. /\ run' = run /\ program' = program
      /\ IF program = "setUp" THEN history' = Remembered([run |-> run, pc |-> pc])
         ELSE history' = history
  BY DEF Execute
<1>3. history' \in Seq(Undo) /\ Len(history') <= MaxHistory
  BY <1>1, <1>2, RememberedIsHistory DEF SimTypeOK
<1>4. ASSUME program = "setUp" PROVE BackstepStaysInRun'
  <2> DEFINE undo == [run |-> run, pc |-> pc]
  <2>1. history' = Remembered(undo) /\ undo \in Undo /\ undo.run = run
    BY <1>1, <1>2, <1>4
  <2>2. history \in Seq(Undo) /\ Len(history) <= MaxHistory
    BY DEF SimTypeOK
  <2> HIDE DEF undo
  <2>3. \A i \in DOMAIN Remembered(undo) :
          Remembered(undo)[i] = undo \/ \E j \in DOMAIN history : Remembered(undo)[i] = history[j]
    BY <2>1, <2>2, RememberedIsHistory
  <2>4. \A j \in DOMAIN history : history[j].run = run
    BY DEF BackstepStaysInRun
  <2>5. \A i \in DOMAIN history' : history'[i].run = run
    <3> SUFFICES ASSUME NEW i \in DOMAIN history' PROVE history'[i].run = run
      OBVIOUS
    <3>1. CASE history'[i] = undo
      BY <2>1, <3>1
    <3>2. CASE \E j \in DOMAIN history : history'[i] = history[j]
      BY <2>4, <3>2
    <3> QED BY <2>1, <2>3, <3>1, <3>2
  <2>6. run' = run /\ program' # "rejected"
    BY <1>2, <1>4
  <2> QED BY <2>5, <2>6 DEF BackstepStaysInRun
<1>5. ASSUME program # "setUp" PROVE BackstepStaysInRun'
  <2>1. history' = history /\ run' = run /\ program' = program
    BY <1>2, <1>5
  <2> QED BY <2>1 DEF BackstepStaysInRun
<1>6. written' \in 0 .. OutputLimit /\ taken' \in 0 .. written' /\ pc' \in Addresses
  BY SimulatorAssumption DEF Execute, SimTypeOK
<1> QED BY <1>2, <1>3, <1>4, <1>5, <1>6

-----------------------------------------------------------------------------
(* The invariant *)

LEMMA SimInitially == SimInit => SimInv
<1> SUFFICES ASSUME SimInit PROVE SimInv
  OBVIOUS
<1>1. SimTypeOK
  <2>1. history \in Seq(Undo) /\ Len(history) = 0
    BY EmptySeq DEF SimInit
  <2>2. 0 <= MaxHistory /\ written \in 0 .. OutputLimit /\ taken \in 0 .. written
    BY SimulatorAssumption DEF SimInit
  <2> QED BY <2>1, <2>2, SimulatorAssumption DEF SimInit, SimTypeOK, StopReasons
<1>2. RunsOnlyRunnable /\ BackstepStaysInRun /\ ReasonFitsStatus
  BY DEF SimInit, RunsOnlyRunnable, EnsureRunnable, BackstepStaysInRun, ReasonFitsStatus, Terminations
<1> QED BY <1>1, <1>2 DEF SimInv

\* A load or a reset leaves nothing to step back to.
LEMMA SetUpKeeps ==
  ASSUME SimInv, SetUp, activity = "idle", activity' = "idle",
         program' = "setUp", breakpoints' = breakpoints
  PROVE  SimInv'
<1>1. SimTypeOK'
  <2>1. history' \in Seq(Undo) /\ Len(history') = 0
    BY EmptySeq DEF SetUp
  <2>2. 0 <= MaxHistory /\ written' \in 0 .. OutputLimit /\ taken' \in 0 .. written'
    BY SimulatorAssumption DEF SetUp
  <2>3. /\ pc' \in Addresses /\ run' \in Nat
        /\ status' = "paused" /\ stopReason' = "none" /\ exception' = FALSE
    BY SimulatorAssumption DEF SetUp, SimInv, SimTypeOK
  <2> QED BY <2>1, <2>2, <2>3 DEF SimInv, SimTypeOK, StopReasons
<1>2. RunsOnlyRunnable' /\ BackstepStaysInRun' /\ ReasonFitsStatus'
  BY DEF SimInv, SetUp, RunsOnlyRunnable, EnsureRunnable, BackstepStaysInRun, ReasonFitsStatus, Terminations
<1> QED BY <1>1, <1>2 DEF SimInv

\* What runs has not ended, so what stops without ending has no exception to report.
LEMMA InstructionKeeps ==
  ASSUME SimInv, Instruction
  PROVE  SimInv'
<1>1. PICK next \in Addresses, writes \in BOOLEAN :
        \/ InstructionDone(next, writes)
        \/ ProgramBreak(next, writes)
        \/ \E why \in Terminations : ProgramEnd(next, writes, why)
  BY DEF Instruction
<1>2. Execute(next, writes)
  BY <1>1 DEF InstructionDone, ProgramBreak, ProgramEnd
<1>3. /\ history' \in Seq(Undo) /\ Len(history') <= MaxHistory
      /\ BackstepStaysInRun'
      /\ pc' \in Addresses /\ run' = run
      /\ written' \in 0 .. OutputLimit /\ taken' \in 0 .. written'
  BY <1>2, ExecuteKeepsHistory DEF SimInv
<1>4. /\ program' = program /\ Loaded /\ breakpoints' = breakpoints
      /\ status # "terminated" /\ exception = FALSE
  BY <1>2 DEF Execute, SimInv, SimTypeOK, RunsOnlyRunnable, EnsureRunnable, ReasonFitsStatus, Loaded
<1>5. \/ Stop("paused", "step") /\ exception' = FALSE
      \/ Stop("paused", "breakpoint") /\ exception' = FALSE
      \/ UNCHANGED <<status, stopReason, activity, exception>>
      \/ \E why \in Terminations : Stop("terminated", why) /\ exception' \in BOOLEAN
  BY <1>1, <1>4 DEF InstructionDone, ProgramBreak, ProgramEnd
<1>6. /\ status' \in {"ready", "paused", "terminated"} /\ stopReason' \in StopReasons
      /\ exception' \in BOOLEAN
      /\ activity' \in {"idle", "step", "continue", "stopped"}
  BY <1>5 DEF Stop, StopReasons, SimInv, SimTypeOK
<1>7. SimTypeOK'
  BY <1>3, <1>4, <1>6 DEF SimInv, SimTypeOK
<1>8. RunsOnlyRunnable' /\ ReasonFitsStatus'
  BY <1>3, <1>4, <1>5 DEF SimInv, RunsOnlyRunnable, EnsureRunnable, ReasonFitsStatus, Stop, Terminations, Loaded
<1> QED BY <1>3, <1>7, <1>8 DEF SimInv

\* A backstep leaves a shorter history of the same run.
LEMMA BackstepKeeps ==
  ASSUME SimInv, Backstep
  PROVE  SimInv'
<1>1. /\ Len(history) \in Nat \ {0} /\ history \in Seq(Undo) /\ Len(history) <= MaxHistory
      /\ history' = SubSeq(history, 1, Len(history) - 1)
  BY DEF Backstep, SimInv, SimTypeOK
<1>2. /\ history' \in Seq(Undo) /\ Len(history') = Len(history) - 1
      /\ \A i \in DOMAIN history' : i \in DOMAIN history /\ history'[i] = history[i]
  <2> DEFINE n == Len(history) - 1
  <2>1. 1 \in Int /\ n \in Int /\ \A i \in 1 .. n : history[i] \in Undo
    BY <1>1
  <2> HIDE DEF n
  <2>2. /\ SubSeq(history, 1, n) \in Seq(Undo)
        /\ Len(SubSeq(history, 1, n)) = IF 1 <= n THEN n - 1 + 1 ELSE 0
        /\ \A i \in 1 .. n - 1 + 1 : SubSeq(history, 1, n)[i] = history[1 + i - 1]
    BY <2>1, SubSeqProperties
  <2>3. n \in Nat /\ n = Len(history) - 1 /\ history' = SubSeq(history, 1, n)
    BY <1>1 DEF n
  <2>4. Len(history') = n /\ history' \in Seq(Undo)
    BY <2>2, <2>3
  <2>5. DOMAIN history' = 1 .. n
    BY <2>4, LenProperties
  <2>6. \A i \in 1 .. n : history'[i] = history[i] /\ i \in DOMAIN history
    BY <1>1, <2>2, <2>3
  <2> QED BY <2>3, <2>4, <2>5, <2>6
<1>3. history[Len(history)] \in Undo
  BY <1>1
<1>4. pc' \in Addresses
  BY <1>3 DEF Backstep, Undo
<1>5. SimTypeOK'
  <2>1. history' \in Seq(Undo) /\ Len(history') <= MaxHistory
    BY <1>1, <1>2, SimulatorAssumption
  <2> QED BY <1>4, <2>1 DEF Backstep, Stop, StopReasons, SimInv, SimTypeOK
<1>6. BackstepStaysInRun'
  BY <1>2 DEF Backstep, BackstepStaysInRun, SimInv
<1>7. RunsOnlyRunnable' /\ ReasonFitsStatus'
  BY DEF Backstep, Stop, RunsOnlyRunnable, EnsureRunnable, ReasonFitsStatus, Terminations, SimInv
<1> QED BY <1>5, <1>6, <1>7 DEF SimInv

LEMMA SimNextKeeps ==
  ASSUME SimInv, SimNext
  PROVE  SimInv'
<1> USE DEF SimInv
<1>1. CASE Load
  BY <1>1, SetUpKeeps DEF Load, SimTypeOK
<1>2. CASE LoadRejected
  <2>1. history' = <<>> /\ history' \in Seq(Undo) /\ Len(history') = 0 /\ DOMAIN history' = {}
    BY <1>2, EmptySeq DEF LoadRejected
  <2>2. SimTypeOK'
    <3>1. /\ program' = "rejected" /\ pc' \in Addresses
          /\ UNCHANGED <<status, stopReason, exception, breakpoints, run, written, taken, activity>>
      BY <1>2 DEF LoadRejected
    <3> QED BY <2>1, <3>1, SimulatorAssumption DEF SimTypeOK
  <2>3. RunsOnlyRunnable' /\ ReasonFitsStatus'
    BY <1>2 DEF LoadRejected, RunsOnlyRunnable, EnsureRunnable, ReasonFitsStatus
  <2>4. BackstepStaysInRun'
    BY <2>1 DEF BackstepStaysInRun
  <2> QED BY <2>2, <2>3, <2>4
<1>3. CASE Reset
  BY <1>3, SetUpKeeps DEF Reset, SimTypeOK
<1>4. ASSUME NEW what \in {"step", "continue"}, Start(what)
      PROVE  SimInv'
  BY <1>4 DEF Start, EnsureRunnable, Loaded, SimTypeOK, RunsOnlyRunnable,
              BackstepStaysInRun, ReasonFitsStatus
<1>5. CASE Instruction
  BY <1>5, InstructionKeeps
<1>6. CASE PauseContinue \/ LimitContinue
  <2>1. exception = FALSE
    BY <1>6 DEF PauseContinue, LimitContinue, StopContinue, SimTypeOK,
                RunsOnlyRunnable, EnsureRunnable, ReasonFitsStatus
  <2> QED
    BY <1>6, <2>1 DEF PauseContinue, LimitContinue, StopContinue, Stop, StopReasons, SimTypeOK,
                RunsOnlyRunnable, EnsureRunnable, BackstepStaysInRun, ReasonFitsStatus, Terminations
<1>7. CASE RunFails \/ Snapshot \/ SnapshotFails
  BY <1>7 DEF RunFails, Snapshot, SnapshotFails, SimTypeOK,
              RunsOnlyRunnable, EnsureRunnable, BackstepStaysInRun, ReasonFitsStatus
<1>8. CASE Report
  <2>1. CASE Backstep
    BY <2>1, BackstepKeeps
  <2>2. CASE Terminate
    BY <2>2 DEF Terminate, Stop, StopReasons, SimTypeOK, RunsOnlyRunnable, EnsureRunnable,
                BackstepStaysInRun, ReasonFitsStatus, Terminations
  <2>3. CASE Inspect
    BY <2>3 DEF Inspect, SimTypeOK, RunsOnlyRunnable, EnsureRunnable, BackstepStaysInRun, ReasonFitsStatus
  <2>4. ASSUME NEW address \in Addresses, AddBreakpoint(address) \/ RemoveBreakpoint(address)
        PROVE  SimInv'
    BY <2>4 DEF AddBreakpoint, RemoveBreakpoint, SimTypeOK,
                RunsOnlyRunnable, EnsureRunnable, BackstepStaysInRun, ReasonFitsStatus
  <2> QED BY <1>8, <2>1, <2>2, <2>3, <2>4 DEF Report
<1>9. CASE ModifyAny
  BY <1>9 DEF ModifyAny, Modify, SimTypeOK, RunsOnlyRunnable, EnsureRunnable, BackstepStaysInRun, ReasonFitsStatus
<1> QED BY <1>1, <1>2, <1>3, <1>4, <1>5, <1>6, <1>7, <1>8, <1>9 DEF SimNext

LEMMA SimNextOrStutterKeeps == SimInv /\ [SimNext]_simVars => SimInv'
<1>1. CASE UNCHANGED simVars
  BY <1>1 DEF simVars, SimInv, SimTypeOK, RunsOnlyRunnable, EnsureRunnable, BackstepStaysInRun,
              ReasonFitsStatus, Loaded
<1> QED BY <1>1, SimNextKeeps

(***************************************************************************)
(* Whatever programs do and whatever is asked of the debugger: a backstep  *)
(* stays in the run, and the reason and the exception a snapshot reports   *)
(* fit its status.                                                         *)
(***************************************************************************)
THEOREM SimulatorSafe == SimSpec => [](SimTypeOK /\ BackstepStaysInRun /\ ReasonFitsStatus)
<1>1. SimInv => SimTypeOK /\ BackstepStaysInRun /\ ReasonFitsStatus
  BY DEF SimInv
<1> QED BY <1>1, SimInitially, SimNextOrStutterKeeps, PTL DEF SimSpec

-----------------------------------------------------------------------------
(* The threads *)

\* A task is taken off the queue only when it has been dealt with, so the worker has one
\* in hand until it is idle again, which is what the next client waits for.
TaskInHand ==
  /\ tasks \in Seq(Task)
  /\ clients \in Nat
  /\ count \in Nat /\ asked \in Seq(Lines)
  /\ worker # "idle" => tasks # <<>>
  /\ phase = "accepting" => tasks = <<>>
  /\ \A i \in DOMAIN tasks : tasks[i].client = clients

ServerInv == TaskInHand /\ BusyForTheWorker

ClientSendsOne == \E what \in Asked : ClientSends(what)
ReaderNext == Accept \/ ClientHangsUp \/ Read \/ Leave \/ WorkerEnds \/ ClientSendsOne

-----------------------------------------------------------------------------
(* The simulator inside the server *)

LEMMA StepsOfTheSimulator == [Next]_vars => [SimNext]_simVars
<1> SUFFICES ASSUME [Next]_vars PROVE [SimNext]_simVars
  OBVIOUS
<1>1. CASE ReaderNext
  BY <1>1 DEF ReaderNext, ClientSendsOne, Accept, ClientSends, ClientHangsUp, Read, Leave, WorkerEnds
<1>2. CASE Take \/ Drop \/ Greet \/ Refuse \/ ReportMalformed \/ DoEncode \/ Send
  BY <1>2 DEF Take, Drop, Greet, Refuse, ReportMalformed, DoEncode, Send
<1>3. CASE DoRestart \/ DoLoadRejected \/ DoStart
  BY <1>3 DEF DoRestart, DoLoadRejected, DoStart, Report, ModifyAny, SimNext
<1>4. CASE Run \/ DoSnapshot \/ DoFail \/ HookFails
  BY <1>4 DEF Run, DoSnapshot, DoFail, HookFails, SimNext
<1>5. CASE UNCHANGED vars
  BY <1>5 DEF vars
<1> QED BY <1>1, <1>2, <1>3, <1>4, <1>5 DEF Next, ReaderNext, ClientSendsOne, Worker

(***************************************************************************)
(* However clients come, ask, pause and leave, the two threads use the     *)
(* debugger as RarsSimulator says: the bridge implements its specification *)
(* and so keeps all that SimulatorSafe proves of it.                       *)
(***************************************************************************)
THEOREM ServerUsesSimulator == Spec => SimSpec
<1>1. Init => SimInit
  BY DEF Init
<1> QED BY <1>1, StepsOfTheSimulator, PTL DEF Spec, SimSpec

-----------------------------------------------------------------------------
(* One client at a time *)

LEMMA ServerInitially == Init => ServerInv
<1> SUFFICES ASSUME Init PROVE ServerInv
  OBVIOUS
<1>1. tasks \in Seq(Task) /\ asked \in Seq(Lines) /\ DOMAIN tasks = {}
  BY EmptySeq DEF Init
<1>2. TaskInHand
  BY <1>1 DEF Init, TaskInHand
<1>3. BusyForTheWorker
  BY DEF Init, SimInit, BusyForTheWorker
<1> QED BY <1>2, <1>3 DEF ServerInv

\* What the reader reads is a task of the current client.
LEMMA ReadIsOfTheClient ==
  ASSUME TaskInHand, Read
  PROVE  tasks' \in Seq(Task) /\ tasks' # <<>> /\ \A i \in DOMAIN tasks' : tasks'[i].client = clients
<1> DEFINE task == [client |-> clients, number |-> count + 1, what |-> asked[count + 1]]
<1>1. task \in Task /\ task.client = clients
  <2>1. count + 1 \in Nat /\ count + 1 \in DOMAIN asked
    BY DEF TaskInHand, Read
  <2>2. asked[count + 1] \in Lines
    BY <2>1 DEF TaskInHand
  <2> QED BY <2>1, <2>2 DEF Task, TaskInHand
<1>2. tasks' = Append(tasks, task)
  BY DEF Read
<1> HIDE DEF task
<1>3. /\ Append(tasks, task) \in Seq(Task) /\ Len(Append(tasks, task)) = Len(tasks) + 1
      /\ Append(tasks, task)[Len(tasks) + 1] = task
      /\ \A i \in 1 .. Len(tasks) : Append(tasks, task)[i] = tasks[i]
  BY <1>1 DEF TaskInHand
<1>4. Len(tasks) \in Nat /\ DOMAIN tasks = 1 .. Len(tasks)
  BY DEF TaskInHand
<1>5. DOMAIN tasks' = 1 .. Len(tasks) + 1
  BY <1>2, <1>3, LenProperties
<1>6. tasks' # <<>>
  BY <1>2, <1>3, <1>4
<1> QED BY <1>1, <1>2, <1>3, <1>4, <1>5, <1>6 DEF TaskInHand

\* A task that has been dealt with is the first of the queue.
LEMMA DealtWith ==
  ASSUME TaskInHand, tasks # <<>>, tasks' = Tail(tasks)
  PROVE  tasks' \in Seq(Task) /\ \A i \in DOMAIN tasks' : tasks'[i].client = clients
<1>1. /\ Tail(tasks) \in Seq(Task) /\ Len(tasks) \in Nat \ {0} /\ Len(Tail(tasks)) = Len(tasks) - 1
      /\ \A i \in 1 .. Len(tasks) - 1 : Tail(tasks)[i] = tasks[i + 1] /\ i + 1 \in DOMAIN tasks
  BY DEF TaskInHand
<1>2. DOMAIN tasks' = 1 .. Len(tasks) - 1
  BY <1>1, LenProperties
<1> QED BY <1>1, <1>2 DEF TaskInHand

LEMMA ReaderKeeps ==
  ASSUME ServerInv, ReaderNext
  PROVE  ServerInv'
<1> USE DEF ServerInv
<1>1. activity' = activity /\ worker' = worker
  BY DEF ReaderNext, ClientSendsOne, Accept, ClientSends, ClientHangsUp, Read, Leave, WorkerEnds,
         simVars, workerVars
<1>2. BusyForTheWorker'
  BY <1>1 DEF BusyForTheWorker
<1>3. CASE Read
  <2>1. tasks' \in Seq(Task) /\ tasks' # <<>> /\ \A i \in DOMAIN tasks' : tasks'[i].client = clients
    BY <1>3, ReadIsOfTheClient
  <2>2. count' \in Nat /\ clients' = clients /\ asked' = asked /\ phase' = "serving"
    BY <1>3 DEF Read, TaskInHand
  <2> QED BY <1>2, <2>1, <2>2 DEF TaskInHand
<1>4. CASE Accept
  <2>1. asked' \in Seq(Lines)
    BY <1>4, EmptySeq DEF Accept
  <2>2. tasks' = tasks /\ tasks = <<>> /\ clients' \in Nat /\ count' \in Nat
        /\ phase' = "serving" /\ DOMAIN tasks = {}
    BY <1>4, EmptySeq DEF Accept, TaskInHand
  <2> QED BY <1>1, <1>2, <2>1, <2>2 DEF TaskInHand
<1>5. CASE ClientSendsOne
  <2>1. PICK what \in Asked : ClientSends(what)
    BY <1>5 DEF ClientSendsOne
  <2>2. asked' \in Seq(Lines)
    BY <2>1, ServerAssumption DEF ClientSends, TaskInHand
  <2>3. UNCHANGED <<tasks, clients, count, phase>>
    BY <2>1 DEF ClientSends
  <2> QED BY <1>1, <1>2, <2>2, <2>3 DEF TaskInHand
<1>6. CASE ClientHangsUp \/ Leave \/ WorkerEnds
  <2>1. UNCHANGED <<tasks, clients, count, asked>> /\ (phase' = "accepting" => tasks = <<>>)
    BY <1>6 DEF ClientHangsUp, Leave, WorkerEnds
  <2> QED BY <1>1, <1>2, <2>1 DEF TaskInHand
<1> QED BY <1>3, <1>4, <1>5, <1>6 DEF ReaderNext

LEMMA WorkerKeeps ==
  ASSUME ServerInv, Worker
  PROVE  ServerInv'
<1> USE DEF ServerInv
<1>1. /\ tasks # <<>> /\ UNCHANGED <<phase, clients, count, asked>>
      /\ phase # "accepting"
      /\ \/ tasks' = tasks
         \/ tasks' = Tail(tasks) /\ worker' = "idle"
  BY DEF Worker, Take, Drop, Greet, Refuse, ReportMalformed, DoRestart, DoLoadRejected, DoEncode, DoStart, Run,
         DoSnapshot, DoFail, HookFails, Send, Doing, Dispatch, readerVars, workerVars, TaskInHand
<1>2. TaskInHand'
  <2>1. CASE tasks' = tasks
    BY <1>1, <2>1 DEF TaskInHand
  <2>2. CASE tasks' = Tail(tasks) /\ worker' = "idle"
    BY <1>1, <2>2, DealtWith DEF TaskInHand
  <2> QED BY <1>1, <2>1, <2>2
<1>3. BusyForTheWorker'
  <2>1. CASE Take \/ Drop \/ Greet \/ Refuse \/ ReportMalformed \/ DoEncode \/ Send
    BY <2>1 DEF Take, Drop, Greet, Refuse, ReportMalformed, DoEncode, Send, Doing, Dispatch, Respond, simVars,
                workerVars, BusyForTheWorker
  <2>2. CASE DoRestart \/ DoLoadRejected
    BY <2>2 DEF DoRestart, DoLoadRejected, Doing, Dispatch, Respond, Load, Reset, LoadRejected,
                BusyForTheWorker
  <2>3. CASE DoStart
    BY <2>3 DEF DoStart, Start, Report, ModifyAny, Backstep, Terminate, Inspect, AddBreakpoint,
                RemoveBreakpoint, Modify, Stop, BusyForTheWorker
  <2>4. CASE Run
    BY <2>4 DEF Run, Doing, Instruction, InstructionDone, ProgramBreak, ProgramEnd, Execute,
                PauseContinue, LimitContinue, StopContinue, Stop, workerVars, BusyForTheWorker
  <2>5. CASE DoSnapshot \/ DoFail
    BY <2>5 DEF DoSnapshot, DoFail, Snapshot, RunFails, SnapshotFails, Respond, BusyForTheWorker
  <2>6. CASE HookFails
    BY <2>6 DEF HookFails, Dispatch, Doing, Load, Reset, Snapshot, SnapshotFails, Respond, BusyForTheWorker
  <2> QED BY <2>1, <2>2, <2>3, <2>4, <2>5, <2>6 DEF Worker
<1> QED BY <1>2, <1>3

LEMMA ServerNextKeeps == ServerInv /\ [Next]_vars => ServerInv'
<1>1. CASE UNCHANGED vars
  BY <1>1 DEF vars, simVars, readerVars, workerVars, ServerInv, TaskInHand, BusyForTheWorker
<1> QED BY <1>1, ReaderKeeps, WorkerKeeps DEF Next, ReaderNext, ClientSendsOne

(***************************************************************************)
(* The simulator is busy exactly while the worker runs a request of the    *)
(* client that is connected, and it is free when the next one is accepted. *)
(***************************************************************************)
THEOREM ServesOneClient == Spec => [](OneClientAtATime /\ BusyForTheWorker)
<1>1. ServerInv => OneClientAtATime /\ BusyForTheWorker
  BY DEF ServerInv, TaskInHand, BusyForTheWorker, OneClientAtATime
<1> QED BY <1>1, ServerInitially, ServerNextKeeps, PTL DEF Spec

-----------------------------------------------------------------------------
(* What the threads know of each client's requests *)

\* The requests are read, queued and answered in the order they were sent, one reply each;
\* a client that leaves has none of what it had queued answered.
InOrder ==
  /\ Len(tasks) <= count
  /\ \A i \in DOMAIN tasks :
       /\ tasks[i].number = count - Len(tasks) + i
       /\ tasks[i].what = asked[count - Len(tasks) + i]
  /\ Len(made) <= count
  /\ (worker = "idle" => ~gone) =>
       Len(made) = count - Len(tasks) + IF worker = "sending" THEN 1 ELSE 0

\* Nothing runs before this client's own hello was answered.
GreetedFirst ==
  /\ worker = "running" => authenticated
  /\ authenticated =>
       \E number \in 1 .. Len(made) : asked[number] = "hello" /\ made[number].ok

\* Until the client leaves, what is paused comes before a pause it sent.
PausedByAPause ==
  ~gone => pausedBefore = 0 \/ (pausedBefore \in 1 .. count /\ asked[pausedBefore] = "pause")

RequestsInv ==
  /\ TypeOK /\ SimInv /\ ServerInv
  /\ InOrder /\ GreetedFirst /\ PausedByAPause

\* What a reply adds to those made.
Replied(ok) == \E reply \in Reply : reply.ok = ok /\ made' = Append(made, reply)

LEMMA RespondReplies ==
  ASSUME TypeOK, NEW ok \in BOOLEAN, NEW inRun \in Nat, NEW out \in Seq(Piece), Respond(ok, inRun, out)
  PROVE  Replied(ok) /\ worker' = "sending"
<1> DEFINE reply == [id |-> Len(made) + 1, ok |-> ok, run |-> inRun, out |-> out]
<1>1. Len(made) + 1 \in Nat
  BY DEF TypeOK
<1>2. reply \in Reply /\ reply.ok = ok
  BY <1>1 DEF Reply
<1>3. made' = Append(made, reply) /\ worker' = "sending"
  BY DEF Respond
<1> HIDE DEF reply
<1> QED BY <1>2, <1>3 DEF Replied

LEMMA OutputIsPieces == TypeOK => NewOutput \in Seq(Piece)
<1> SUFFICES ASSUME TypeOK PROVE NewOutput \in Seq(Piece)
  OBVIOUS
<1>1. <<>> \in Seq(Piece)
  BY EmptySeq
<1>2. run \in Nat /\ written \in Nat /\ taken \in Nat
  BY SimulatorAssumption DEF TypeOK, SimTypeOK
<1> DEFINE piece == [run |-> run, from |-> taken, to |-> written]
<1>3. piece \in Piece
  BY <1>2 DEF Piece
<1> HIDE DEF piece
<1>4. << piece >> \in Seq(Piece)
  BY <1>3
<1> QED BY <1>1, <1>4 DEF NewOutput, piece

\* The worker answers the task in hand, and does nothing but that.
Answers ==
  /\ worker \in {"answering", "running"} /\ worker' = "sending"
  /\ tasks' = tasks
  /\ \/ authenticated' = authenticated /\ \E ok \in BOOLEAN : Replied(ok)
     \/ authenticated' = TRUE /\ Current.what = "hello" /\ worker = "answering" /\ Replied(TRUE)

LEMMA WorkerSteps ==
  ASSUME TypeOK, Worker
  PROVE  /\ tasks # <<>> /\ UNCHANGED readerVars
         /\ Take \/ Drop \/ DoStart \/ Run \/ Send \/ Answers
<1>1. run \in Nat /\ run + 1 \in Nat /\ <<>> \in Seq(Piece) /\ NewOutput \in Seq(Piece)
      /\ TRUE \in BOOLEAN /\ FALSE \in BOOLEAN
  BY EmptySeq, OutputIsPieces DEF TypeOK, SimTypeOK
<1>2. tasks # <<>> /\ UNCHANGED readerVars
  BY DEF Worker, Take, Drop, Greet, Refuse, ReportMalformed, DoRestart, DoLoadRejected, DoEncode, DoStart, Run,
         DoSnapshot, DoFail, HookFails, Send, Doing, Dispatch
<1>3. CASE Greet
  <2>1. Respond(TRUE, run, <<>>) /\ worker = "answering" /\ Current.what = "hello"
        /\ authenticated' = TRUE /\ tasks' = tasks
    BY <1>3 DEF Greet, Doing
  <2> QED BY <1>1, <1>2, <2>1, RespondReplies DEF Answers
<1>4. CASE Refuse \/ DoLoadRejected \/ DoFail \/ HookFails
  <2>1. Respond(FALSE, run, <<>>) /\ worker \in {"answering", "running"}
        /\ authenticated' = authenticated /\ tasks' = tasks
    BY <1>4 DEF Refuse, DoLoadRejected, DoFail, HookFails, Doing, Dispatch
  <2> QED BY <1>1, <1>2, <2>1, RespondReplies DEF Answers
<1>5. CASE DoRestart \/ DoEncode \/ DoSnapshot
  <2>1. /\ worker \in {"answering", "running"}
        /\ authenticated' = authenticated /\ tasks' = tasks
    BY <1>5 DEF DoRestart, DoEncode, DoSnapshot, Doing, Dispatch
  <2>2. Respond(TRUE, run + 1, <<>>) \/ Respond(TRUE, run, <<>>) \/ Respond(TRUE, run, NewOutput)
    BY <1>5 DEF DoRestart, DoEncode, DoSnapshot
  <2> QED BY <1>1, <1>2, <2>1, <2>2, RespondReplies DEF Answers
<1>6. CASE ReportMalformed
  <2> DEFINE reply == [id |-> Unknown, ok |-> FALSE, run |-> run, out |-> <<>>]
  <2>1. reply \in Reply /\ reply.ok = FALSE
    BY <1>1 DEF Reply, Unknown
  <2>2. /\ made' = Append(made, reply) /\ worker = "answering" /\ worker' = "sending"
        /\ authenticated' = authenticated /\ tasks' = tasks
    BY <1>6 DEF ReportMalformed, Doing
  <2> HIDE DEF reply
  <2>3. Replied(FALSE)
    BY <2>1, <2>2 DEF Replied
  <2> QED BY <1>1, <1>2, <2>2, <2>3 DEF Answers
<1> QED BY <1>2, <1>3, <1>4, <1>5, <1>6 DEF Worker

LEMMA Appended ==
  ASSUME NEW S, NEW s \in Seq(S), NEW e \in S
  PROVE  /\ Append(s, e) \in Seq(S) /\ Len(s) \in Nat /\ Len(Append(s, e)) = Len(s) + 1
         /\ DOMAIN s = 1 .. Len(s) /\ DOMAIN Append(s, e) = 1 .. Len(s) + 1
         /\ Append(s, e)[Len(s) + 1] = e
         /\ \A i \in 1 .. Len(s) : Append(s, e)[i] = s[i]
<1>1. Append(s, e) \in Seq(S) /\ Len(s) \in Nat /\ Len(Append(s, e)) = Len(s) + 1
  OBVIOUS
<1>2. DOMAIN s = 1 .. Len(s) /\ DOMAIN Append(s, e) = 1 .. Len(s) + 1
  BY <1>1, LenProperties
<1>3. Append(s, e)[Len(s) + 1] = e /\ \A i \in 1 .. Len(s) : Append(s, e)[i] = s[i]
  BY <1>1
<1> QED BY <1>1, <1>2, <1>3

LEMMA FirstTaken ==
  ASSUME NEW S, NEW s \in Seq(S), s # <<>>
  PROVE  /\ Tail(s) \in Seq(S) /\ Len(s) \in Nat \ {0} /\ Len(Tail(s)) = Len(s) - 1
         /\ DOMAIN s = 1 .. Len(s) /\ DOMAIN Tail(s) = 1 .. Len(s) - 1
         /\ \A i \in 1 .. Len(s) - 1 : Tail(s)[i] = s[i + 1]
<1>1. Tail(s) \in Seq(S) /\ Len(s) \in Nat \ {0} /\ Len(Tail(s)) = Len(s) - 1
  OBVIOUS
<1>2. DOMAIN s = 1 .. Len(s) /\ DOMAIN Tail(s) = 1 .. Len(s) - 1
  BY <1>1, LenProperties
<1>3. \A i \in 1 .. Len(s) - 1 : Tail(s)[i] = s[i + 1]
  BY <1>1
<1> QED BY <1>1, <1>2, <1>3

\* The task in hand is the request that is to be answered next.
LEMMA InHand ==
  ASSUME TypeOK, InOrder, tasks # <<>>
  PROVE  /\ Current \in Task
         /\ Current.number = count - Len(tasks) + 1 /\ Current.number \in 1 .. count
         /\ Current.what = asked[Current.number]
         /\ worker \in {"answering", "running"} => Current.number = Len(made) + 1
<1>1. Len(tasks) \in Nat \ {0} /\ count \in Nat /\ Len(made) \in Nat /\ 1 \in DOMAIN tasks /\ DOMAIN tasks = 1 .. Len(tasks)
  BY FirstTaken DEF TypeOK
<1>2. tasks[1] \in Task
  BY <1>1 DEF TypeOK
<1>3. tasks[1].number = count - Len(tasks) + 1 /\ tasks[1].what = asked[count - Len(tasks) + 1]
  BY <1>1 DEF InOrder
<1> QED BY <1>1, <1>2, <1>3 DEF InOrder, Current

LEMMA RequestsInitially == Init => RequestsInv
<1> SUFFICES ASSUME Init PROVE RequestsInv
  OBVIOUS
<1>1. SimInv /\ ServerInv
  BY SimInitially, ServerInitially DEF Init
<1>2. /\ tasks \in Seq(Task) /\ Len(tasks) = 0 /\ DOMAIN tasks = {}
      /\ asked \in Seq(Lines) /\ Len(asked) = 0
      /\ made \in Seq(Reply) /\ Len(made) = 0
  BY EmptySeq DEF Init
<1>3. TypeOK
  <2>1. SimTypeOK
    BY <1>1 DEF SimInv
  <2>2. /\ clients \in 0 .. MaxClients /\ count \in 0 .. Len(asked) /\ Len(asked) <= MaxSent
        /\ pausedBefore \in 0 .. Forever
    BY <1>2, ServerAssumption DEF Init, Forever
  <2> QED BY <1>2, <2>1, <2>2 DEF Init, TypeOK
<1>4. InOrder
  <2>1. count = 0 /\ worker = "idle"
    BY DEF Init
  <2> QED BY <1>2, <2>1 DEF InOrder
<1>5. GreetedFirst /\ PausedByAPause
  BY DEF Init, GreetedFirst, PausedByAPause
<1> QED BY <1>1, <1>3, <1>4, <1>5 DEF RequestsInv

LEMMA ReaderKeepsRequests ==
  ASSUME RequestsInv, ReaderNext, SimInv', ServerInv'
  PROVE  RequestsInv'
<1> USE DEF RequestsInv
<1>0. SimTypeOK'
  BY DEF SimInv
<1>1. CASE Read
  <2> DEFINE task == [client |-> clients, number |-> count + 1, what |-> asked[count + 1]]
  <2>1. /\ tasks' = Append(tasks, task) /\ count' = count + 1 /\ count + 1 \in 1 .. Len(asked)
        /\ UNCHANGED <<phase, clients, asked, hungUp, gone, authenticated, worker, made>>
        /\ pausedBefore' = IF asked[count + 1] = "pause" THEN count + 1 ELSE pausedBefore
    BY <1>1 DEF Read, TypeOK, workerVars, PausesBefore
  <2>2. task \in Task /\ task.number = count + 1 /\ task.what = asked[count + 1]
    <3>1. asked[count + 1] \in Lines /\ count + 1 \in Nat /\ clients \in Nat
      BY <2>1, ServerAssumption DEF TypeOK
    <3> QED BY <3>1 DEF Task
  <2> HIDE DEF task
  <2>3. /\ tasks' \in Seq(Task) /\ Len(tasks) \in Nat /\ Len(tasks') = Len(tasks) + 1
        /\ DOMAIN tasks = 1 .. Len(tasks) /\ DOMAIN tasks' = 1 .. Len(tasks) + 1
        /\ tasks'[Len(tasks) + 1] = task /\ \A i \in 1 .. Len(tasks) : tasks'[i] = tasks[i]
    BY <2>1, <2>2, Appended DEF TypeOK
  <2>4. pausedBefore' \in 0 .. Forever
    BY <2>1, ServerAssumption DEF TypeOK, Forever
  <2>5. TypeOK'
    BY <1>0, <2>1, <2>3, <2>4 DEF TypeOK
  <2>6. InOrder'
    <3>1. Len(made) \in Nat /\ count \in Nat
      BY DEF TypeOK
    <3>2. Len(tasks') <= count' /\ Len(made') <= count' /\ count' - Len(tasks') = count - Len(tasks)
      BY <2>1, <2>3, <3>1 DEF InOrder
    <3>3. \A i \in DOMAIN tasks' :
            /\ tasks'[i].number = count' - Len(tasks') + i
            /\ tasks'[i].what = asked'[count' - Len(tasks') + i]
      <4> SUFFICES ASSUME NEW i \in 1 .. Len(tasks) + 1
                   PROVE  /\ tasks'[i].number = count - Len(tasks) + i
                          /\ tasks'[i].what = asked[count - Len(tasks) + i]
        BY <2>1, <2>3, <3>2
      <4>1. CASE i = Len(tasks) + 1
        <5>1. count - Len(tasks) + i = count + 1
          BY <4>1, <2>3, <3>1
        <5> QED BY <4>1, <5>1, <2>2, <2>3
      <4>2. CASE i \in 1 .. Len(tasks)
        BY <4>2, <2>3 DEF InOrder
      <4> QED BY <4>1, <4>2, <2>3
    <3> QED BY <2>1, <3>2, <3>3 DEF InOrder
  <2>7. GreetedFirst' /\ PausedByAPause'
    BY <2>1 DEF GreetedFirst, PausedByAPause, TypeOK
  <2> QED BY <2>5, <2>6, <2>7
<1>2. CASE Accept
  <2>1. /\ asked' = <<>> /\ count' = 0 /\ made' = <<>> /\ authenticated' = FALSE /\ gone' = FALSE
        /\ pausedBefore' = 0 /\ hungUp' = FALSE /\ phase' = "serving" /\ clients' \in 0 .. MaxClients
        /\ tasks' = <<>> /\ worker' = "idle"
    BY <1>2, ServerAssumption DEF Accept, TypeOK, ServerInv, TaskInHand
  <2>2. /\ tasks' \in Seq(Task) /\ Len(tasks') = 0 /\ DOMAIN tasks' = {}
        /\ asked' \in Seq(Lines) /\ Len(asked') = 0
        /\ made' \in Seq(Reply) /\ Len(made') = 0
    BY <2>1, EmptySeq
  <2>3. TypeOK'
    <3>1. /\ phase' \in {"accepting", "serving", "leaving"} /\ worker' \in {"idle", "answering", "running", "sending"}
          /\ count' \in 0 .. Len(asked') /\ Len(asked') <= MaxSent /\ pausedBefore' \in 0 .. Forever
      BY <2>1, <2>2, ServerAssumption DEF Forever
    <3>2. hungUp' \in BOOLEAN /\ gone' \in BOOLEAN /\ authenticated' \in BOOLEAN
      BY <2>1
    <3> QED BY <1>0, <2>1, <2>2, <3>1, <3>2 DEF TypeOK
  <2>4. InOrder'
    <3>0. Len(tasks') = 0 /\ Len(made') = 0 /\ count' = 0
      BY <2>1, <2>2
    <3>1. Len(tasks') <= count' /\ Len(made') <= count' /\ Len(made') = count' - Len(tasks') + 0
      BY <3>0
    <3>2. Len(made') = count' - Len(tasks') + IF worker' = "sending" THEN 1 ELSE 0
      BY <2>1, <3>1
    <3>3. \A i \in DOMAIN tasks' : FALSE
      BY <2>2
    <3> QED BY <3>1, <3>2, <3>3 DEF InOrder
  <2>5. GreetedFirst' /\ PausedByAPause'
    BY <2>1 DEF GreetedFirst, PausedByAPause
  <2> QED BY <2>3, <2>4, <2>5
<1>3. CASE ClientSendsOne
  <2>1. PICK what \in Asked : ClientSends(what)
    BY <1>3 DEF ClientSendsOne
  <2>2. asked' = Append(asked, what) /\ what \in Lines /\ asked \in Seq(Lines)
        /\ Len(asked) < MaxSent
    BY <2>1, ServerAssumption DEF ClientSends, TypeOK
  <2>3. /\ asked' \in Seq(Lines) /\ Len(asked) \in Nat /\ Len(asked') = Len(asked) + 1
        /\ \A i \in 1 .. Len(asked) : asked'[i] = asked[i]
    BY <2>2, Appended
  <2>4. UNCHANGED <<phase, clients, hungUp, count, pausedBefore, gone, tasks, authenticated, worker, made>>
    BY <2>1 DEF ClientSends, workerVars
  <2>5. TypeOK'
    BY <1>0, <2>2, <2>3, <2>4, ServerAssumption DEF TypeOK
  <2>6. \A i \in 1 .. count : asked'[i] = asked[i]
    BY <2>3 DEF TypeOK
  <2>7. count \in Nat /\ Len(made) \in Nat /\ Len(tasks) \in Nat /\ DOMAIN tasks = 1 .. Len(tasks)
    BY <2>3, LenProperties DEF TypeOK
  <2>8. InOrder'
    <3>1. \A i \in 1 .. Len(tasks) : count - Len(tasks) + i \in 1 .. count
      BY <2>7 DEF InOrder
    <3> QED BY <2>4, <2>6, <2>7, <3>1 DEF InOrder
  <2>9. GreetedFirst'
    <3>1. \A i \in 1 .. Len(made) : i \in 1 .. count
      BY <2>7 DEF InOrder
    <3> QED BY <2>4, <2>6, <3>1 DEF GreetedFirst
  <2>10. PausedByAPause'
    BY <2>4, <2>6 DEF PausedByAPause
  <2> QED BY <2>5, <2>8, <2>9, <2>10
<1>4. CASE ClientHangsUp \/ WorkerEnds
  <2>1. UNCHANGED <<clients, asked, count, pausedBefore, gone, tasks, authenticated, worker, made>>
        /\ phase' \in {"accepting", "serving", "leaving"} /\ hungUp' \in BOOLEAN
    BY <1>4 DEF ClientHangsUp, WorkerEnds, workerVars, TypeOK
  <2> QED BY <1>0, <2>1 DEF TypeOK, InOrder, GreetedFirst, PausedByAPause
<1>5. CASE Leave
  <2>1. UNCHANGED <<clients, asked, hungUp, count, tasks, authenticated, worker, made>>
        /\ phase' = "leaving" /\ gone' = TRUE /\ pausedBefore' = Forever
    BY <1>5 DEF Leave, workerVars
  <2>2. TypeOK'
    BY <1>0, <2>1, ServerAssumption DEF TypeOK, Forever
  <2> QED BY <2>1, <2>2 DEF InOrder, GreetedFirst, PausedByAPause
<1> QED BY <1>1, <1>2, <1>3, <1>4, <1>5 DEF ReaderNext

LEMMA WorkerKeepsRequests ==
  ASSUME RequestsInv, Worker, SimInv', ServerInv'
  PROVE  RequestsInv'
<1> USE DEF RequestsInv
<1>0. SimTypeOK'
  BY DEF SimInv
<1>1. /\ tasks # <<>>
      /\ UNCHANGED <<phase, clients, asked, hungUp, count, pausedBefore, gone>>
      /\ Take \/ Drop \/ DoStart \/ Run \/ Send \/ Answers
  BY WorkerSteps DEF readerVars
<1>2. /\ Len(tasks) \in Nat \ {0} /\ count \in Nat /\ Len(made) \in Nat /\ made \in Seq(Reply)
      /\ DOMAIN tasks = 1 .. Len(tasks) /\ tasks \in Seq(Task)
  BY <1>1, LenProperties DEF TypeOK
<1>3. PausedByAPause'
  BY <1>1 DEF PausedByAPause
<1>4. CASE Take \/ Run \/ DoStart
  <2>1. UNCHANGED <<tasks, authenticated, made>>
        /\ worker' \in {"answering", "running"} /\ (worker = "idle" => ~gone)
        /\ worker # "sending" /\ (worker' = "running" => authenticated)
    BY <1>4 DEF Take, Run, DoStart, Doing, Dispatch, workerVars, GreetedFirst
  <2>2. TypeOK'
    BY <1>0, <1>1, <2>1 DEF TypeOK
  <2>3. InOrder' /\ GreetedFirst'
    BY <1>1, <2>1 DEF InOrder, GreetedFirst
  <2> QED BY <1>3, <2>2, <2>3
<1>5. CASE Drop \/ Send
  <2>1. /\ tasks' = Tail(tasks) /\ UNCHANGED <<authenticated, made>> /\ worker' = "idle"
        /\ \/ worker = "idle" /\ gone
           \/ worker = "sending"
    BY <1>5 DEF Drop, Send, Doing, workerVars
  <2>2. /\ tasks' \in Seq(Task) /\ Len(tasks') = Len(tasks) - 1 /\ DOMAIN tasks' = 1 .. Len(tasks) - 1
        /\ \A i \in 1 .. Len(tasks) - 1 : tasks'[i] = tasks[i + 1]
    BY <1>1, <1>2, <2>1, FirstTaken
  <2>3. TypeOK'
    BY <1>0, <1>1, <2>1, <2>2 DEF TypeOK
  <2>4. InOrder'
    <3>1. Len(tasks') <= count' /\ Len(made') <= count' /\ count' - Len(tasks') = count - Len(tasks) + 1
      BY <1>1, <1>2, <2>1, <2>2 DEF InOrder
    <3>2. \A i \in DOMAIN tasks' :
            /\ tasks'[i].number = count' - Len(tasks') + i
            /\ tasks'[i].what = asked'[count' - Len(tasks') + i]
      <4> SUFFICES ASSUME NEW i \in 1 .. Len(tasks) - 1
                   PROVE  /\ tasks'[i].number = count - Len(tasks) + 1 + i
                          /\ tasks'[i].what = asked[count - Len(tasks) + 1 + i]
        BY <1>1, <2>2, <3>1
      <4>1. tasks'[i] = tasks[i + 1] /\ i + 1 \in DOMAIN tasks
        BY <1>2, <2>2
      <4>2. count - Len(tasks) + 1 + i = count - Len(tasks) + (i + 1)
        BY <1>2
      <4> QED BY <4>1, <4>2 DEF InOrder
    <3>3. gone' \/ Len(made') = count' - Len(tasks')
      BY <1>1, <1>2, <2>1, <3>1 DEF InOrder
    <3> QED BY <2>1, <3>1, <3>2, <3>3 DEF InOrder
  <2>5. GreetedFirst'
    BY <1>1, <2>1 DEF GreetedFirst
  <2> QED BY <1>3, <2>3, <2>4, <2>5
<1>6. CASE Answers
  <2>1. PICK ok \in BOOLEAN : Replied(ok) /\ (ok \/ authenticated' = authenticated)
    BY <1>6 DEF Answers
  <2>2. PICK reply \in Reply : reply.ok = ok /\ made' = Append(made, reply)
    BY <2>1 DEF Replied
  <2>3. /\ made' \in Seq(Reply) /\ Len(made') = Len(made) + 1 /\ made'[Len(made) + 1] = reply
        /\ \A i \in 1 .. Len(made) : made'[i] = made[i]
    BY <2>2, <1>2, Appended
  <2>4. /\ tasks' = tasks /\ worker \in {"answering", "running"} /\ worker' = "sending"
        /\ \/ authenticated' = authenticated
           \/ authenticated' = TRUE /\ Current.what = "hello" /\ \E yes \in Reply : yes.ok /\ made' = Append(made, yes)
    BY <1>6 DEF Answers, Replied
  <2>5. /\ Current.number = Len(made) + 1 /\ Current.number \in 1 .. count
        /\ Current.what = asked[Current.number] /\ Current.number = count - Len(tasks) + 1
    BY <1>1, <2>4, InHand
  <2>6. TypeOK'
    BY <1>0, <1>1, <2>3, <2>4 DEF TypeOK
  <2>7. InOrder'
    <3>1. Len(made') <= count' /\ Len(made') = count' - Len(tasks') + 1
      BY <1>1, <1>2, <2>3, <2>4, <2>5
    <3> QED BY <1>1, <2>4, <3>1 DEF InOrder
  <2>8. GreetedFirst'
    <3>1. CASE authenticated' = authenticated
      BY <3>1, <1>1, <1>2, <2>3, <2>4 DEF GreetedFirst
    <3>2. CASE authenticated' = TRUE /\ Current.what = "hello"
               /\ \E yes \in Reply : yes.ok /\ made' = Append(made, yes)
      <4>1. PICK yes \in Reply : yes.ok /\ made' = Append(made, yes)
        BY <3>2
      <4>2. made'[Len(made) + 1] = yes
        BY <4>1, <1>2, Appended
      <4>3. asked'[Len(made) + 1] = "hello" /\ made'[Len(made) + 1].ok /\ Len(made) + 1 \in 1 .. Len(made')
        BY <1>1, <1>2, <2>3, <2>5, <3>2, <4>1, <4>2
      <4> QED BY <4>3, <2>4 DEF GreetedFirst
    <3> QED BY <2>4, <3>1, <3>2
  <2> QED BY <1>3, <2>6, <2>7, <2>8
<1> QED BY <1>1, <1>4, <1>5, <1>6

LEMMA RequestsNext == RequestsInv /\ [Next]_vars => RequestsInv'
<1> SUFFICES ASSUME RequestsInv, [Next]_vars PROVE RequestsInv'
  OBVIOUS
<1>1. SimInv' /\ ServerInv'
  <2>1. SimInv /\ [SimNext]_simVars => SimInv'
    BY SimNextOrStutterKeeps
  <2> QED BY <2>1, StepsOfTheSimulator, ServerNextKeeps DEF RequestsInv
<1>2. CASE UNCHANGED vars
  <2>1. UNCHANGED <<phase, clients, asked, hungUp, count, pausedBefore, gone, tasks, authenticated, worker, made>>
    BY <1>2 DEF vars, readerVars, workerVars
  <2> QED BY <1>1, <2>1 DEF RequestsInv, SimInv, TypeOK, InOrder, GreetedFirst, PausedByAPause
<1> QED BY <1>1, <1>2, ReaderKeepsRequests, WorkerKeepsRequests DEF Next, ReaderNext, ClientSendsOne

(***************************************************************************)
(* The debugger moves only for a client whose own hello was answered, and  *)
(* a continue is paused only by a pause the same client sent after it or   *)
(* by its leaving: the reply to make next is that of the task in hand, so  *)
(* a pause number past it belongs to a pause that came after it.           *)
(***************************************************************************)
THEOREM DoneAsAsked == Spec => OnlyAsAsked
<1> DEFINE
      Greeted == simVars' # simVars =>
        \E number \in 1 .. Current.number - 1 : asked[number] = "hello" /\ made[number].ok
      Paused == activity = "continue" /\ activity' = "stopped" /\ stopReason' = "paused" =>
        \/ gone
        \/ \E number \in Current.number + 1 .. count : asked[number] = "pause"
<1>1. ASSUME RequestsInv, [Next]_vars, simVars' # simVars
      PROVE  /\ tasks # <<>> /\ authenticated /\ worker \in {"answering", "running"}
             /\ Current.number = Len(made) + 1
  <2>1. /\ tasks # <<>> /\ worker \in {"answering", "running"}
        /\ authenticated \/ worker = "running"
    <3>1. Worker
      BY <1>1 DEF vars, Next, Accept, ClientHangsUp, Read, Leave, WorkerEnds, ClientSends
    <3> QED BY <1>1, <3>1 DEF Worker, Take, Drop, Greet, Refuse, ReportMalformed, DoRestart, DoLoadRejected, DoEncode, DoStart,
                Run, DoSnapshot, DoFail, HookFails, Send, Doing, Dispatch
  <2> QED BY <1>1, <2>1, InHand DEF RequestsInv, GreetedFirst
<1>2. RequestsInv /\ [Next]_vars => Greeted
  <2> SUFFICES ASSUME RequestsInv, [Next]_vars, simVars' # simVars
               PROVE  \E number \in 1 .. Current.number - 1 : asked[number] = "hello" /\ made[number].ok
    OBVIOUS
  <2>1. Current.number - 1 = Len(made)
    BY <1>1 DEF RequestsInv, TypeOK
  <2> QED BY <1>1, <2>1 DEF RequestsInv, GreetedFirst
<1>3. RequestsInv /\ [Next]_vars => Paused
  <2> SUFFICES ASSUME RequestsInv, [Next]_vars, ~gone,
                      activity = "continue", activity' = "stopped", stopReason' = "paused"
               PROVE  \E number \in Current.number + 1 .. count : asked[number] = "pause"
    OBVIOUS
  <2>1. Worker
    <3>1. simVars' # simVars
      BY DEF simVars
    <3> QED BY <3>1 DEF vars, Next, Accept, ClientHangsUp, Read, Leave, WorkerEnds, ClientSends
  <2>2. Run
    BY <2>1 DEF Worker, Take, Drop, Greet, Refuse, ReportMalformed, DoRestart, DoLoadRejected, DoEncode, DoStart,
           Start, Report, ModifyAny, Backstep, Terminate, Inspect, AddBreakpoint, RemoveBreakpoint, Modify,
           Load, Reset, LoadRejected, DoSnapshot, Snapshot, DoFail, RunFails, SnapshotFails,
           HookFails, Send, simVars
  <2>3. PauseRequested
    <3>1. ~Instruction
      BY DEF Instruction, InstructionDone, ProgramBreak, ProgramEnd, Stop, Terminations
    <3>2. ~LimitContinue
      BY DEF LimitContinue, StopContinue, Stop
    <3> QED BY <2>2, <3>1, <3>2 DEF Run
  <2>4. Current.number \in 1 .. count
    BY <2>2, InHand DEF Run, Doing, RequestsInv
  <2> QED BY <2>3, <2>4 DEF PauseRequested, RequestsInv, PausedByAPause, TypeOK
<1>4. Greeted /\ Paused => [Greeted /\ Paused]_vars
  OBVIOUS
<1> HIDE DEF Greeted, Paused
<1>5. Spec => [][Greeted /\ Paused]_vars
  BY <1>2, <1>3, RequestsInitially, RequestsNext, PTL DEF Spec
<1> QED BY <1>5, PTL DEF OnlyAsAsked, Greeted, Paused

-----------------------------------------------------------------------------
(* The contract with one client *)

\* What runs or is about to be reported is what the task in hand asks for.
InProgress ==
  worker = "running" =>
    /\ Current.what \in {"step", "continue", "report", "modify", "pause"}
    /\ activity \in {"step", "continue"} => Current.what \in {"step", "continue"}

\* A program that was set up has a run; where there is none, nothing ever ran.
RunOfAProgram == (program = "none" => run = 0) /\ (program = "setUp" => run > 0)

NoClientYet ==
  /\ phase # "accepting" => clients > 0
  /\ clients = 0 => asked = <<>> /\ made = <<>>

RequestsOnly == asked \in Seq(Requests)

ContractInv == RequestsInv /\ InProgress /\ RunOfAProgram /\ NoClientYet /\ RequestsOnly

LEMMA ContractInitially == Init => ContractInv
  BY RequestsInitially, EmptySeq
     DEF ContractInv, Init, SimInit, InProgress, RunOfAProgram, NoClientYet, RequestsOnly

LEMMA InProgressKept == ContractInv /\ [Next]_vars => InProgress'
<1> SUFFICES ASSUME ContractInv, [Next]_vars PROVE InProgress'
  OBVIOUS
<1> USE DEF ContractInv
<1>1. CASE ReaderNext
  <2>1. worker' = worker /\ activity' = activity
    BY <1>1 DEF ReaderNext, ClientSendsOne, Accept, ClientSends, ClientHangsUp, Read, Leave, WorkerEnds,
           simVars, workerVars
  <2>2. ASSUME worker = "running" PROVE tasks'[1] = tasks[1]
    <3>1. tasks # <<>> /\ tasks \in Seq(Task)
      BY <2>2 DEF RequestsInv, ServerInv, TaskInHand
    <3>2. CASE Read
      <4> DEFINE task == [client |-> clients, number |-> count + 1, what |-> asked[count + 1]]
      <4>1. tasks' = Append(tasks, task)
        BY <3>2 DEF Read
      <4> HIDE DEF task
      <4> QED BY <3>1, <4>1
    <3>3. CASE ~Read
      BY <1>1, <3>3 DEF ReaderNext, ClientSendsOne, Accept, ClientSends, ClientHangsUp, Leave, WorkerEnds
    <3> QED BY <3>2, <3>3
  <2> QED BY <2>1, <2>2 DEF InProgress, Current
<1>2. CASE DoStart
  <2>1. tasks' = tasks
    BY <1>2 DEF DoStart
  <2>2. \/ Current.what \in {"step", "continue"}
        \/ Current.what \in {"report", "modify", "pause"} /\ activity' = "stopped"
    BY <1>2 DEF DoStart, Dispatch, Report, ModifyAny, Backstep, Terminate, Inspect, AddBreakpoint,
                RemoveBreakpoint, Modify, Stop
  <2> QED BY <2>1, <2>2 DEF InProgress, Current
<1>3. CASE Run
  <2>1. tasks' = tasks /\ worker' = worker /\ worker = "running"
    BY <1>3 DEF Run, workerVars, Doing
  <2>2. activity' = activity \/ activity' = "stopped"
    BY <1>3 DEF Run, Instruction, InstructionDone, ProgramBreak, ProgramEnd, PauseContinue,
                LimitContinue, StopContinue, Stop
  <2> QED BY <2>1, <2>2 DEF InProgress, Current
<1>4. CASE Take \/ Drop \/ Send \/ Answers
  <2>1. worker' # "running"
    BY <1>4 DEF Take, Drop, Send, Answers, Doing, workerVars
  <2> QED BY <2>1 DEF InProgress
<1>5. CASE UNCHANGED vars
  BY <1>5 DEF vars, simVars, workerVars, InProgress, Current
<1>6. Worker => Take \/ Drop \/ DoStart \/ Run \/ Send \/ Answers
  BY WorkerSteps DEF RequestsInv
<1> QED BY <1>1, <1>2, <1>3, <1>4, <1>5, <1>6 DEF Next, ReaderNext, ClientSendsOne

LEMMA RunOfAProgramKept == SimInv /\ RunOfAProgram /\ [SimNext]_simVars => RunOfAProgram'
<1> SUFFICES ASSUME SimInv, RunOfAProgram, [SimNext]_simVars PROVE RunOfAProgram'
  OBVIOUS
<1>1. run \in Nat
  BY DEF SimInv, SimTypeOK
<1>2. CASE Load \/ Reset \/ LoadRejected
  BY <1>1, <1>2 DEF Load, Reset, LoadRejected, SetUp, RunOfAProgram
<1>3. CASE ~(Load \/ Reset \/ LoadRejected)
  <2>1. program' = program /\ run' = run
    BY <1>3 DEF SimNext, simVars, Start, Instruction, InstructionDone, ProgramBreak, ProgramEnd,
       Execute, PauseContinue, LimitContinue, StopContinue, RunFails, Report, ModifyAny, Backstep, Terminate,
       Inspect, AddBreakpoint, RemoveBreakpoint, Modify, Snapshot, SnapshotFails
  <2> QED BY <2>1 DEF RunOfAProgram
<1> QED BY <1>2, <1>3

LEMMA ContractInvNext ==
  ASSUME Asked \subseteq Requests, ContractInv, [Next]_vars
  PROVE  ContractInv'
<1> USE DEF ContractInv
<1>1. RequestsInv' /\ InProgress'
  BY RequestsNext, InProgressKept
<1>2. RunOfAProgram'
  BY StepsOfTheSimulator, RunOfAProgramKept DEF RequestsInv
<1>3. NoClientYet'
  <2>1. clients \in Nat
    BY DEF RequestsInv, ServerInv, TaskInHand
  <2>2. CASE Worker
    <3>1. tasks # <<>> /\ UNCHANGED readerVars
      BY <2>2, WorkerSteps DEF RequestsInv
    <3>2. clients > 0
      BY <3>1 DEF RequestsInv, ServerInv, TaskInHand, NoClientYet
    <3> QED BY <2>1, <3>1, <3>2 DEF readerVars, NoClientYet
  <2>3. CASE ReaderNext \/ UNCHANGED vars
    BY <2>1, <2>3 DEF ReaderNext, ClientSendsOne, Accept, ClientSends, ClientHangsUp, Read, Leave, WorkerEnds,
           vars, readerVars, workerVars, NoClientYet
  <2> QED BY <2>2, <2>3 DEF Next, ReaderNext, ClientSendsOne
<1>4. RequestsOnly'
  <2>1. CASE asked' = asked
    BY <2>1 DEF RequestsOnly
  <2>2. CASE Accept
    BY <2>2, EmptySeq DEF Accept, RequestsOnly
  <2>3. ASSUME NEW what \in Asked, ClientSends(what)
        PROVE  RequestsOnly'
    BY <2>3, Appended DEF ClientSends, RequestsOnly
  <2>4. Worker => asked' = asked
    BY WorkerSteps DEF RequestsInv, readerVars
  <2>5. ClientHangsUp \/ Read \/ Leave \/ WorkerEnds \/ UNCHANGED vars => asked' = asked
    BY DEF ClientHangsUp, Read, Leave, WorkerEnds, vars, readerVars
  <2> QED BY <2>1, <2>2, <2>3, <2>4, <2>5 DEF Next
<1> QED BY <1>1, <1>2, <1>3, <1>4

Sent(requests) == [i \in DOMAIN requests |-> Kind(requests[i])]

LEMMA KindIsWhat == ASSUME NEW what \in Requests PROVE Kind(what) \in Contract!Whats
  BY DEF Kind, Contract!Whats, Requests

LEMMA SentIs ==
  ASSUME NEW s \in Seq(Requests)
  PROVE  /\ Sent(s) \in Seq(Contract!Whats) /\ Len(Sent(s)) = Len(s)
         /\ \A i \in 1 .. Len(s) : Sent(s)[i] = Kind(s[i])
<1>1. Len(s) \in Nat /\ DOMAIN s = 1 .. Len(s) /\ \A i \in DOMAIN s : s[i] \in Requests
  BY LenProperties
<1> DEFINE f == [i \in DOMAIN s |-> Kind(s[i])]
<1>2. f \in [1 .. Len(s) -> Contract!Whats] /\ \A i \in 1 .. Len(s) : f[i] = Kind(s[i])
  BY <1>1, KindIsWhat
<1> HIDE DEF f
<1>3. f \in Seq(Contract!Whats) /\ Len(f) = Len(s)
  BY <1>1, <1>2
<1> QED BY <1>2, <1>3 DEF f, Sent

LEMMA SentOneMore ==
  ASSUME NEW s \in Seq(Requests), NEW what \in Requests
  PROVE  Sent(Append(s, what)) = Append(Sent(s), Kind(what))
<1> DEFINE longer == Append(s, what)
           image == Sent(longer)
           t == Append(Sent(s), Kind(what))
<1>1. /\ longer \in Seq(Requests) /\ Len(s) \in Nat /\ Len(longer) = Len(s) + 1
      /\ longer[Len(s) + 1] = what /\ \A i \in 1 .. Len(s) : longer[i] = s[i]
  BY Appended
<1>2. /\ Sent(s) \in Seq(Contract!Whats) /\ Len(Sent(s)) = Len(s)
      /\ \A i \in 1 .. Len(s) : Sent(s)[i] = Kind(s[i])
  BY SentIs
<1>3. /\ t \in Seq(Contract!Whats) /\ Len(t) = Len(s) + 1
      /\ t[Len(s) + 1] = Kind(what) /\ \A i \in 1 .. Len(s) : t[i] = Kind(s[i])
  BY <1>2, KindIsWhat, Appended
<1> HIDE DEF longer, t
<1>4. /\ image \in Seq(Contract!Whats) /\ Len(image) = Len(s) + 1
      /\ \A i \in 1 .. Len(s) + 1 : image[i] = Kind(longer[i])
  BY <1>1, SentIs
<1> HIDE DEF image
<1>5. \A i \in 1 .. Len(image) : image[i] = t[i]
  BY <1>1, <1>3, <1>4
<1>6. image = t
  BY <1>3, <1>4, <1>5, SeqEqual
<1> QED BY <1>6 DEF image, longer, t

\* The task in hand is the request the contract has the bridge executing.
LEMMA ExecutingTheTask ==
  ASSUME TypeOK, InOrder, RequestsOnly, tasks # <<>>, worker \in {"answering", "running"}
  PROVE  /\ Len(made) < Len(Sent(asked)) /\ Contract!Executing(Kind(Current.what))
         /\ Current.what \in Requests
<1>1. /\ Current.number = Len(made) + 1 /\ Current.number \in 1 .. count
      /\ Current.what = asked[Current.number]
  BY InHand
<1>2. count \in 0 .. Len(asked) /\ Len(asked) \in Nat /\ Len(made) \in Nat /\ asked \in Seq(Requests)
  BY DEF TypeOK, RequestsOnly
<1>3. Len(Sent(asked)) = Len(asked) /\ Sent(asked)[Len(made) + 1] = Kind(asked[Len(made) + 1])
  BY <1>1, <1>2, SentIs
<1>4. Len(made) < Len(Sent(asked)) /\ Sent(asked)[Len(made) + 1] = Kind(Current.what)
  BY <1>1, <1>2, <1>3
<1>5. Current.what \in Requests
  BY <1>1, <1>2
<1> QED BY <1>4, <1>5 DEF Contract!Executing, Sent

\* A reply made is an answer of the contract's.
LEMMA RespondAnswers ==
  ASSUME TypeOK, NEW ok, NEW inRun, NEW out, Respond(ok, inRun, out)
  PROVE  Contract!Answer(ok, inRun, out)
<1> DEFINE reply == [id |-> Len(made) + 1, ok |-> ok, run |-> inRun, out |-> out]
<1>1. made' = Append(made, reply) /\ made \in Seq(Reply)
  BY DEF Respond, TypeOK
<1>2. Len(Append(made, reply)) = Len(made) + 1
  BY <1>1
<1> QED BY <1>1, <1>2 DEF Contract!Answer

ContractStep == Contract!BridgeNext \/ \E what \in Contract!Whats : Contract!Submit(what)

LEMMA WorkerKeepsContract ==
  ASSUME ContractInv, Headless, Worker
  PROVE  [ContractStep]_(Contract!bridgeVars)
<1> USE DEF ContractInv, RequestsInv
<1>0. TypeOK /\ InOrder /\ RequestsOnly
  OBVIOUS
<1>1. tasks # <<>> /\ asked' = asked
  BY WorkerSteps DEF readerVars
<1>2. ASSUME worker \in {"answering", "running"}
      PROVE  Len(made) < Len(Sent(asked)) /\ Contract!Executing(Kind(Current.what))
  BY <1>0, <1>1, <1>2, ExecutingTheTask
<1>3. CASE Take \/ Drop \/ Send
  <2>1. UNCHANGED <<asked, made, run, written, taken>>
    BY <1>1, <1>3 DEF Take, Drop, Send, workerVars, simVars
  <2> QED BY <2>1 DEF Contract!bridgeVars
<1>4. CASE DoStart
  <2>1. UNCHANGED <<asked, made, run, written, taken>>
    BY <1>1, <1>4 DEF DoStart, Start, Report, ModifyAny, Backstep, Terminate, Inspect, AddBreakpoint,
                RemoveBreakpoint, Modify
  <2> QED BY <2>1 DEF Contract!bridgeVars
<1>5. CASE Greet
  <2>1. Contract!Executing("hello")
    BY <1>2, <1>5 DEF Greet, Doing, Kind
  <2>2. Contract!Answer(TRUE, run, <<>>) /\ UNCHANGED <<asked, run, written, taken>>
    BY <1>1, <1>5, RespondAnswers DEF Greet, simVars
  <2>3. Contract!AnswerWithoutOutput
    BY <2>1, <2>2 DEF Contract!AnswerWithoutOutput
  <2> QED BY <2>3 DEF ContractStep, Contract!BridgeNext
<1>6. CASE DoEncode
  <2>1. Contract!Executing("encode") /\ run = 0
    BY <1>2, <1>6 DEF DoEncode, Dispatch, Doing, Kind, Loaded, RunOfAProgram
  <2>2. Contract!Answer(TRUE, run, <<>>) /\ UNCHANGED <<asked, run, written, taken>>
    BY <1>1, <1>6, RespondAnswers DEF DoEncode, simVars
  <2>3. Contract!AnswerWithoutOutput
    BY <2>1, <2>2 DEF Contract!AnswerWithoutOutput
  <2> QED BY <2>3 DEF ContractStep, Contract!BridgeNext
<1>7. CASE Refuse \/ DoLoadRejected \/ DoFail
  <2>1. Respond(FALSE, run, <<>>) /\ UNCHANGED <<run, written, taken>> /\ worker \in {"answering", "running"}
    BY <1>7 DEF Refuse, DoLoadRejected, DoFail, LoadRejected, RunFails, SnapshotFails, simVars, Doing, Dispatch
  <2>2. Contract!AnswerError
    BY <1>1, <1>2, <2>1, RespondAnswers DEF Contract!AnswerError, Sent
  <2> QED BY <2>2 DEF ContractStep, Contract!BridgeNext
<1>8. CASE DoRestart
  <2>1. Contract!Executing("reset")
    BY <1>2, <1>8 DEF DoRestart, Dispatch, Doing, Kind
  <2>2. Respond(TRUE, run + 1, <<>>) /\ run' = run + 1 /\ written' = 0 /\ taken' = 0
    BY <1>8 DEF DoRestart, Load, Reset, SetUp
  <2>3. Contract!AnswerRestart
    BY <1>1, <2>1, <2>2, RespondAnswers DEF Contract!AnswerRestart
  <2> QED BY <2>3 DEF ContractStep, Contract!BridgeNext
<1>9. CASE DoSnapshot
  <2>1. \E what \in {"continue", "inspect", "pause"} : Contract!Executing(what)
    BY <1>2, <1>9 DEF DoSnapshot, Doing, Kind, InProgress
  <2>2. Respond(TRUE, run, NewOutput) /\ run > 0 /\ taken' = written /\ UNCHANGED <<run, written>>
    BY <1>9 DEF DoSnapshot, Snapshot
  <2>3. Contract!AnswerSnapshot
    BY <1>1, <2>1, <2>2, RespondAnswers DEF Contract!AnswerSnapshot, Contract!NewOutput, NewOutput
  <2> QED BY <2>3 DEF ContractStep, Contract!BridgeNext
<1>10. CASE Run
  <2>1. made' = made /\ worker = "running"
    BY <1>10 DEF Run, workerVars, Doing
  <2>2. CASE Instruction
    <3>1. PICK next \in Addresses, writes \in BOOLEAN : Execute(next, writes)
      BY <2>2 DEF Instruction, InstructionDone, ProgramBreak, ProgramEnd
    <3>2. Contract!Executing("continue")
      BY <1>2, <2>1, <3>1 DEF Execute, InProgress, Kind
    <3>3. \/ UNCHANGED <<run, written, taken>>
          \/ /\ program = "setUp" /\ written < OutputLimit
             /\ written' = written + 1 /\ UNCHANGED <<run, taken>>
      BY <3>1 DEF Execute
    <3>4. CASE UNCHANGED <<run, written, taken>>
      BY <1>1, <2>1, <3>4 DEF Contract!bridgeVars
    <3>5. CASE /\ program = "setUp" /\ written < OutputLimit
               /\ written' = written + 1 /\ UNCHANGED <<run, taken>>
      <4>1. Contract!WriteOutput
        BY <1>1, <2>1, <3>2, <3>5 DEF Contract!WriteOutput, RunOfAProgram
      <4> QED BY <4>1 DEF ContractStep, Contract!BridgeNext
    <3> QED BY <3>3, <3>4, <3>5
  <2>3. CASE PauseContinue \/ LimitContinue
    BY <1>1, <2>1, <2>3 DEF PauseContinue, LimitContinue, StopContinue, Contract!bridgeVars
  <2> QED BY <1>10, <2>2, <2>3 DEF Run
<1>11. ~HookFails
  BY DEF HookFails
<1>12. ~ReportMalformed
  <2> SUFFICES ASSUME ReportMalformed PROVE FALSE
    OBVIOUS
  <2>1. worker \in {"answering", "running"} /\ Current.what = "malformed"
    BY DEF ReportMalformed, Doing
  <2>2. Current.what \in Requests
    BY <1>0, <1>1, <2>1, ExecutingTheTask
  <2> QED BY <2>1, <2>2 DEF Requests
<1> QED BY <1>3, <1>4, <1>5, <1>6, <1>7, <1>8, <1>9, <1>10, <1>11, <1>12 DEF Worker

LEMMA ReaderKeepsContract ==
  ASSUME Asked \subseteq Requests, ContractInv, MaxClients <= 1, ReaderNext
  PROVE  [ContractStep]_(Contract!bridgeVars)
<1> USE DEF ContractInv, RequestsInv
<1>1. UNCHANGED <<run, written, taken>>
  BY DEF ReaderNext, ClientSendsOne, Accept, ClientSends, ClientHangsUp, Read, Leave, WorkerEnds, simVars
<1>2. CASE ClientSendsOne
  <2>1. PICK what \in Asked : ClientSends(what)
    BY <1>2 DEF ClientSendsOne
  <2>2. what \in Requests /\ asked \in Seq(Requests) /\ asked' = Append(asked, what) /\ made' = made
    BY <2>1 DEF ClientSends, workerVars, RequestsOnly
  <2>3. Sent(asked') = Append(Sent(asked), Kind(what)) /\ Kind(what) \in Contract!Whats
    BY <2>2, SentOneMore, KindIsWhat
  <2>4. Contract!Submit(Kind(what))
    BY <1>1, <2>2, <2>3 DEF Contract!Submit, Sent
  <2> QED BY <2>3, <2>4 DEF ContractStep
<1>3. CASE Accept
  <2>1. clients \in Nat /\ MaxClients \in Nat /\ clients < MaxClients
    BY <1>3, ServerAssumption DEF Accept, TypeOK
  <2>2. clients = 0
    BY <2>1
  <2>3. asked' = asked /\ made' = made
    BY <1>3, <2>2 DEF Accept, NoClientYet
  <2> QED BY <1>1, <2>3 DEF Contract!bridgeVars
<1>4. CASE ClientHangsUp \/ Read \/ Leave \/ WorkerEnds
  <2>1. asked' = asked /\ made' = made
    BY <1>4 DEF ClientHangsUp, Read, Leave, WorkerEnds, workerVars
  <2> QED BY <1>1, <2>1 DEF Contract!bridgeVars
<1> QED BY <1>2, <1>3, <1>4 DEF ReaderNext

(***************************************************************************)
(* A headless bridge with one client, whose every line is a request, keeps *)
(* the contract that the client's half of the connection relies on, and so *)
(* what BridgeConnectionProofs proves from that contract holds of it.  The *)
(* windows of a visible RARS may fail after a load, and a second client    *)
(* finds what the first left: neither is the contract of one connection to *)
(* one bridge.                                                             *)
(***************************************************************************)
THEOREM BridgeKeepsContract ==
  ASSUME Headless, MaxClients <= 1, Asked \subseteq Requests
  PROVE  Spec => KeepsContract
<1>1. Init => Contract!BridgeInit
  <2> SUFFICES ASSUME Init PROVE Contract!BridgeInit
    OBVIOUS
  <2>1. asked = <<>> /\ made = <<>> /\ run = 0 /\ written = 0 /\ taken = 0
    BY DEF Init, SimInit
  <2>2. Sent(asked) = <<>>
    BY <2>1 DEF Sent
  <2>3. Len(made) = 0
    BY <2>1
  <2> QED BY <2>1, <2>2, <2>3 DEF Contract!BridgeInit, Sent
<1>2. ContractInv /\ [Next]_vars => [ContractStep]_(Contract!bridgeVars)
  <2>1. UNCHANGED vars => UNCHANGED Contract!bridgeVars
    BY DEF vars, simVars, readerVars, workerVars, Contract!bridgeVars
  <2> QED BY <2>1, WorkerKeepsContract, ReaderKeepsContract DEF Next, ReaderNext, ClientSendsOne
<1> QED BY <1>1, <1>2, ContractInitially, ContractInvNext, PTL
        DEF Spec, KeepsContract, Contract!BridgeSpec, ContractStep
=============================================================================
