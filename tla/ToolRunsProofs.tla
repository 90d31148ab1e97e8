---------------------------- MODULE ToolRunsProofs ----------------------------
(***************************************************************************)
(* What the tools that run other programs promise, for every limit, every  *)
(* number of calls and mutations, and every output of the programs.  Each  *)
(* tool has an invariant of its own; a step of the composition is a step   *)
(* of the one tool it is of, and leaves the others as they are.            *)
(***************************************************************************)
EXTENDS ToolRuns, DataLemmas

-----------------------------------------------------------------------------
(* One call of rars_assemble or rars_run (RunTool): what is held is a      *)
(* matter of the phase the call is in (RunHeld); what it answers needs to  *)
(* remember, to the end, what was found in the dumps (RunAnswered).        *)

Phases == {"source", "files", "bridge", "symbols", "close bridge", "resolve", "prepare", "run", "dumps",
           "remove dumps", "report", "remove source", "settled"}
RunTyped ==
  /\ phase \in Phases /\ throwing \in BOOLEAN /\ inline \in BOOLEAN /\ broken \in BOOLEAN
  /\ source \in BOOLEAN /\ bridge \in BOOLEAN /\ folder \in BOOLEAN

\* What could not be removed is thrown, to the end.
RunHeld ==
  /\ phase = "source" => ~source
  /\ phase \notin {"source", "remove source", "settled"} => source = inline
  /\ phase = "settled" => (source <=> "source" \in stuck)
  /\ bridge => phase \in {"symbols", "close bridge"}
  /\ phase \in {"run", "dumps"} => folder = (Run!Requested \ toFile # {})
  /\ phase \notin {"run", "dumps", "remove dumps"} => (folder <=> "dumps" \in stuck)
  /\ phase \notin {"remove source", "settled"} => stuck = {}
  /\ phase = "remove source" => "source" \notin stuck
  /\ phase = "remove source" /\ stuck # {} => throwing
  /\ phase = "settled" /\ stuck # {} => outcome = "thrown"

\* What ReadDumps found still describes the files.
DumpsRead ==
  Run!DumpsWritten => /\ missing = {d \in Run!Requested : Run!Missing(d)}
                  /\ returned = {d \in Run!Requested \ toFile : files[d] # "none"}

RunAnswered ==
  /\ phase \notin {"remove source", "settled"} => outcome = "none"
  /\ phase = "remove dumps" /\ ~throwing => DumpsRead
  /\ phase = "report" => DumpsRead
  /\ outcome = "completed" => DumpsRead /\ ~Run!BridgeAlone /\ ~Run!IsError

RunInv == RunTyped /\ RunHeld /\ RunAnswered

\* What the answer is made of.
answerVars == <<ran, missing, returned, noLabels, files, toFile>>
LEMMA SameAnswer ==
  ASSUME UNCHANGED answerVars
  PROVE  (DumpsRead' <=> DumpsRead) /\ (Run!BridgeAlone' <=> Run!BridgeAlone) /\ (Run!IsError' <=> Run!IsError)
<1>1. ran' = ran /\ missing' = missing /\ returned' = returned /\ noLabels' = noLabels
      /\ files' = files /\ toFile' = toFile
  BY DEF answerVars
<1>2. DumpsRead' <=> DumpsRead
  BY <1>1 DEF DumpsRead, Run!DumpsWritten, Run!Finished, Run!Requested, Run!Missing
<1>3. (Run!BridgeAlone' <=> Run!BridgeAlone) /\ (Run!IsError' <=> Run!IsError)
  BY <1>1 DEF Run!BridgeAlone, Run!IsError
<1> QED BY <1>2, <1>3

LEMMA RunInitially == Run!Init => RunInv
BY DEF Run!Init, RunInv, RunTyped, Phases, RunHeld, RunAnswered, DumpsRead, Run!DumpsWritten, Run!Finished

\* The steps before RARS runs: what is held follows the phase, and there is no answer yet.
LEMMA BeforeTheRun ==
  ASSUME RunInv,
         \/ Run!PrepareSource \/ Run!ResolveFiles \/ Run!StartBridge \/ Run!ReadSymbols
         \/ Run!CloseBridge \/ Run!ResolveDumps \/ Run!PrepareDumps
  PROVE  RunInv'
<1> USE DEF RunInv, Run!inputs, Run!held
<1>1. RunTyped'
  BY DEF RunTyped, Phases, Run!PrepareSource, Run!ResolveFiles, Run!StartBridge, Run!ReadSymbols, Run!CloseBridge,
         Run!ResolveDumps, Run!PrepareDumps
<1>2. RunHeld'
  <2>1. CASE Run!PrepareSource
    BY <2>1 DEF RunTyped, Phases, RunHeld, Run!Requested, Run!PrepareSource
  <2>2. CASE Run!ResolveFiles
    BY <2>2 DEF RunTyped, Phases, RunHeld, Run!Requested, Run!ResolveFiles
  <2>3. CASE Run!StartBridge
    BY <2>3 DEF RunTyped, Phases, RunHeld, Run!Requested, Run!StartBridge
  <2>4. CASE Run!ReadSymbols
    BY <2>4 DEF RunTyped, Phases, RunHeld, Run!Requested, Run!ReadSymbols
  <2>5. CASE Run!CloseBridge
    BY <2>5 DEF RunTyped, Phases, RunHeld, Run!Requested, Run!CloseBridge
  <2>6. CASE Run!ResolveDumps
    BY <2>6 DEF RunTyped, Phases, RunHeld, Run!Requested, Run!ResolveDumps
  <2>7. CASE Run!PrepareDumps
    BY <2>7 DEF RunTyped, Phases, RunHeld, Run!Requested, Run!PrepareDumps
  <2> QED BY <2>1, <2>2, <2>3, <2>4, <2>5, <2>6, <2>7
<1>3. outcome = "none" /\ outcome' = "none" /\ phase' \notin {"remove dumps", "report"}
  BY DEF RunAnswered, Run!PrepareSource, Run!ResolveFiles, Run!StartBridge, Run!ReadSymbols, Run!CloseBridge,
         Run!ResolveDumps, Run!PrepareDumps
<1> QED BY <1>1, <1>2, <1>3 DEF RunAnswered

LEMMA RunAndDumps ==
  ASSUME RunInv, Run!RunRars \/ Run!ReadDumps \/ Run!RemoveDumps
  PROVE  RunInv'
<1> USE DEF RunInv, Run!inputs, Run!held
<1>1. RunTyped' /\ RunHeld'
  <2>1. CASE Run!RunRars
    BY <2>1 DEF RunTyped, Phases, RunHeld, Run!Requested, Run!RunRars
  <2>2. CASE Run!ReadDumps
    BY <2>2 DEF RunTyped, Phases, RunHeld, Run!Requested, Run!ReadDumps
  <2>3. CASE Run!RemoveDumps
    <3>1. CASE folder' = FALSE /\ phase' = (IF throwing THEN "remove source" ELSE "report") /\ UNCHANGED <<throwing, stuck>>
      BY <2>3, <3>1 DEF RunTyped, Phases, RunHeld, Run!RemoveDumps
    <3>2. CASE folder /\ phase' = "remove source" /\ throwing' = TRUE /\ stuck' = stuck \cup {"dumps"} /\ folder' = folder
      BY <2>3, <3>2 DEF RunTyped, Phases, RunHeld, Run!RemoveDumps
    <3> QED BY <2>3, <3>1, <3>2 DEF Run!RemoveDumps
  <2> QED BY <2>1, <2>2, <2>3
<1>2. outcome = "none" /\ outcome' = "none"
  BY DEF RunAnswered, Run!RunRars, Run!ReadDumps, Run!RemoveDumps
<1>3. CASE Run!RunRars
  BY <1>1, <1>2, <1>3 DEF RunAnswered, Run!RunRars
<1>4. CASE Run!ReadDumps
  <2>1. DumpsRead'
    BY <1>4 DEF Run!ReadDumps, DumpsRead, Run!DumpsWritten, Run!Finished, Run!Requested, Run!Missing
  <2> QED BY <1>1, <1>2, <1>4, <2>1 DEF RunAnswered, Run!ReadDumps
<1>5. CASE Run!RemoveDumps
  <2>1. phase' = "report" => DumpsRead'
    BY <1>5 DEF Run!RemoveDumps, RunAnswered, DumpsRead, Run!DumpsWritten, Run!Finished, Run!Requested, Run!Missing, RunTyped
  <2> QED BY <1>1, <1>2, <1>5, <2>1 DEF RunAnswered, Run!RemoveDumps
<1> QED BY <1>3, <1>4, <1>5

LEMMA EndOfTheCall ==
  ASSUME RunInv, Run!Report \/ Run!RemoveSource
  PROVE  RunInv'
<1> USE DEF RunInv, Run!inputs, Run!held
<1>1. RunTyped' /\ RunHeld'
  <2>1. CASE Run!Report
    BY <2>1 DEF RunTyped, Phases, RunHeld, Run!Requested, Run!BridgeAlone, Run!Report
  <2>2. CASE Run!RemoveSource
    <3>1. CASE source' = FALSE /\ UNCHANGED <<throwing, stuck>>
      BY <2>2, <3>1 DEF RunTyped, Phases, RunHeld, Run!RemoveSource
    <3>2. CASE source /\ throwing' = TRUE /\ stuck' = stuck \cup {"source"} /\ source' = source
      BY <2>2, <3>2 DEF RunTyped, Phases, RunHeld, Run!RemoveSource
    <3> QED BY <2>2, <3>1, <3>2 DEF Run!RemoveSource
  <2> QED BY <2>1, <2>2
<1>2. (DumpsRead' <=> DumpsRead) /\ (Run!BridgeAlone' <=> Run!BridgeAlone) /\ (Run!IsError' <=> Run!IsError)
  <2>1. UNCHANGED answerVars
    BY DEF Run!Report, Run!RemoveSource, answerVars
  <2> QED BY <2>1, SameAnswer
<1>3. CASE Run!Report
  BY <1>1, <1>2, <1>3 DEF RunAnswered, Run!Report
<1>4. CASE Run!RemoveSource
  BY <1>1, <1>2, <1>4 DEF RunAnswered, Run!RemoveSource
<1> QED BY <1>3, <1>4

LEMMA ThrowsKeeps == RunInv /\ Run!Throws => RunInv'
<1> SUFFICES ASSUME RunInv, Run!Throws PROVE RunInv'
  OBVIOUS
<1> USE DEF RunInv, Run!inputs, Run!held
<1>1. RunTyped' /\ RunHeld'
  BY DEF RunTyped, Phases, RunHeld, Run!Requested, Run!Throws, Run!Unwinds
<1>2. outcome' = "none" /\ throwing' /\ phase' # "report"
  BY DEF RunAnswered, Run!Throws, Run!Unwinds
<1> QED BY <1>1, <1>2 DEF RunAnswered

LEMMA RunKeeps == RunInv /\ [Run!Next]_(Run!vars) => RunInv'
<1>1. ASSUME RunInv, UNCHANGED <<inline, toFile, phase, source, bridge, folder, noLabels, files, ran, missing,
                                   returned, throwing, outcome, stuck>>, broken' \in BOOLEAN
      PROVE  RunInv'
  <2>1. RunTyped' /\ RunHeld'
    BY <1>1 DEF RunInv, RunTyped, RunHeld, Run!Requested
  <2>2. UNCHANGED answerVars
    BY <1>1 DEF answerVars
  <2>3. (DumpsRead' <=> DumpsRead) /\ (Run!BridgeAlone' <=> Run!BridgeAlone) /\ (Run!IsError' <=> Run!IsError)
    BY <2>2, SameAnswer
  <2>4. RunAnswered'
    BY <1>1, <2>3 DEF RunInv, RunAnswered
  <2> QED BY <2>1, <2>4 DEF RunInv
<1>2. RunInv /\ Run!Edit => RunInv'
  BY <1>1 DEF Run!Edit, Run!inputs, Run!held
<1>3. RunInv /\ UNCHANGED Run!vars => RunInv'
  <2> SUFFICES ASSUME RunInv, UNCHANGED Run!vars PROVE RunInv'
    OBVIOUS
  <2>1. UNCHANGED <<inline, toFile, phase, source, bridge, folder, noLabels, files, ran, missing,
                    returned, throwing, outcome, stuck, broken>>
    BY DEF Run!vars
  <2>2. broken' \in BOOLEAN
    BY <2>1 DEF RunInv, RunTyped
  <2> QED BY <1>1, <2>1, <2>2
<1> QED BY <1>2, <1>3, BeforeTheRun, RunAndDumps, EndOfTheCall, ThrowsKeeps DEF Run!Next, Run!Call


LEMMA RunIsWhole == RunInv => Run!NothingLeft /\ Run!CompletedIsComplete
<1>1. RunInv => Run!NothingLeft
  BY DEF RunInv, RunHeld, RunTyped, Run!NothingLeft
<1>2. RunInv => Run!CompletedIsComplete
  <2> SUFFICES ASSUME RunInv, outcome = "completed"
               PROVE  ran = "done" /\ \A d \in Dumps : files[d] # "none" /\ (d \in toFile \/ d \in returned)
    BY DEF Run!CompletedIsComplete
  <2>1. ran = "done" /\ missing = {} /\ DumpsRead /\ ~Run!BridgeAlone
    BY DEF RunInv, RunAnswered, Run!IsError
  <2>2. Run!DumpsWritten /\ Run!Requested = Dumps
    BY <2>1 DEF Run!DumpsWritten, Run!Finished, Run!BridgeAlone, Run!Requested
  <2> QED BY <2>1, <2>2 DEF DumpsRead, Run!Missing
<1> QED BY <1>1, <1>2

-----------------------------------------------------------------------------
(* One run of a program (SimulatorProcess): what is printed is in the pipe *)
(* or kept until the limit is passed, and then exactly the limit is kept.  *)

Streams == {"stdout", "stderr"}
Counts == [Streams -> Nat]

ProcessTyped ==
  /\ pipe \in Counts /\ kept \in Counts /\ printed \in Counts
  /\ truncated \in BOOLEAN /\ timer \in BOOLEAN /\ withStdin \in BOOLEAN
  /\ Process!Total(kept) <= Limit

Accounted ==
  /\ ~truncated => \A s \in Streams : printed[s] = kept[s] + pipe[s]
  /\ truncated => Process!Total(kept) = Limit /\ Process!Total(printed) > Limit

ProcessSettled ==
  /\ settled \in {"no", "result", "error"}
  /\ settled = "result" => child = "gone" /\ ~timer /\ \A s \in Streams : pipe[s] = 0
  /\ settled = "error" => child = "missing" /\ (timer => withStdin)

ProcessInv == ProcessTyped /\ Accounted /\ ProcessSettled

LEMMA ProcessInitially == Process!Init /\ ToolRunsAssumption => ProcessInv
<1> SUFFICES ASSUME Process!Init, ToolRunsAssumption PROVE ProcessInv
  OBVIOUS
<1>1. pipe \in Counts /\ kept = pipe /\ printed = pipe /\ \A s \in Streams : pipe[s] = 0
  BY DEF Process!Init, Counts, Streams, Process!Streams
<1>2. Process!Total(kept) = 0 /\ Limit \in Nat
  BY <1>1 DEF Process!Total, Streams, ToolRunsAssumption
<1>3. truncated = FALSE /\ timer = TRUE /\ withStdin \in BOOLEAN /\ settled = "no"
  BY DEF Process!Init, ToolRunsAssumption
<1>4. ProcessTyped
  <2>1. Process!Total(kept) <= Limit
    BY <1>2
  <2>2. kept \in Counts /\ printed \in Counts /\ truncated \in BOOLEAN /\ timer \in BOOLEAN
    BY <1>1, <1>3
  <2> QED BY <1>1, <1>3, <2>1, <2>2 DEF ProcessTyped
<1>5. Accounted /\ ProcessSettled
  BY <1>1, <1>3 DEF Accounted, ProcessSettled, Counts
<1> QED BY <1>4, <1>5 DEF ProcessInv

\* A chunk that does not fit fills what room there is, and the run is cut.
LEMMA DataKeeps ==
  ASSUME ProcessInv, ToolRunsAssumption, NEW s \in Streams, Process!Data(s)
  PROVE  ProcessInv'
<1> USE DEF ProcessInv, Streams
<1>1. Limit \in Nat /\ settled = "no"
  BY DEF ToolRunsAssumption, Process!Data
<1>2. PICK chunk \in 1 .. pipe[s] :
        /\ kept' = [kept EXCEPT ![s] = @ + (IF chunk < Process!Room(s) THEN chunk ELSE Process!Room(s))]
        /\ truncated' = (truncated \/ chunk > Process!Room(s))
        /\ pipe' = [pipe EXCEPT ![s] = @ - chunk]
  BY DEF Process!Data
<1>3. UNCHANGED <<withStdin, timer, settled, printed>>
  BY DEF Process!Data
<1> DEFINE room == Limit - Process!Total(kept)
<1>4. Process!Room(s) = room /\ room \in Nat
  BY <1>1 DEF Process!Room, ProcessTyped, Process!Total, Counts
<1> DEFINE more == IF chunk < room THEN chunk ELSE room
<1>5. /\ more \in Nat /\ chunk \in Nat /\ more <= room /\ chunk <= pipe[s] /\ pipe[s] \in Nat
      /\ kept' = [kept EXCEPT ![s] = @ + more]
  BY <1>2, <1>4 DEF ProcessTyped, Counts
<1>6. /\ kept' \in Counts /\ pipe' \in Counts
      /\ \A t \in Streams : kept'[t] = (IF t = s THEN kept[s] + more ELSE kept[t])
                         /\ pipe'[t] = (IF t = s THEN pipe[s] - chunk ELSE pipe[t])
  BY <1>2, <1>5 DEF ProcessTyped, Counts
<1>7. Process!Total(kept)' = Process!Total(kept) + more
  BY <1>5, <1>6 DEF Process!Total, ProcessTyped, Counts
<1>8. Process!Total(kept)' <= Limit /\ (chunk > room => Process!Total(kept)' = Limit)
  BY <1>1, <1>4, <1>5, <1>7 DEF ProcessTyped, Process!Total, Counts
<1>9. ProcessTyped'
  BY <1>2, <1>3, <1>6, <1>8 DEF ProcessTyped
<1>10. Accounted'
  <2>1. CASE ~truncated /\ ~(chunk > room)
    <3>1. more = chunk
      BY <1>4, <1>5, <2>1
    <3> QED BY <1>2, <1>3, <1>4, <1>5, <1>6, <2>1, <3>1 DEF Accounted, ProcessTyped, Counts
  <2>2. CASE ~truncated /\ chunk > room
    <3>1. Process!Total(printed) = Process!Total(kept) + Process!Total(pipe) /\ pipe[s] <= Process!Total(pipe)
      BY <2>2 DEF Accounted, ProcessTyped, Counts, Process!Total
    <3>2. Process!Total(printed) > Limit
      BY <1>1, <1>4, <1>5, <2>2, <3>1 DEF ProcessTyped, Process!Total, Counts
    <3> QED BY <1>2, <1>3, <1>4, <1>8, <2>2, <3>2 DEF Accounted, Process!Total
  <2>3. CASE truncated
    <3>1. room = 0 /\ more = 0 /\ Process!Total(printed)' = Process!Total(printed)
      BY <1>1, <1>3, <1>4, <1>5, <2>3 DEF Accounted, Process!Total
    <3>2. Process!Total(kept)' = Limit
      BY <1>7, <2>3, <3>1, <1>1 DEF Accounted
    <3> QED BY <1>2, <2>3, <3>1, <3>2 DEF Accounted
  <2> QED BY <2>1, <2>2, <2>3 DEF ProcessTyped
<1>11. ProcessSettled'
  BY <1>1, <1>3 DEF ProcessSettled
<1> QED BY <1>9, <1>10, <1>11

LEMMA PrintsKeeps ==
  ASSUME ProcessInv, Process!Prints, UNCHANGED <<withStdin, kept, truncated, timer, settled>>
  PROVE  ProcessInv'
<1> USE DEF ProcessInv, Streams
<1>1. PICK s \in Streams : pipe' = [pipe EXCEPT ![s] = @ + 1] /\ printed' = [printed EXCEPT ![s] = @ + 1]
  BY DEF Process!Prints, Process!Streams
<1>2. /\ pipe' \in Counts /\ printed' \in Counts
      /\ \A t \in Streams : pipe'[t] = (IF t = s THEN pipe[s] + 1 ELSE pipe[t])
                         /\ printed'[t] = (IF t = s THEN printed[s] + 1 ELSE printed[t])
  BY <1>1 DEF ProcessTyped, Counts
<1>3. Process!Total(kept)' = Process!Total(kept) /\ Process!Total(printed)' = Process!Total(printed) + 1
  BY <1>2 DEF Process!Total, ProcessTyped, Counts
<1>4. child \notin {"gone", "missing"}
  BY DEF Process!Prints, Process!Alive
<1>5. ProcessTyped'
  BY <1>2, <1>3 DEF ProcessTyped
<1>6. Accounted'
  <2>1. CASE truncated
    <3>1. Process!Total(printed) \in Nat /\ Limit < Process!Total(printed) /\ Process!Total(kept) = Limit
          /\ Process!Total(kept) \in Nat
      BY <2>1 DEF Accounted, Process!Total, ProcessTyped, Counts
    <3> QED BY <1>3, <2>1, <3>1 DEF Accounted
  <2>2. CASE ~truncated
    BY <1>2, <2>2 DEF Accounted, ProcessTyped, Counts
  <2> QED BY <2>1, <2>2
<1>7. ProcessSettled'
  BY <1>4 DEF ProcessSettled
<1> QED BY <1>5, <1>6, <1>7

LEMMA ProcessKeeps == ToolRunsAssumption /\ ProcessInv /\ [Process!Next]_(Process!vars) => ProcessInv'
<1> SUFFICES ASSUME ToolRunsAssumption, ProcessInv, [Process!Next]_(Process!vars) PROVE ProcessInv'
  OBVIOUS
<1> USE DEF ProcessInv
<1>1. CASE UNCHANGED Process!vars
  BY <1>1 DEF Process!vars, ProcessTyped, Accounted, ProcessSettled, Process!Total
<1>2. CASE Process!Program
  <2>1. UNCHANGED <<withStdin, kept, truncated, timer, settled>>
    BY <1>2 DEF Process!Program
  <2>2. CASE Process!Prints
    BY <2>1, <2>2, PrintsKeeps
  <2>3. CASE ~Process!Prints
    <3>1. UNCHANGED <<pipe, printed>> /\ child # "missing" /\ (child = "gone" => child' = "gone")
      BY <1>2, <2>3 DEF Process!Program, Process!Starts, Process!ReadsStdin, Process!ExitsItself,
                        Process!DiesOfSignal, Process!Alive
    <3> QED BY <2>1, <3>1 DEF ProcessTyped, Accounted, ProcessSettled, Process!Total
  <2> QED BY <2>2, <2>3
<1>3. ASSUME NEW s \in Process!Streams, Process!Data(s) PROVE ProcessInv'
  BY <1>3, DataKeeps DEF Process!Streams, Streams
<1>4. CASE Process!TimerFires \/ Process!ExitSeen \/ Process!StdinError
  <2>1. /\ UNCHANGED <<withStdin, pipe, kept, truncated, settled, printed>>
        /\ (child = "gone" => child' = "gone") /\ (child = "missing" => child' = "missing")
        /\ timer' \in BOOLEAN /\ (timer' => timer)
    <3>1. CASE Process!TimerFires
      BY <3>1 DEF Process!TimerFires, Process!Killed
    <3>2. CASE Process!ExitSeen \/ Process!StdinError
      BY <3>2 DEF Process!ExitSeen, Process!StdinError, ProcessTyped
    <3> QED BY <1>4, <3>1, <3>2
  <2> QED BY <2>1 DEF ProcessTyped, Accounted, ProcessSettled, Process!Total
<1>5. CASE Process!Close \/ Process!SpawnError
  <2>1. /\ UNCHANGED <<withStdin, pipe, kept, truncated, printed>>
        /\ \/ settled' = "result" /\ timer' = FALSE /\ child' = "gone" /\ \A s \in Streams : pipe[s] = 0
           \/ settled' = "error" /\ child' = "missing" /\ timer' \in BOOLEAN /\ (timer' => withStdin)
    BY <1>5 DEF Process!Close, Process!AtClose, Process!SpawnError, Process!TimerAfterError,
                Streams, Process!Streams, ProcessTyped
  <2> QED BY <2>1 DEF ProcessTyped, Accounted, ProcessSettled, Process!Total
<1> QED BY <1>1, <1>2, <1>3, <1>4, <1>5 DEF Process!Next, Process!Node

LEMMA ProcessIsWhole == ToolRunsAssumption /\ ProcessInv => Process!NothingLeft /\ Process!OutputWhole
<1> SUFFICES ASSUME ToolRunsAssumption, ProcessInv PROVE Process!NothingLeft /\ Process!OutputWhole
  OBVIOUS
<1> USE DEF ProcessInv
<1>1. Process!NothingLeft
  BY DEF ProcessSettled, Process!NothingLeft
<1>2. ASSUME settled = "result", ~truncated PROVE kept = printed /\ ~(Process!Total(printed) > Limit)
  <2>1. \A s \in Streams : kept[s] = printed[s]
    BY <1>2 DEF ProcessSettled, Accounted, ProcessTyped, Counts
  <2>2. kept = printed
    BY <2>1 DEF ProcessTyped, Counts
  <2> QED BY <2>2 DEF ProcessTyped, Process!Total, Counts, Streams, ToolRunsAssumption
<1>3. Process!OutputWhole
  BY <1>2 DEF Process!OutputWhole, Accounted, ProcessTyped
<1> QED BY <1>1, <1>3

-----------------------------------------------------------------------------
(* The dry run of a do file (DoFileRun).  What is collected is the messages *)
(* of one kind among those read; a recursive function picks them, and what *)
(* it returns is known by induction over the lines.                        *)

\* One line more.
Taken(sofar, m, kind) == IF m.kind = kind THEN Append(sofar, m) ELSE sofar
\* What OfKind has picked after each of the lines.
Picks(g, M, lines, kind) ==
  /\ g \in [0 .. Len(lines) -> Seq(M)] /\ g[0] = <<>>
  /\ \A n \in 1 .. Len(lines) : g[n] = Taken(g[n - 1], lines[n], kind)
\* The recursive function of OfKind is defined, and picks line after line.
LEMMA PickedIs ==
  ASSUME NEW M, NEW lines \in Seq(M), NEW kind
  PROVE  \E g : Picks(g, M, lines, kind) /\ DoFile!OfKind(lines, kind) = g[Len(lines)]
<1> DEFINE N == Len(lines)
           T == Seq(M)
           empty == <<>>
           After(s, n) == IF lines[n].kind = kind THEN Append(s, lines[n]) ELSE s
           step == [x \in T \X (1 .. N) |-> After(x[1], x[2])]
           Fn(f) == [n \in 0 .. N |-> IF n = 0 THEN empty ELSE After(f[n - 1], n)]
           picked == CHOOSE f : f = Fn(f)
<1>1. N \in Nat /\ empty \in T
  BY EmptySeq
<1>2. \A s \in T, n \in 1 .. N : After(s, n) \in T
  OBVIOUS
<1>3. DoFile!OfKind(lines, kind) = picked[N]
  BY DEF DoFile!OfKind
<1> HIDE DEF N, T, empty, After
<1>4. step \in Steps(T, N) /\ \A s \in T, n \in 1 .. N : step[<<s, n>>] = After(s, n)
  BY <1>2 DEF Steps
<1> HIDE DEF step
<1>5. PICK g : Unfolds(g, T, empty, N, step)
  BY <1>1, <1>4, RecursionExists
<1>6. \A n \in 0 .. N : g[n] = IF n = 0 THEN empty ELSE After(g[n - 1], n)
  <2> SUFFICES ASSUME NEW n \in 1 .. N PROVE g[n] = After(g[n - 1], n)
    BY <1>1, <1>5 DEF Unfolds
  <2>1. n - 1 \in 0 .. N /\ g \in [0 .. N -> T] /\ g[n] = step[<<g[n - 1], n>>]
    BY <1>1, <1>5 DEF Unfolds
  <2>2. g[n - 1] \in T
    BY <2>1
  <2> QED BY <1>4, <2>1, <2>2
<1>7. g = Fn(g)
  <2> DEFINE h == Fn(g)
  <2>0. g = [n \in 0 .. N |-> g[n]]
    BY <1>5 DEF Unfolds
  <2>1. DOMAIN h = 0 .. N /\ \A n \in 0 .. N : h[n] = g[n]
    BY <1>6
  <2>2. h = [n \in 0 .. N |-> h[n]]
    OBVIOUS
  <2> HIDE DEF h
  <2>3. h = g
    BY <2>0, <2>1, <2>2
  <2> QED BY <2>3 DEF h
<1>8. picked = Fn(picked)
  BY <1>7
<1> HIDE DEF picked
<1>9. \A n \in 0 .. N : picked[n] = IF n = 0 THEN empty ELSE After(picked[n - 1], n)
  BY <1>8
<1> DEFINE A == {n \in Nat : n <= N => picked[n] = g[n]}
<1>10. 0 \in A
  BY <1>1, <1>6, <1>9
<1>11. ASSUME NEW n \in Nat, n \in A PROVE n + 1 \in A
  <2> SUFFICES ASSUME n + 1 <= N PROVE picked[n + 1] = g[n + 1]
    OBVIOUS
  <2>1. picked[n] = g[n] /\ n + 1 \in 0 .. N /\ n + 1 # 0 /\ n + 1 - 1 = n
    BY <1>1, <1>11
  <2> QED BY <1>6, <1>9, <2>1
<1> HIDE DEF A
<1>12. \A n \in Nat : n \in A
  BY <1>10, <1>11, SetInduction
<1>13. picked[N] = g[N]
  BY <1>1, <1>12 DEF A
<1>14. g \in [0 .. N -> T] /\ g[0] = empty
  BY <1>5 DEF Unfolds
<1>15. \A n \in 1 .. N : g[n] = After(g[n - 1], n)
  BY <1>1, <1>6
<1> QED BY <1>3, <1>13, <1>14, <1>15 DEF N, T, empty, After, Picks, Taken

\* What is picked are lines.
LEMMA OfKindInSeq ==
  ASSUME NEW M, NEW lines \in Seq(M), NEW kind
  PROVE  DoFile!OfKind(lines, kind) \in Seq(M)
<1>1. PICK g : Picks(g, M, lines, kind) /\ DoFile!OfKind(lines, kind) = g[Len(lines)]
  BY PickedIs
<1> QED BY <1>1 DEF Picks

\* Nothing is picked from no lines.
LEMMA OfKindEmpty ==
  ASSUME NEW kind
  PROVE  DoFile!OfKind(<<>>, kind) = <<>>
<1>1. <<>> \in Seq({}) /\ Len(<<>>) = 0
  OBVIOUS
<1>2. PICK g : Picks(g, {}, <<>>, kind) /\ DoFile!OfKind(<<>>, kind) = g[Len(<<>>)]
  BY <1>1, PickedIs
<1> QED BY <1>1, <1>2 DEF Picks

\* A line more is picked if it is of the kind.
LEMMA OfKindAppend ==
  ASSUME NEW M, NEW lines \in Seq(M), NEW m \in M, NEW kind
  PROVE  DoFile!OfKind(Append(lines, m), kind) = Taken(DoFile!OfKind(lines, kind), m, kind)
<1> DEFINE N == Len(lines)
           longer == Append(lines, m)
<1>1. /\ N \in Nat /\ longer \in Seq(M) /\ Len(longer) = N + 1
      /\ longer[N + 1] = m /\ \A n \in 1 .. N : longer[n] = lines[n]
  BY AppendProperties
<1> HIDE DEF longer
<1>2. PICK f : Picks(f, M, lines, kind) /\ DoFile!OfKind(lines, kind) = f[N]
  BY PickedIs
<1>3. PICK g : Picks(g, M, longer, kind) /\ DoFile!OfKind(longer, kind) = g[N + 1]
  BY <1>1, PickedIs
<1> DEFINE A == {n \in Nat : n <= N => f[n] = g[n]}
<1>4. 0 \in A
  BY <1>2, <1>3 DEF Picks
<1>5. ASSUME NEW n \in Nat, n \in A PROVE n + 1 \in A
  <2> SUFFICES ASSUME n + 1 <= N PROVE f[n + 1] = g[n + 1]
    OBVIOUS
  <2>1. f[n] = g[n] /\ n + 1 \in 1 .. N /\ n + 1 \in 1 .. N + 1 /\ n + 1 - 1 = n
    BY <1>1, <1>5
  <2>2. longer[n + 1] = lines[n + 1]
    BY <1>1, <2>1
  <2>3. f[n + 1] = Taken(f[n], lines[n + 1], kind)
    BY <1>2, <2>1 DEF Picks
  <2>4. g[n + 1] = Taken(g[n], longer[n + 1], kind)
    BY <1>1, <1>3, <2>1 DEF Picks
  <2> QED BY <2>1, <2>2, <2>3, <2>4
<1> HIDE DEF A
<1>6. \A n \in Nat : n \in A
  BY <1>4, <1>5, SetInduction
<1>7. f[N] = g[N] /\ N + 1 \in 1 .. N + 1 /\ N + 1 - 1 = N
  BY <1>1, <1>6 DEF A
<1>8. g[N + 1] = Taken(g[N], longer[N + 1], kind)
  BY <1>1, <1>3, <1>7 DEF Picks
<1> QED BY <1>1, <1>2, <1>3, <1>7, <1>8 DEF longer

\* What is picked from two chunks is what is picked from the one, then from the other.
LEMMA OfKindConcat ==
  ASSUME NEW M, NEW first \in Seq(M), NEW second \in Seq(M), NEW kind
  PROVE  DoFile!OfKind(first \o second, kind) = DoFile!OfKind(first, kind) \o DoFile!OfKind(second, kind)
<1> DEFINE upto(n) == SubSeq(second, 1, n)
           A == {n \in Nat : n <= Len(second) =>
                   DoFile!OfKind(first \o upto(n), kind) = DoFile!OfKind(first, kind) \o DoFile!OfKind(upto(n), kind)}
<1>1. 0 \in A
  <2>1. upto(0) = <<>> /\ first \o <<>> = first
    BY ConcatEmptySeq
  <2>2. DoFile!OfKind(first, kind) \in Seq(M)
    BY OfKindInSeq
  <2>3. DoFile!OfKind(first, kind) \o <<>> = DoFile!OfKind(first, kind)
    BY <2>2, ConcatEmptySeq
  <2>4. DoFile!OfKind(<<>>, kind) = <<>>
    BY OfKindEmpty
  <2> QED BY <2>1, <2>3, <2>4
<1>2. ASSUME NEW n \in Nat, n \in A PROVE n + 1 \in A
  <2> SUFFICES ASSUME n + 1 <= Len(second)
               PROVE  DoFile!OfKind(first \o upto(n + 1), kind) = DoFile!OfKind(first, kind) \o DoFile!OfKind(upto(n + 1), kind)
    OBVIOUS
  <2> DEFINE m == second[n + 1]
             some == upto(n)
             a == DoFile!OfKind(first, kind)
             b == DoFile!OfKind(some, kind)
  <2>1. m \in M /\ some \in Seq(M)
    OBVIOUS
  <2>2. upto(n + 1) = Append(some, m)
    OBVIOUS
  <2>3. a \in Seq(M) /\ b \in Seq(M)
    BY <2>1, OfKindInSeq
  <2>4. DoFile!OfKind(first \o some, kind) = a \o b
    BY <1>2
  <2> HIDE DEF A, upto, m, some
  <2>5. first \o some \in Seq(M) /\ first \o Append(some, m) = Append(first \o some, m)
    BY <2>1
  <2>6. DoFile!OfKind(Append(first \o some, m), kind) = Taken(DoFile!OfKind(first \o some, kind), m, kind)
    BY <2>1, <2>5, OfKindAppend
  <2>7. DoFile!OfKind(Append(some, m), kind) = Taken(b, m, kind)
    BY <2>1, OfKindAppend
  <2> HIDE DEF a, b
  <2>8. Append(a \o b, m) = a \o Append(b, m)
    <3>1. a \o b \in Seq(M) /\ <<m>> \in Seq(M)
      BY <2>1, <2>3
    <3>2. Append(a \o b, m) = (a \o b) \o <<m>> /\ Append(b, m) = b \o <<m>>
      BY <2>1, <2>3, <3>1, AppendIsConcat
    <3>3. (a \o b) \o <<m>> = a \o (b \o <<m>>)
      BY <2>3, <3>1, ConcatAssociative
    <3> QED BY <3>2, <3>3
  <2>9. Taken(a \o b, m, kind) = a \o Taken(b, m, kind)
    BY <2>8 DEF Taken
  <2> QED BY <2>2, <2>4, <2>5, <2>6, <2>7, <2>9 DEF a
<1> HIDE DEF A, upto
<1>3. Len(second) \in A
  BY <1>1, <1>2, SetInduction
<1>4. upto(Len(second)) = second
  BY SubSeqFull DEF upto
<1> QED BY <1>3, <1>4 DEF A

\* What is picked was there.
LEMMA OfKindFound ==
  ASSUME NEW M, NEW lines \in Seq(M), NEW kind, DoFile!OfKind(lines, kind) # <<>>
  PROVE  \E k \in 1 .. Len(lines) : lines[k].kind = kind
<1> SUFFICES ASSUME \A k \in 1 .. Len(lines) : lines[k].kind # kind PROVE FALSE
  OBVIOUS
<1>1. PICK g : Picks(g, M, lines, kind) /\ DoFile!OfKind(lines, kind) = g[Len(lines)]
  BY PickedIs
<1>2. g[0] = <<>> /\ \A n \in 1 .. Len(lines) : g[n] = g[n - 1]
  BY <1>1 DEF Picks, Taken
<1> DEFINE A == {n \in Nat : n <= Len(lines) => g[n] = <<>>}
<1>3. 0 \in A
  BY <1>2
<1>4. ASSUME NEW n \in Nat, n \in A PROVE n + 1 \in A
  <2> SUFFICES ASSUME n + 1 <= Len(lines) PROVE g[n + 1] = <<>>
    OBVIOUS
  <2>1. n + 1 \in 1 .. Len(lines) /\ n + 1 - 1 = n /\ g[n] = <<>>
    BY <1>4
  <2> QED BY <1>2, <2>1
<1> HIDE DEF A
<1>5. Len(lines) \in A
  BY <1>3, <1>4, SetInduction
<1> QED BY <1>1, <1>5 DEF A

Read(n) == Segment(written, 0, n)
DoFileTyped ==
  /\ written \in Seq(DoFile!Messages) /\ out \in Seq(DoFile!Messages) /\ lookups \in Seq(DoFile!Messages)
  /\ captured \in Nat /\ captured <= Len(written)
  /\ complained \in Nat /\ captured + complained <= Limit
  /\ Len(written) = 0 => Len(lookups) = 0
  /\ truncated \in BOOLEAN /\ failure \in BOOLEAN /\ finished \in BOOLEAN /\ timer \in BOOLEAN
  /\ directory \in BOOLEAN

Collected ==
  /\ steps = DoFile!OfKind(Read(captured), "step") /\ errors = DoFile!OfKind(Read(captured), "error")
  /\ finished => \E k \in 1 .. captured : written[k].kind = "done"
  /\ ~truncated /\ ~failure => out = Segment(written, captured, Len(written))

DoFileSettled ==
  /\ settled \in {"no", "whole", "cut", "rejected"}
  /\ settled # "no" => child \in {"gone", "missing"} /\ ~timer /\ lookups = <<>>
  /\ settled \in {"whole", "cut"} => child = "gone"
  /\ settled = "whole" => ~truncated /\ ~failure /\ finished /\ exit = 0 /\ out = <<>>
  /\ child = "missing" => settled # "no"
  /\ ~directory => settled # "no"

DoFileInv == DoFileTyped /\ Collected /\ DoFileSettled

LEMMA DoFileInitially == DoFile!Init /\ ToolRunsAssumption => DoFileInv
<1> SUFFICES ASSUME DoFile!Init, ToolRunsAssumption PROVE DoFileInv
  OBVIOUS
<1>1. written = <<>> /\ out = <<>> /\ captured = 0 /\ steps = <<>> /\ errors = <<>>
  BY DEF DoFile!Init
<1>2. Read(0) = <<>> /\ Segment(written, captured, Len(written)) = <<>>
  BY <1>1 DEF Read, Segment
<1>3. DoFileTyped
  <2>1. /\ captured \in Nat /\ captured <= Len(written) /\ Len(lookups) = 0
        /\ complained \in Nat /\ captured + complained <= Limit
    BY <1>1 DEF DoFile!Init, ToolRunsAssumption
  <2>2. written \in Seq(DoFile!Messages) /\ out \in Seq(DoFile!Messages) /\ lookups \in Seq(DoFile!Messages)
    BY <1>1, EmptySeq DEF DoFile!Init
  <2>3. /\ truncated \in BOOLEAN /\ failure \in BOOLEAN /\ finished \in BOOLEAN /\ timer \in BOOLEAN
        /\ directory \in BOOLEAN
    BY DEF DoFile!Init
  <2> QED BY <2>1, <2>2, <2>3 DEF DoFileTyped
<1>4. Collected
  <2>1. steps = DoFile!OfKind(Read(captured), "step") /\ errors = DoFile!OfKind(Read(captured), "error")
    BY <1>1, <1>2, OfKindEmpty
  <2>2. ~finished
    BY DEF DoFile!Init
  <2>3. out = Segment(written, captured, Len(written))
    BY <1>1, <1>2
  <2> QED BY <2>1, <2>2, <2>3 DEF Collected
<1>5. DoFileSettled
  BY DEF DoFile!Init, DoFileSettled
<1> QED BY <1>3, <1>4, <1>5 DEF DoFileInv

\* tclsh writes: what was read stays what it was.
LEMMA EmitsKeeps ==
  ASSUME DoFileInv, DoFile!Emits
  PROVE  DoFileInv'
<1> USE DEF DoFileInv
<1>1. PICK kind \in DoFile!Kinds :
        /\ out' = Append(out, DoFile!Message(kind)) /\ written' = Append(written, DoFile!Message(kind))
        /\ child' = IF kind = "lookup" THEN "waiting" ELSE child
  BY DEF DoFile!Emits
<1>2. /\ child = "running"
      /\ UNCHANGED <<exit, steps, errors, captured, complained, partial, finished, truncated, timer, failure, lookups,
                     settled, directory>>
  BY DEF DoFile!Emits, DoFile!Runner
<1> DEFINE m == DoFile!Message(kind)
<1>3. m \in DoFile!Messages
  BY DEF DoFile!Message, DoFile!Messages, DoFileTyped
<1> HIDE DEF m
<1>4. /\ written' \in Seq(DoFile!Messages) /\ out' \in Seq(DoFile!Messages)
      /\ Len(written') = Len(written) + 1 /\ \A k \in 1 .. Len(written) : written'[k] = written[k]
  BY <1>1, <1>3 DEF DoFileTyped, m
<1>5. DoFileTyped'
  BY <1>2, <1>4 DEF DoFileTyped
<1>6. Read(captured)' = Read(captured)
  <2>1. captured \in 0 .. Len(written) /\ 0 <= Len(written) /\ written \in Seq(DoFile!Messages)
    BY DEF DoFileTyped
  <2>2. Segment(Append(written, m), 0, captured) = Segment(written, 0, captured)
    BY <1>3, <2>1, SegmentOfAppend
  <2> QED BY <1>1, <1>2, <2>2 DEF Read, m
<1>7. Segment(written', captured, Len(written')) = Append(Segment(written, captured, Len(written)), m)
  <2>1. captured \in Nat /\ captured <= Len(written) /\ written \in Seq(DoFile!Messages)
    BY DEF DoFileTyped
  <2>2. Segment(Append(written, m), captured, Len(Append(written, m)))
          = Append(Segment(written, captured, Len(written)), m)
    BY <1>3, <2>1, SegmentOfAppend
  <2> QED BY <1>1, <2>2 DEF m
<1>8. Collected'
  <2>1. steps' = DoFile!OfKind(Read(captured)', "step") /\ errors' = DoFile!OfKind(Read(captured)', "error")
    BY <1>2, <1>6 DEF Collected
  <2>2. finished' => \E k \in 1 .. captured' : written'[k].kind = "done"
    <3> SUFFICES ASSUME finished PROVE \E k \in 1 .. captured : written'[k].kind = "done"
      BY <1>2
    <3>1. PICK k \in 1 .. captured : written[k].kind = "done"
      BY DEF Collected
    <3>2. k \in 1 .. Len(written)
      BY DEF DoFileTyped
    <3> QED BY <1>4, <3>1, <3>2
  <2>3. ~truncated' /\ ~failure' => out' = Segment(written', captured', Len(written'))
    BY <1>1, <1>2, <1>7 DEF Collected, m
  <2> QED BY <2>1, <2>2, <2>3 DEF Collected
<1>9. DoFileSettled'
  BY <1>1, <1>2 DEF DoFileSettled
<1> QED BY <1>5, <1>8, <1>9

\* A chunk of stdout: the messages that fit are those that follow the ones read.
LEMMA DoFileDataKeeps ==
  ASSUME DoFileInv, ToolRunsAssumption, DoFile!Data
  PROVE  DoFileInv'
<1> USE DEF DoFileInv
<1>1. settled = "no" /\ UNCHANGED <<exit, complained, timer, settled, directory, written>> /\ Limit \in Nat
  BY DEF DoFile!Data, ToolRunsAssumption
<1>2. PICK n \in 1 .. Len(out) :
        /\ out' = SubSeq(out, n + 1, Len(out))
        /\ IF truncated \/ failure
           THEN UNCHANGED <<steps, errors, captured, partial, finished, truncated, failure, lookups, child>>
           ELSE /\ DoFile!Handle(DoFile!Fitting(SubSeq(out, 1, n)))
                /\ captured' = captured + Len(DoFile!Fitting(SubSeq(out, 1, n)))
                /\ truncated' = (n > DoFile!Room)
                /\ child' = IF truncated' \/ failure' THEN DoFile!Killed(child) ELSE child
  BY DEF DoFile!Data
<1>3. n \in Nat /\ n >= 1 /\ n <= Len(out) /\ Len(out) \in Nat
  BY <1>2 DEF DoFileTyped
<1>4. out' \in Seq(DoFile!Messages)
  BY <1>2, <1>3 DEF DoFileTyped
<1>5. CASE truncated \/ failure
  <2>1. UNCHANGED <<steps, errors, captured, partial, finished, truncated, failure, lookups, child>>
    BY <1>2, <1>5
  <2>2. DoFileTyped'
    BY <1>1, <1>4, <2>1 DEF DoFileTyped
  <2>3. Read(captured)' = Read(captured)
    BY <1>1, <2>1 DEF Read
  <2>4. Collected'
    BY <1>1, <1>5, <2>1, <2>3 DEF Collected
  <2>5. DoFileSettled'
    BY <1>1, <2>1 DEF DoFileSettled
  <2> QED BY <2>2, <2>4, <2>5
<1>6. CASE ~truncated /\ ~failure
  <2> DEFINE N == Len(written)
             chunk == SubSeq(out, 1, n)
             room == Limit - captured - complained
             more == IF n < room THEN n ELSE room
             fit == Segment(written, captured, captured + more)
  <2>1. /\ captured \in Nat /\ complained \in Nat /\ captured + complained <= Limit
        /\ N \in Nat /\ captured <= N /\ written \in Seq(DoFile!Messages)
        /\ out = Segment(written, captured, N)
    BY <1>6 DEF DoFileTyped, Collected
  <2>2. Len(out) = N - captured
    <3>1. IsSegment(Segment(written, captured, N), DoFile!Messages, written, captured, N)
      BY <2>1, SegmentIs
    <3> QED BY <2>1, <3>1 DEF IsSegment
  <2>3. more \in Nat /\ more <= n /\ captured + more + complained <= Limit /\ captured + more <= N
        /\ (~(n > room) => more = n)
    BY <1>1, <1>3, <2>1, <2>2
  <2> HIDE DEF more
  <2>4. Len(chunk) = n
    BY <1>3 DEF DoFileTyped
  <2>5. DoFile!Fitting(chunk) = SubSeq(chunk, 1, more)
    BY <2>4 DEF DoFile!Fitting, DoFile!Least, DoFile!Room, more
  <2>15. captured \in Nat /\ more \in Nat /\ IsSegment(fit, DoFile!Messages, written, captured, captured + more)
    <3>1. captured + more \in Nat /\ captured <= captured + more
      BY <2>1, <2>3
    <3> QED BY <2>1, <2>3, <3>1, SegmentIs
  <2> HIDE DEF fit
  <2>6. fit \in Seq(DoFile!Messages) /\ Len(fit) = more /\ Follows(fit, written, captured, more)
    BY <2>15, SegmentElements
  <2> USE DEF fit
  <2>7. SubSeq(chunk, 1, more) = fit
    <3>1. Segment(out, 0, n) = Segment(written, captured + 0, captured + n)
      BY <1>3, <2>1, <2>2, SegmentOfSegment
    <3>2. chunk = Segment(written, captured, captured + n)
      BY <2>1, <3>1 DEF Segment
    <3>3. Segment(Segment(written, captured, captured + n), 0, more) = Segment(written, captured + 0, captured + more)
      <4>1. /\ captured + n \in Nat /\ captured <= captured + n /\ captured + n <= Len(written)
            /\ 0 <= more /\ more <= (captured + n) - captured
        BY <1>3, <2>1, <2>2, <2>3
      <4> QED BY <2>1, <2>3, <4>1, SegmentOfSegment
    <3>4. captured + 0 = captured /\ SubSeq(chunk, 1, more) = Segment(chunk, 0, more)
      BY <2>1 DEF Segment
    <3> HIDE DEF chunk, fit
    <3>5. Segment(chunk, 0, more) = Segment(written, captured, captured + more)
      BY <3>2, <3>3, <3>4
    <3> QED BY <3>4, <3>5 DEF fit
  <2> HIDE DEF chunk
  <2>8. Read(captured + more) = Read(captured) \o fit
    <3>1. captured + more \in Nat /\ 0 <= captured /\ captured <= captured + more
      BY <2>1, <2>3
    <3> QED BY <2>1, <2>3, <3>1, SegmentSplits DEF Read
  <2> HIDE DEF fit
  <2>9. /\ DoFile!Handle(fit) /\ captured' = captured + more /\ truncated' = (n > room)
        /\ child' = IF truncated' \/ failure' THEN DoFile!Killed(child) ELSE child
    BY <1>2, <1>6, <2>5, <2>6, <2>7 DEF chunk, DoFile!Room
  <2>10. Read(captured) \in Seq(DoFile!Messages)
    <3>1. IsSegment(Read(captured), DoFile!Messages, written, 0, captured)
      BY <2>1, SegmentIs DEF Read
    <3> QED BY <3>1 DEF IsSegment
  <2>11. Read(captured)' = Read(captured) \o fit
    BY <1>1, <2>8, <2>9 DEF Read
  <2>12. DoFileTyped'
    <3>1. lookups' \in Seq(DoFile!Messages)
      <4>1. DoFile!OfKind(fit, "lookup") \in Seq(DoFile!Messages)
        BY <2>6, OfKindInSeq
      <4> QED BY <2>9, <4>1 DEF DoFile!Handle, DoFileTyped
    <3>2. truncated' \in BOOLEAN /\ failure' \in BOOLEAN /\ finished' \in BOOLEAN
      BY <2>9 DEF DoFile!Handle, DoFileTyped
    <3>3. captured' \in Nat /\ captured' <= Len(written) /\ captured' + complained' <= Limit /\ Len(written) # 0
      BY <1>1, <1>3, <2>1, <2>2, <2>3, <2>9
    <3> QED BY <1>1, <1>4, <3>1, <3>2, <3>3 DEF DoFileTyped
  <2>13. Collected'
    <3>1. steps' = DoFile!OfKind(Read(captured)', "step")
      <4>1. DoFile!OfKind(Read(captured) \o fit, "step")
              = DoFile!OfKind(Read(captured), "step") \o DoFile!OfKind(fit, "step")
        BY <2>6, <2>10, OfKindConcat
      <4> QED BY <2>9, <2>11, <4>1 DEF DoFile!Handle, Collected
    <3>2. errors' = DoFile!OfKind(Read(captured)', "error")
      <4>1. DoFile!OfKind(Read(captured) \o fit, "error")
              = DoFile!OfKind(Read(captured), "error") \o DoFile!OfKind(fit, "error")
        BY <2>6, <2>10, OfKindConcat
      <4> QED BY <2>9, <2>11, <4>1 DEF DoFile!Handle, Collected
    <3>3. ASSUME finished' PROVE \E k \in 1 .. captured' : written'[k].kind = "done"
      <4>1. CASE finished
        BY <1>1, <2>1, <2>3, <2>9, <4>1 DEF Collected
      <4>2. CASE ~finished
        <5>1. DoFile!OfKind(fit, "done") # <<>>
          BY <2>9, <3>3, <4>2 DEF DoFile!Handle
        <5>2. PICK k \in 1 .. more : fit[k].kind = "done"
          BY <2>6, <5>1, OfKindFound
        <5>3. captured + k \in 1 .. captured'
          BY <2>1, <2>3, <2>9
        <5>4. fit[k] = written[captured + k]
          <6>1. Follows(fit, written, captured, more)
            BY <2>6
          <6> HIDE DEF fit
          <6> QED BY <6>1, <5>2 DEF Follows
        <5> QED BY <1>1, <5>2, <5>3, <5>4
      <4> QED BY <4>1, <4>2
    <3>4. ASSUME ~truncated' PROVE out' = Segment(written', captured', Len(written'))
      <4>1. more = n
        BY <2>3, <2>9, <3>4
      <4>2. out' = Segment(out, n, Len(out))
        BY <1>2 DEF Segment
      <4>3. Segment(Segment(written, captured, N), n, N - captured) = Segment(written, captured + n, captured + (N - captured))
        BY <1>3, <2>1, <2>2, SegmentOfSegment
      <4>4. captured + (N - captured) = N
        BY <2>1
      <4> QED BY <1>1, <2>1, <2>2, <2>9, <4>1, <4>2, <4>3, <4>4
    <3> QED BY <3>1, <3>2, <3>3, <3>4 DEF Collected
  <2>14. DoFileSettled'
    BY <1>1, <2>9 DEF DoFileSettled, DoFile!Killed
  <2> QED BY <2>12, <2>13, <2>14
<1> QED BY <1>5, <1>6 DEF DoFileTyped

\* What the runner has read and collected, and what tclsh wrote.
collectedVars == <<written, out, captured, steps, errors, finished>>
LEMMA SameCollected ==
  ASSUME DoFileInv, UNCHANGED collectedVars, failure => failure', truncated => truncated'
  PROVE  Collected'
<1>1. written' = written /\ captured' = captured /\ out' = out /\ steps' = steps /\ errors' = errors
      /\ finished' = finished
  BY DEF collectedVars
<1>2. Read(captured)' = Read(captured)
  BY <1>1 DEF Read
<1> QED BY <1>1, <1>2 DEF DoFileInv, Collected

\* A chunk of stderr takes room, and what was read stays read.
LEMMA ComplaintKeeps ==
  ASSUME DoFileInv, ToolRunsAssumption, DoFile!Complaint
  PROVE  DoFileInv'
<1> USE DEF DoFileInv
<1>1. /\ settled = "no" /\ Limit \in Nat
      /\ UNCHANGED <<out, exit, captured, steps, errors, finished, timer, failure, lookups, settled, directory, written>>
  BY DEF DoFile!Complaint, ToolRunsAssumption
<1>2. PICK n \in 1 .. Limit + 1 :
        /\ complained' = complained + DoFile!Least(n, DoFile!Room)
        /\ truncated' = (truncated \/ n > DoFile!Room)
        /\ child' = IF n > DoFile!Room THEN DoFile!Killed(child) ELSE child
  BY DEF DoFile!Complaint
<1>3. complained' \in Nat /\ captured' + complained' <= Limit
  <2>1. captured \in Nat /\ complained \in Nat /\ captured + complained <= Limit
    BY DEF DoFileTyped
  <2> QED BY <1>1, <1>2, <2>1 DEF DoFile!Least, DoFile!Room
<1>4. truncated' \in BOOLEAN /\ (truncated => truncated')
  BY <1>2
<1>5. Collected'
  BY <1>1, <1>4, SameCollected DEF collectedVars
<1>6. DoFileTyped'
  BY <1>1, <1>3, <1>4 DEF DoFileTyped
<1>7. DoFileSettled'
  BY <1>1, <1>2 DEF DoFileSettled, DoFile!Killed
<1> QED BY <1>5, <1>6, <1>7

LEMMA LocatedKeeps ==
  ASSUME DoFileInv, DoFile!Located
  PROVE  DoFileInv'
<1> USE DEF DoFileInv
<1>1. lookups # <<>> /\ lookups' = Tail(lookups)
      /\ UNCHANGED <<out, exit, steps, errors, captured, complained, partial, finished, timedOut, truncated, timer,
                     settled, directory, written>>
  BY DEF DoFile!Located
<1>2. failure' \in BOOLEAN /\ (failure => failure') /\ child' \in {child, DoFile!Killed(child)}
  <2>1. failure \in BOOLEAN
    BY DEF DoFileTyped
  <2>2. \/ UNCHANGED <<child, failure>>
        \/ failure' = TRUE /\ child' = DoFile!Killed(child)
    BY DEF DoFile!Located
  <2> QED BY <2>1, <2>2
<1>3. settled = "no"
  BY <1>1 DEF DoFileSettled
<1>4. lookups' \in Seq(DoFile!Messages)
  BY <1>1 DEF DoFileTyped
<1>5. Collected'
  BY <1>1, <1>2, SameCollected DEF collectedVars
<1>6. DoFileTyped'
  BY <1>1, <1>2, <1>4 DEF DoFileTyped
<1>7. DoFileSettled'
  BY <1>1, <1>2, <1>3 DEF DoFileSettled, DoFile!Killed
<1> QED BY <1>5, <1>6, <1>7

LEMMA SettleKeeps ==
  ASSUME DoFileInv, DoFile!Settle
  PROVE  DoFileInv'
<1> USE DEF DoFileInv
<1>1. /\ child = "gone" /\ out = <<>> /\ ~timer /\ lookups = <<>> /\ directory' = FALSE
      /\ UNCHANGED <<child, out, exit, steps, errors, captured, complained, finished, truncated, timer, failure,
                     lookups, written>>
  BY DEF DoFile!Settle, DoFile!LookupsDone
<1>2. settled' \in {"whole", "cut", "rejected"}
  BY DEF DoFile!Settle, DoFileTyped
<1>3. settled' = "whole" => ~truncated /\ ~failure /\ finished /\ exit = 0
  BY DEF DoFile!Settle, DoFile!EndedWell, DoFileTyped
<1>4. Collected'
  BY <1>1, SameCollected DEF collectedVars, DoFileTyped
<1>5. DoFileTyped'
  BY <1>1 DEF DoFileTyped
<1>6. DoFileSettled'
  BY <1>1, <1>2, <1>3 DEF DoFileSettled
<1> QED BY <1>4, <1>5, <1>6

LEMMA DoFileKeeps == ToolRunsAssumption /\ DoFileInv /\ [DoFile!Next]_(DoFile!vars) => DoFileInv'
<1> SUFFICES ASSUME ToolRunsAssumption, DoFileInv, [DoFile!Next]_(DoFile!vars) PROVE DoFileInv'
  OBVIOUS
<1> USE DEF DoFileInv
<1>1. CASE UNCHANGED DoFile!vars
  <2>1. UNCHANGED collectedVars
        /\ UNCHANGED <<complained, truncated, lookups, timer, failure, directory, settled, child, exit>>
    BY <1>1 DEF DoFile!vars, collectedVars
  <2>2. Collected'
    BY <2>1, SameCollected DEF DoFileTyped
  <2> QED BY <2>1, <2>2 DEF DoFileTyped, DoFileSettled, collectedVars
<1>2. CASE DoFile!TakesAnswer \/ DoFile!Ends \/ DoFile!TimerFires \/ DoFile!SpawnError \/ DoFile!Close
  <2>1. UNCHANGED collectedVars /\ UNCHANGED <<complained, truncated, lookups, failure>>
    BY <1>2 DEF DoFile!TakesAnswer, DoFile!Ends, DoFile!TimerFires, DoFile!SpawnError, DoFile!Close,
                DoFile!Runner, collectedVars
  <2>2. Collected'
    BY <2>1, SameCollected DEF DoFileTyped
  <2>3. timer' \in BOOLEAN /\ directory' \in BOOLEAN /\ (timer' => timer)
    <3>1. timer \in BOOLEAN /\ directory \in BOOLEAN
      BY DEF DoFileTyped
    <3>2. (timer' = timer \/ timer' = FALSE) /\ (directory' = directory \/ directory' = FALSE)
      <4>1. CASE DoFile!TakesAnswer \/ DoFile!Ends
        BY <4>1 DEF DoFile!TakesAnswer, DoFile!Ends, DoFile!Runner
      <4>2. CASE DoFile!TimerFires \/ DoFile!SpawnError \/ DoFile!Close
        BY <4>2 DEF DoFile!TimerFires, DoFile!SpawnError, DoFile!Close
      <4> QED BY <1>2, <4>1, <4>2
    <3>3. timer' \in BOOLEAN /\ (timer' => timer)
      <4>1. CASE timer' = timer
        BY <3>1, <4>1
      <4>2. CASE timer' = FALSE
        BY <4>2
      <4> QED BY <3>2, <4>1, <4>2
    <3>4. directory' \in BOOLEAN
      BY <3>1, <3>2
    <3> QED BY <3>3, <3>4
  <2>4. DoFileTyped'
    BY <2>1, <2>3 DEF DoFileTyped, collectedVars
  <2>5. DoFileSettled'
    <3> USE DEF collectedVars
    <3>1. CASE DoFile!TakesAnswer
      BY <2>1, <3>1 DEF DoFileSettled, DoFile!TakesAnswer, DoFile!Runner
    <3>2. CASE DoFile!Ends
      BY <2>1, <3>2 DEF DoFileSettled, DoFile!Ends, DoFile!Runner
    <3>3. CASE DoFile!TimerFires
      BY <2>1, <3>3 DEF DoFileSettled, DoFile!TimerFires, DoFile!AtTimeout, DoFile!Killed
    <3>4. CASE DoFile!SpawnError
      <4>1. lookups = <<>>
        <5>1. Len(written) = 0
          BY <3>4 DEF DoFile!SpawnError
        <5> QED BY <5>1 DEF DoFileTyped
      <4> QED BY <2>1, <3>4, <4>1 DEF DoFileSettled, DoFile!SpawnError
    <3>5. CASE DoFile!Close
      BY <2>1, <3>5 DEF DoFileSettled, DoFile!Close
    <3> QED BY <1>2, <3>1, <3>2, <3>3, <3>4, <3>5
  <2> QED BY <2>2, <2>4, <2>5
<1> QED BY <1>1, <1>2, EmitsKeeps, DoFileDataKeeps, ComplaintKeeps, LocatedKeeps, SettleKeeps DEF DoFile!Next

LEMMA DoFileIsWhole == DoFileInv => DoFile!WholeIsWhole /\ DoFile!CutIsPrefix /\ DoFile!NothingLeft
<1> SUFFICES ASSUME DoFileInv PROVE DoFile!WholeIsWhole /\ DoFile!CutIsPrefix /\ DoFile!NothingLeft
  OBVIOUS
<1> USE DEF DoFileInv
<1>1. DoFile!NothingLeft
  BY DEF DoFile!NothingLeft, DoFileSettled
<1> DEFINE N == Len(written)
           rest == Segment(written, captured, N)
<1>2. /\ Read(captured) \in Seq(DoFile!Messages) /\ rest \in Seq(DoFile!Messages)
      /\ Len(rest) = N - captured /\ written = Read(captured) \o rest
  <2>1. written \in Seq(DoFile!Messages) /\ N \in Nat /\ captured \in Nat /\ captured <= N /\ 0 <= captured /\ N <= N
    BY DEF DoFileTyped
  <2>2. Segment(written, 0, N) = written
    BY <2>1, SubSeqFull DEF Segment
  <2>3. Segment(written, 0, N) = Read(captured) \o rest
    BY <2>1, SegmentSplits DEF Read
  <2>4. IsSegment(rest, DoFile!Messages, written, captured, N)
    BY <2>1, SegmentIs
  <2>5. IsSegment(Read(captured), DoFile!Messages, written, 0, captured)
    BY <2>1, SegmentIs DEF Read
  <2> HIDE DEF rest
  <2> QED BY <2>2, <2>3, <2>4, <2>5 DEF IsSegment
<1> HIDE DEF rest
<1>3. DoFile!WholeIsWhole
  <2> SUFFICES ASSUME settled = "whole"
               PROVE  /\ DoFile!Wrote("done") /\ exit = 0
                      /\ steps = DoFile!OfKind(written, "step") /\ errors = DoFile!OfKind(written, "error")
    BY DEF DoFile!WholeIsWhole
  <2>1. ~truncated /\ ~failure /\ finished /\ exit = 0 /\ Len(out) = 0
    BY DEF DoFileSettled
  <2>2. captured = Len(written)
    <3>1. Len(rest) = 0
      BY <2>1 DEF Collected, rest
    <3> QED BY <1>2, <3>1 DEF DoFileTyped
  <2>3. Read(captured) = written
    BY <2>2, SubSeqFull DEF Read, Segment, DoFileTyped
  <2>4. DoFile!Wrote("done")
    BY <2>1, <2>2 DEF Collected, DoFile!Wrote, DoFileTyped
  <2> QED BY <2>1, <2>3, <2>4 DEF Collected
<1>4. DoFile!CutIsPrefix
  <2>1. ASSUME NEW kind
        PROVE  DoFile!IsPrefix(DoFile!OfKind(Read(captured), kind), DoFile!OfKind(written, kind))
    <3> DEFINE a == DoFile!OfKind(Read(captured), kind)
               b == DoFile!OfKind(rest, kind)
    <3>1. a \in Seq(DoFile!Messages) /\ b \in Seq(DoFile!Messages)
      BY <1>2, OfKindInSeq
    <3>2. DoFile!OfKind(written, kind) = a \o b
      BY <1>2, OfKindConcat
    <3> HIDE DEF a, b
    <3>3. Len(a) <= Len(a \o b) /\ SubSeq(a, 1, Len(a)) = SubSeq(a \o b, 1, Len(a))
      BY <3>1
    <3> QED BY <3>2, <3>3 DEF DoFile!IsPrefix, a
  <2> QED BY <2>1 DEF DoFile!CutIsPrefix, Collected
<1> QED BY <1>1, <1>3, <1>4

-----------------------------------------------------------------------------
(* Calls that score mutations (VhdlMutate).  What a call runs on is its    *)
(* own copy, since no other call has its folder; the score is that of the  *)
(* testbenches run so far, and each result is the score of all of them.    *)

MutatePhases == {"baseline", "folder", "write", "run", "remove", "answered", "refused", "throwing", "thrown"}
CallRecords ==
  [phase : MutatePhases, folder : Nat, mutant : Nat, top : Nat, oks : Seq(BOOLEAN), score : Mutate!Scores,
   results : Seq(Mutate!Scores)]
Tested(n) == {Tops[k] : k \in 1 .. n}
Split(s, tests) ==
  [caughtBy |-> {t \in tests : ~Mutate!Ok(s, t)}, missedBy |-> {t \in tests : Mutate!Ok(s, t)}]

CallTyped(c) ==
  /\ call[c].mutant \in 1 .. Len(Mutations[c]) /\ call[c].top \in 1 .. Len(Tops)
  /\ call[c].phase \in {"write", "run"} => call[c].folder # 0

OwnMutant(c) == call[c].phase = "run" =>
  call[c].folder \in DOMAIN disk /\ disk[call[c].folder] = Mutations[c][call[c].mutant]

DesignTested(c) ==
  /\ call[c].phase = "baseline" =>
       /\ Len(call[c].oks) = call[c].top - 1
       /\ \A k \in 1 .. call[c].top - 1 : call[c].oks[k] <=> Mutate!Ok(Design, Tops[k])
  /\ call[c].phase \in {"folder", "write", "run", "remove", "answered"} \/ Len(call[c].results) # 0 =>
       \A k \in 1 .. Len(Tops) : Mutate!Ok(Design, Tops[k])

Scored(c) ==
  /\ call[c].phase \in {"folder", "write"} => call[c].top = 1
  /\ call[c].phase \in {"baseline", "folder", "write", "run"} => Len(call[c].results) = call[c].mutant - 1
  /\ call[c].phase \in {"remove", "answered"} => Len(call[c].results) = Len(Mutations[c])
  /\ call[c].phase = "run" => call[c].score = Split(Mutations[c][call[c].mutant], Tested(call[c].top - 1))
  /\ \A i \in 1 .. Len(call[c].results) : call[c].results[i] = Split(Mutations[c][i], Mutate!TopSet)

CallInv(c) == CallTyped(c) /\ OwnMutant(c) /\ DesignTested(c) /\ Scored(c)
FoldersApart ==
  \A c, d \in Calls : c # d /\ call[c].folder # 0 => call[c].folder # call[d].folder
MutateInv == call \in [Calls -> CallRecords] /\ FoldersApart /\ \A c \in Calls : CallInv(c)

\* The testbenches run so far, from none of them to all of them.
LEMMA TestedIs ==
  ASSUME ToolRunsAssumption
  PROVE  /\ Len(Tops) \in Nat /\ Len(Tops) >= 1 /\ Tested(0) = {} /\ Tested(Len(Tops)) = Mutate!TopSet
         /\ \A k \in 1 .. Len(Tops) : Tops[k] \in Mutate!TopSet /\ Tested(k) = Tested(k - 1) \cup {Tops[k]}
         /\ \A k \in 0 .. Len(Tops) : Tested(k) \subseteq Mutate!TopSet
<1>1. Tops \in Seq(Mutate!TopSet) /\ Tops # <<>>
  BY DEF ToolRunsAssumption, Mutate!MutateAssumption
<1>2. Len(Tops) \in Nat /\ Len(Tops) >= 1 /\ DOMAIN Tops = 1 .. Len(Tops)
  BY <1>1, EmptySeq, LenProperties
<1>3. Tested(0) = {}
  BY DEF Tested
<1>4. Tested(Len(Tops)) = Mutate!TopSet
  BY <1>2 DEF Tested, Mutate!TopSet, Mutate!Range
<1>5. ASSUME NEW k \in 1 .. Len(Tops)
      PROVE  Tops[k] \in Mutate!TopSet /\ Tested(k) = Tested(k - 1) \cup {Tops[k]}
  <2>1. \A i : i \in 1 .. k <=> i \in 1 .. k - 1 \/ i = k
    BY <1>2
  <2> QED BY <1>2, <2>1 DEF Tested, Mutate!TopSet, Mutate!Range
<1>6. \A k \in 0 .. Len(Tops) : Tested(k) \subseteq Mutate!TopSet
  BY <1>2 DEF Tested, Mutate!TopSet, Mutate!Range
<1> QED BY <1>2, <1>3, <1>4, <1>5, <1>6

\* A testbench more is scored as RunMutant scores it.
LEMMA SplitGrows ==
  ASSUME NEW s, NEW tests, NEW t
  PROVE  Split(s, tests \cup {t}) =
           IF Mutate!Ok(s, t) THEN [Split(s, tests) EXCEPT !.missedBy = @ \cup {t}]
           ELSE [Split(s, tests) EXCEPT !.caughtBy = @ \cup {t}]
BY DEF Split

\* What a testbench does on a source never changes.
LEMMA SameSplit ==
  ASSUME UNCHANGED verdict
  PROVE  \A c, i : Split(Mutations[c][i], Mutate!TopSet)' = Split(Mutations[c][i], Mutate!TopSet)
BY DEF Split, Mutate!Ok, Mutate!TopSet

\* Nothing is scored again.
LEMMA SameScores ==
  ASSUME NEW c, Scored(c), call'[c] = call[c], UNCHANGED verdict
  PROVE  Scored(c)'
<1>1. Split(Mutations[c][call[c].mutant], Tested(call[c].top - 1))' = Split(Mutations[c][call[c].mutant], Tested(call[c].top - 1))
  BY DEF Split, Mutate!Ok, Tested
<1>2. \A i : Split(Mutations[c][i], Mutate!TopSet)' = Split(Mutations[c][i], Mutate!TopSet)
  BY DEF Split, Mutate!Ok, Mutate!TopSet
<1> QED BY <1>1, <1>2 DEF Scored

\* A step of one call leaves every other call as it is, and what is on disk for it.
LEMMA OneCallSteps ==
  ASSUME MutateInv, NEW c \in Calls,
         call' \in [Calls -> CallRecords], \A d \in Calls \ {c} : call'[d] = call[d], UNCHANGED verdict,
         \A d \in Calls \ {c} : call[d].folder \in DOMAIN disk /\ call[d].folder # 0 =>
           call[d].folder \in DOMAIN disk' /\ disk'[call[d].folder] = disk[call[d].folder],
         CallInv(c)', FoldersApart'
  PROVE  MutateInv'
<1>1. ASSUME NEW d \in Calls \ {c} PROVE CallInv(d)'
  <2>1. CallInv(d) /\ call'[d] = call[d] /\ verdict' = verdict
    BY DEF MutateInv
  <2>2. CallTyped(d)' /\ DesignTested(d)'
    BY <2>1 DEF CallInv, CallTyped, DesignTested, Mutate!Ok
  <2>4. Scored(d)'
    BY <2>1, SameScores DEF CallInv
  <2>3. OwnMutant(d)'
    BY <2>1 DEF CallInv, CallTyped, OwnMutant
  <2> QED BY <2>2, <2>3, <2>4 DEF CallInv
<1>2. \A d \in Calls : CallInv(d)'
  BY <1>1
<1> QED BY <1>2 DEF MutateInv

LEMMA MutateInitially == Mutate!Init /\ ToolRunsAssumption => MutateInv
<1> SUFFICES ASSUME Mutate!Init, ToolRunsAssumption PROVE MutateInv
  OBVIOUS
<1>1. \A c \in Calls : call[c] = [phase |-> "baseline", folder |-> 0, mutant |-> 1, top |-> 1, oks |-> <<>>,
                                  score |-> Mutate!NoScore, results |-> <<>>]
  BY DEF Mutate!Init
<1>2. Mutate!NoScore \in Mutate!Scores
  BY DEF Mutate!NoScore, Mutate!Scores
<1>3. call \in [Calls -> CallRecords]
  <2>1. [phase |-> "baseline", folder |-> 0, mutant |-> 1, top |-> 1, oks |-> <<>>,
         score |-> Mutate!NoScore, results |-> <<>>] \in CallRecords
    BY <1>2, EmptySeq DEF CallRecords, MutatePhases
  <2> QED BY <2>1 DEF Mutate!Init
<1>4. FoldersApart
  BY <1>1 DEF FoldersApart
<1>5. ASSUME NEW c \in Calls PROVE CallInv(c)
  <2>1. Len(Mutations[c]) \in Nat /\ Len(Mutations[c]) >= 1 /\ Len(Tops) \in Nat /\ Len(Tops) >= 1
    BY EmptySeq, TestedIs DEF ToolRunsAssumption, Mutate!MutateAssumption
  <2>2. CallTyped(c)
    BY <1>1, <2>1 DEF CallTyped
  <2>3. OwnMutant(c)
    BY <1>1 DEF OwnMutant
  <2>4. DesignTested(c)
    BY <1>1 DEF DesignTested
  <2>5. Scored(c)
    BY <1>1 DEF Scored
  <2> QED BY <2>2, <2>3, <2>4, <2>5 DEF CallInv
<1> QED BY <1>3, <1>4, <1>5 DEF MutateInv

LEMMA BaselineKeeps ==
  ASSUME MutateInv, ToolRunsAssumption, NEW c \in Calls, Mutate!RunBaseline(c)
  PROVE  MutateInv'
<1> DEFINE ok == Mutate!Ok(Design, Tops[call[c].top])
           longer == Append(call[c].oks, ok)
           last == call[c].top = Len(Tops)
<1>1. /\ call[c] \in CallRecords /\ CallInv(c) /\ call[c].phase = "baseline"
      /\ call[c].top \in 1 .. Len(Tops) /\ Len(Tops) \in Nat /\ ok \in BOOLEAN
  BY TestedIs DEF MutateInv, Mutate!RunBaseline, CallInv, CallTyped, Mutate!Ok
<1>2. UNCHANGED <<verdict, disk>>
  BY DEF Mutate!RunBaseline
<1> DEFINE next == IF ~last THEN "baseline" ELSE IF FALSE \notin Mutate!Range(longer) THEN "folder" ELSE "refused"
<1>3. call' = [call EXCEPT ![c] = [@ EXCEPT !.oks = longer, !.top = IF last THEN 1 ELSE call[c].top + 1, !.phase = next]]
  BY <1>1 DEF Mutate!RunBaseline, Mutate!BaselineOk, Mutate!LastTop, Mutate!TopAfter, MutateInv
<1>4. /\ longer \in Seq(BOOLEAN) /\ Len(longer) = call[c].top
      /\ \A k \in 1 .. call[c].top : longer[k] <=> Mutate!Ok(Design, Tops[k])
  <2>1. /\ call[c].oks \in Seq(BOOLEAN) /\ Len(call[c].oks) = call[c].top - 1
        /\ \A k \in 1 .. call[c].top - 1 : call[c].oks[k] <=> Mutate!Ok(Design, Tops[k])
    BY <1>1 DEF CallRecords, CallInv, DesignTested
  <2> HIDE DEF ok
  <2>2. /\ longer \in Seq(BOOLEAN) /\ Len(longer) = Len(call[c].oks) + 1 /\ longer[Len(call[c].oks) + 1] = ok
        /\ \A k \in 1 .. Len(call[c].oks) : longer[k] = call[c].oks[k]
    BY <1>1, <2>1, AppendProperties
  <2> HIDE DEF longer
  <2>3. Len(longer) = call[c].top /\ (longer[call[c].top] <=> Mutate!Ok(Design, Tops[call[c].top]))
    BY <1>1, <2>1, <2>2 DEF ok
  <2>4. ASSUME NEW k \in 1 .. call[c].top PROVE longer[k] <=> Mutate!Ok(Design, Tops[k])
    <3>1. CASE k = call[c].top
      BY <2>3, <3>1
    <3>2. CASE k \in 1 .. call[c].top - 1
      <4>1. longer[k] = call[c].oks[k]
        BY <1>1, <2>1, <2>2, <3>2
      <4> QED BY <2>1, <3>2, <4>1
    <3> QED BY <1>1, <3>1, <3>2
  <2> QED BY <2>2, <2>3, <2>4
<1>5. next = "folder" => last /\ \A k \in 1 .. Len(Tops) : Mutate!Ok(Design, Tops[k])
  <2> SUFFICES ASSUME last, FALSE \notin Mutate!Range(longer), NEW k \in 1 .. Len(Tops)
               PROVE  Mutate!Ok(Design, Tops[k])
    OBVIOUS
  <2> HIDE DEF longer
  <2>1. DOMAIN longer = 1 .. Len(Tops) /\ longer[k] \in BOOLEAN
    BY <1>4
  <2>2. longer[k] # FALSE
    BY <2>1 DEF Mutate!Range
  <2>3. longer[k] <=> Mutate!Ok(Design, Tops[k])
    BY <1>4
  <2> QED BY <2>1, <2>2, <2>3
<1> HIDE DEF longer, ok
<1>6. next \in {"baseline", "folder", "refused"}
  OBVIOUS
<1>7. (next = "baseline" <=> ~last) /\ last \in BOOLEAN
  OBVIOUS
<1> HIDE DEF next
<1>8. /\ call' \in [Calls -> CallRecords] /\ \A d \in Calls \ {c} : call'[d] = call[d]
      /\ call'[c] = [call[c] EXCEPT !.oks = longer, !.top = IF last THEN 1 ELSE call[c].top + 1, !.phase = next]
  <2> DEFINE top == IF last THEN 1 ELSE call[c].top + 1
  <2>1. top \in Nat
    BY <1>1
  <2> HIDE DEF top
  <2>2. [call[c] EXCEPT !.oks = longer, !.top = top, !.phase = next] \in CallRecords
    BY <1>1, <1>4, <1>6, <2>1 DEF CallRecords, MutatePhases
  <2> QED BY <1>3, <2>2 DEF MutateInv, top
<1>9. /\ call'[c].oks = longer /\ call'[c].top = (IF last THEN 1 ELSE call[c].top + 1) /\ call'[c].phase = next
      /\ call'[c].folder = call[c].folder /\ call'[c].mutant = call[c].mutant
      /\ call'[c].results = call[c].results /\ call'[c].score = call[c].score
  BY <1>1, <1>8 DEF CallRecords
<1>10. CallInv(c)'
  <2>1. CallTyped(c)'
    BY <1>1, <1>6, <1>9 DEF CallInv, CallTyped
  <2>2. OwnMutant(c)'
    BY <1>6, <1>9 DEF OwnMutant
  <2>3. DesignTested(c)'
    <3>1. next = "baseline" => call'[c].top - 1 = call[c].top
      BY <1>1, <1>7, <1>9
    <3>2. Len(call[c].results) # 0 => \A k \in 1 .. Len(Tops) : Mutate!Ok(Design, Tops[k])
      BY <1>1 DEF CallInv, DesignTested
    <3> QED BY <1>2, <1>4, <1>5, <1>6, <1>9, <3>1, <3>2 DEF DesignTested, Mutate!Ok
  <2>4. Scored(c)'
    <3>1. \A i : Split(Mutations[c][i], Mutate!TopSet)' = Split(Mutations[c][i], Mutate!TopSet)
      BY <1>2, SameSplit
    <3>2. next \notin {"write", "remove", "answered", "run"}
      BY <1>6
    <3> QED BY <1>1, <1>5, <1>9, <3>1, <3>2 DEF CallInv, Scored
  <2> QED BY <2>1, <2>2, <2>3, <2>4 DEF CallInv
<1>11. FoldersApart'
  <2>1. \A d \in Calls : call'[d].folder = call[d].folder
    BY <1>8, <1>9
  <2> QED BY <2>1 DEF MutateInv, FoldersApart
<1> QED BY <1>2, <1>8, <1>10, <1>11, OneCallSteps

LEMMA MakeFolderKeeps ==
  ASSUME MutateInv, NEW c \in Calls, Mutate!MakeFolder(c)
  PROVE  MutateInv'
<1>1. call[c] \in CallRecords /\ CallInv(c) /\ call[c].phase = "folder" /\ UNCHANGED <<verdict, disk>>
  BY DEF MutateInv, Mutate!MakeFolder
<1>2. PICK f \in Mutate!Folders :
        Mutate!Fresh(f) /\ call' = [call EXCEPT ![c].folder = f, ![c].phase = "write"]
  BY DEF Mutate!MakeFolder
<1>3. f \in Nat /\ f # 0 /\ \A d \in Calls : call[d].folder # f
  BY <1>2 DEF Mutate!Folders, Mutate!Fresh
<1>4. /\ call' \in [Calls -> CallRecords] /\ \A d \in Calls \ {c} : call'[d] = call[d]
      /\ call'[c] = [call[c] EXCEPT !.folder = f, !.phase = "write"]
  <2>1. [call[c] EXCEPT !.folder = f, !.phase = "write"] \in CallRecords
    BY <1>1, <1>3 DEF CallRecords, MutatePhases
  <2> QED BY <1>2, <2>1 DEF MutateInv
<1>5. /\ call'[c].folder = f /\ call'[c].phase = "write" /\ call'[c].mutant = call[c].mutant
      /\ call'[c].top = call[c].top /\ call'[c].results = call[c].results
  BY <1>1, <1>4 DEF CallRecords
<1>6. CallInv(c)'
  <2>1. CallTyped(c)' /\ OwnMutant(c)'
    BY <1>1, <1>3, <1>5 DEF CallInv, CallTyped, OwnMutant
  <2>2. DesignTested(c)'
    BY <1>1, <1>5 DEF CallInv, DesignTested, Mutate!Ok
  <2>3. Scored(c)'
    <3>1. \A i : Split(Mutations[c][i], Mutate!TopSet)' = Split(Mutations[c][i], Mutate!TopSet)
      BY <1>1, SameSplit
    <3> QED BY <1>1, <1>5, <3>1 DEF CallInv, Scored
  <2> QED BY <2>1, <2>2, <2>3 DEF CallInv
<1>7. FoldersApart'
  <2>1. \A d \in Calls \ {c} : call'[d].folder = call[d].folder
    BY <1>4
  <2> QED BY <1>3, <1>5, <2>1 DEF MutateInv, FoldersApart
<1> QED BY <1>1, <1>4, <1>6, <1>7, OneCallSteps

LEMMA WriteMutantKeeps ==
  ASSUME MutateInv, ToolRunsAssumption, NEW c \in Calls, Mutate!WriteMutant(c)
  PROVE  MutateInv'
<1> DEFINE own == call[c].folder
<1>1. /\ call[c] \in CallRecords /\ CallInv(c) /\ call[c].phase = "write" /\ UNCHANGED verdict
      /\ call' = [call EXCEPT ![c].score = Mutate!NoScore, ![c].phase = "run"]
      /\ disk' = [f \in DOMAIN disk \cup {own} |-> IF f = own THEN Mutations[c][call[c].mutant] ELSE disk[f]]
  BY DEF MutateInv, Mutate!WriteMutant
<1>2. own # 0 /\ own \in Nat /\ call[c].top = 1
  BY <1>1 DEF CallInv, CallTyped, Scored, CallRecords
<1>3. /\ call' \in [Calls -> CallRecords] /\ \A d \in Calls \ {c} : call'[d] = call[d]
      /\ call'[c] = [call[c] EXCEPT !.score = Mutate!NoScore, !.phase = "run"]
  <2>1. Mutate!NoScore \in Mutate!Scores
    BY DEF Mutate!NoScore, Mutate!Scores
  <2>2. [call[c] EXCEPT !.score = Mutate!NoScore, !.phase = "run"] \in CallRecords
    BY <1>1, <2>1 DEF CallRecords, MutatePhases
  <2> QED BY <1>1, <2>2 DEF MutateInv
<1>4. /\ call'[c].folder = own /\ call'[c].phase = "run" /\ call'[c].mutant = call[c].mutant
      /\ call'[c].top = call[c].top /\ call'[c].results = call[c].results /\ call'[c].score = Mutate!NoScore
  BY <1>1, <1>3 DEF CallRecords
<1>5. \A d \in Calls \ {c} : call[d].folder # own
  BY <1>2 DEF MutateInv, FoldersApart
<1>6. \A d \in Calls \ {c} : call[d].folder \in DOMAIN disk =>
        call[d].folder \in DOMAIN disk' /\ disk'[call[d].folder] = disk[call[d].folder]
  BY <1>1, <1>5
<1>7. CallInv(c)'
  <2>1. CallTyped(c)'
    BY <1>1, <1>2, <1>4 DEF CallInv, CallTyped
  <2>2. OwnMutant(c)'
    <3>1. own \in DOMAIN disk' /\ disk'[own] = Mutations[c][call[c].mutant]
      BY <1>1
    <3> QED BY <1>4, <3>1 DEF OwnMutant
  <2>3. DesignTested(c)'
    BY <1>1, <1>4 DEF CallInv, DesignTested, Mutate!Ok
  <2>4. Scored(c)'
    <3>1. \A i : Split(Mutations[c][i], Mutate!TopSet)' = Split(Mutations[c][i], Mutate!TopSet)
      BY <1>1, SameSplit
    <3>2. Split(Mutations[c][call[c].mutant], Tested(call[c].top - 1))' = Mutate!NoScore
      <4>1. call'[c].top - 1 = 0
        BY <1>2, <1>4
      <4>2. Tested(0) = {}
        BY DEF Tested
      <4> QED BY <4>1, <4>2 DEF Split, Mutate!NoScore, Tested
    <3> QED BY <1>1, <1>4, <3>1, <3>2 DEF CallInv, Scored
  <2> QED BY <2>1, <2>2, <2>3, <2>4 DEF CallInv
<1>8. FoldersApart'
  <2>1. \A d \in Calls : call'[d].folder = call[d].folder
    BY <1>3, <1>4
  <2> QED BY <2>1 DEF MutateInv, FoldersApart
<1> QED BY <1>1, <1>3, <1>6, <1>7, <1>8, OneCallSteps

\* The call throws, or removes its folder: it scores nothing any more.
LEMMA OnlyThePhase ==
  ASSUME MutateInv, NEW c \in Calls, UNCHANGED verdict,
         NEW to \in {"answered", "throwing", "thrown"}, to = "answered" => call[c].phase = "remove",
         NEW folder_ \in {0, call[c].folder}, call' = [call EXCEPT ![c].folder = folder_, ![c].phase = to],
         disk' = disk \/ disk' = [f \in DOMAIN disk \ {call[c].folder} |-> disk[f]]
  PROVE  MutateInv'
<1>1. call[c] \in CallRecords /\ CallInv(c)
  BY DEF MutateInv
<1>2. /\ call' \in [Calls -> CallRecords] /\ \A d \in Calls \ {c} : call'[d] = call[d]
      /\ call'[c] = [call[c] EXCEPT !.folder = folder_, !.phase = to]
  <2>1. folder_ \in Nat /\ to \in MutatePhases
    BY <1>1 DEF CallRecords, MutatePhases
  <2>2. [call[c] EXCEPT !.folder = folder_, !.phase = to] \in CallRecords
    BY <1>1, <2>1 DEF CallRecords
  <2> QED BY <2>2 DEF MutateInv
<1>3. /\ call'[c].folder = folder_ /\ call'[c].phase = to /\ call'[c].mutant = call[c].mutant
      /\ call'[c].top = call[c].top /\ call'[c].results = call[c].results
  BY <1>1, <1>2 DEF CallRecords
<1>4. \A d \in Calls \ {c} : call[d].folder \in DOMAIN disk /\ call[d].folder # 0 =>
        call[d].folder \in DOMAIN disk' /\ disk'[call[d].folder] = disk[call[d].folder]
  <2>1. \A d \in Calls \ {c} : call[d].folder # 0 => call[d].folder # call[c].folder
    BY DEF MutateInv, FoldersApart
  <2> QED BY <2>1
<1>5. CallInv(c)'
  <2>1. CallTyped(c)' /\ OwnMutant(c)'
    BY <1>1, <1>3 DEF CallInv, CallTyped, OwnMutant
  <2>2. DesignTested(c)'
    BY <1>1, <1>3 DEF CallInv, DesignTested, Mutate!Ok
  <2>3. Scored(c)'
    <3>1. \A i : Split(Mutations[c][i], Mutate!TopSet)' = Split(Mutations[c][i], Mutate!TopSet)
      BY SameSplit
    <3>2. \A i \in 1 .. Len(call[c].results) : call[c].results[i] = Split(Mutations[c][i], Mutate!TopSet)
      BY <1>1 DEF CallInv, Scored
    <3>3. to = "answered" => Len(call[c].results) = Len(Mutations[c])
      BY <1>1 DEF CallInv, Scored
    <3>4. to \notin {"baseline", "folder", "write", "run", "remove"}
      OBVIOUS
    <3>5. /\ call'[c].phase \notin {"baseline", "folder", "write", "run", "remove"}
          /\ call'[c].phase = "answered" => Len(call'[c].results) = Len(Mutations[c])
      BY <1>3, <3>3, <3>4
    <3>6. \A i \in 1 .. Len(call'[c].results) : call'[c].results[i] = Split(Mutations[c][i], Mutate!TopSet)'
      BY <1>3, <3>1, <3>2
    <3> QED BY <3>5, <3>6 DEF Scored
  <2> QED BY <2>1, <2>2, <2>3 DEF CallInv
<1>6. FoldersApart'
  <2>1. \A d \in Calls \ {c} : call'[d].folder = call[d].folder
    BY <1>2
  <2> QED BY <1>3, <2>1 DEF MutateInv, FoldersApart
<1> QED BY <1>2, <1>4, <1>5, <1>6, OneCallSteps

LEMMA ThrowsOrRemovesKeeps ==
  ASSUME MutateInv, NEW c \in Calls, Mutate!Throws(c) \/ Mutate!RemoveFolder(c)
  PROVE  MutateInv'
<1>1. call[c] \in CallRecords /\ DOMAIN call = Calls /\ UNCHANGED verdict
  BY DEF MutateInv, Mutate!Throws, Mutate!RemoveFolder
<1>2. CASE Mutate!Throws(c)
  <2> DEFINE to == IF call[c].folder = 0 THEN "thrown" ELSE "throwing"
  <2>1. call' = [call EXCEPT ![c].phase = to] /\ disk' = disk
    BY <1>2 DEF Mutate!Throws, Mutate!AfterThrow
  <2>2. to \in {"thrown", "throwing"}
    OBVIOUS
  <2> HIDE DEF to
  <2>3. call' = [call EXCEPT ![c].folder = call[c].folder, ![c].phase = to]
    BY <1>1, <2>1 DEF CallRecords
  <2> QED BY <1>1, <2>1, <2>2, <2>3, OnlyThePhase
<1>3. CASE Mutate!RemoveFolder(c)
  <2> DEFINE to == IF call[c].phase = "remove" THEN "answered" ELSE "thrown"
  <2>1. /\ call' = [call EXCEPT ![c].folder = 0, ![c].phase = to]
        /\ disk' = [f \in DOMAIN disk \ {call[c].folder} |-> disk[f]]
    BY <1>1, <1>3 DEF Mutate!RemoveFolder
  <2>2. to \in {"thrown", "answered"} /\ (to = "answered" => call[c].phase = "remove")
    OBVIOUS
  <2> HIDE DEF to
  <2> QED BY <1>1, <2>1, <2>2, OnlyThePhase
<1> QED BY <1>2, <1>3

LEMMA RunMutantKeeps ==
  ASSUME MutateInv, ToolRunsAssumption, NEW c \in Calls, Mutate!RunMutant(c)
  PROVE  MutateInv'
<1> DEFINE own == Mutations[c][call[c].mutant]
           t == Tops[call[c].top]
           last == call[c].top = Len(Tops)
           more == call[c].mutant < Len(Mutations[c])
           score == Split(own, Tested(call[c].top))
           to == IF ~last THEN "run" ELSE IF more THEN "write" ELSE "remove"
           top == IF last THEN 1 ELSE call[c].top + 1
           mutant == IF to = "write" THEN call[c].mutant + 1 ELSE call[c].mutant
           results == IF last THEN Append(call[c].results, score) ELSE call[c].results
<1>1. /\ call[c] \in CallRecords /\ CallInv(c) /\ call[c].phase = "run" /\ UNCHANGED <<verdict, disk>>
      /\ DOMAIN call = Calls /\ call[c].top \in 1 .. Len(Tops) /\ Len(Tops) \in Nat
  BY TestedIs DEF MutateInv, Mutate!RunMutant, CallInv, CallTyped
<1>2. /\ call[c].folder \in DOMAIN disk /\ disk[call[c].folder] = own
      /\ call[c].score = Split(own, Tested(call[c].top - 1))
  BY <1>1 DEF CallInv, OwnMutant, Scored
<1>3. score = IF Mutate!Ok(own, t) THEN [call[c].score EXCEPT !.missedBy = @ \cup {t}]
              ELSE [call[c].score EXCEPT !.caughtBy = @ \cup {t}]
  <2>1. Tested(call[c].top) = Tested(call[c].top - 1) \cup {t}
    BY <1>1, TestedIs
  <2> QED BY <1>2, <2>1, SplitGrows
<1>4. \/ call' = [call EXCEPT ![c].phase = "throwing"]
      \/ call' = [call EXCEPT ![c].score = score, ![c].top = top, ![c].phase = to, ![c].mutant = mutant,
                              ![c].results = results]
  <2> HIDE DEF own, t, score
  <2>1. CASE verdict[<<own, t>>] = "broken"
    BY <1>1, <1>2, <2>1 DEF Mutate!RunMutant, Mutate!AfterThrow, own, t
  <2>2. CASE verdict[<<own, t>>] # "broken"
    <3> DEFINE text == IF call[c].folder \in DOMAIN disk THEN disk[call[c].folder] ELSE Design
               counted == IF Mutate!Ok(text, t) THEN [call[c].score EXCEPT !.missedBy = @ \cup {t}]
                          ELSE [call[c].score EXCEPT !.caughtBy = @ \cup {t}]
    <3>1. text = own
      BY <1>2
    <3>2. counted = score
      BY <1>3, <3>1
    <3>3. verdict[<<text, t>>] # "broken"
      BY <2>2, <3>1
    <3> HIDE DEF counted
    <3>4. call' = [call EXCEPT ![c].score = counted, ![c].top = top, ![c].phase = to, ![c].mutant = mutant,
                     ![c].results = IF last THEN Append(call[c].results, counted) ELSE call[c].results]
      BY <1>1, <3>3 DEF Mutate!RunMutant, Mutate!LastTop, Mutate!TopAfter, Mutate!More, t, counted
    <3> QED BY <3>2, <3>4
  <2> QED BY <2>1, <2>2
<1>5. CASE call' = [call EXCEPT ![c].phase = "throwing"]
  <2>1. call' = [call EXCEPT ![c].folder = call[c].folder, ![c].phase = "throwing"]
    BY <1>1, <1>5 DEF CallRecords
  <2> QED BY <1>1, <2>1, OnlyThePhase
<1>6. CASE call' = [call EXCEPT ![c].score = score, ![c].top = top, ![c].phase = to, ![c].mutant = mutant,
                              ![c].results = results]
  <2>1. /\ call[c].mutant \in 1 .. Len(Mutations[c]) /\ Len(Mutations[c]) \in Nat
        /\ call[c].results \in Seq(Mutate!Scores) /\ Len(call[c].results) = call[c].mutant - 1
        /\ \A i \in 1 .. Len(call[c].results) : call[c].results[i] = Split(Mutations[c][i], Mutate!TopSet)
    BY <1>1, LenProperties DEF CallInv, CallTyped, Scored, CallRecords, ToolRunsAssumption, Mutate!MutateAssumption
  <2>2. score \in Mutate!Scores
    <3>1. Tested(call[c].top) \subseteq Mutate!TopSet
      BY <1>1, TestedIs
    <3> QED BY <3>1 DEF Split, Mutate!Scores
  <2>3. last => score = Split(own, Mutate!TopSet)
    BY TestedIs
  <2> HIDE DEF score
  <2>4. /\ results \in Seq(Mutate!Scores)
        /\ Len(results) = IF last THEN call[c].mutant ELSE call[c].mutant - 1
        /\ \A i \in 1 .. Len(results) : results[i] = Split(Mutations[c][i], Mutate!TopSet)
    <3>1. CASE ~last
      BY <2>1, <3>1
    <3>2. CASE last
      <4> DEFINE longer == Append(call[c].results, score)
      <4>1. /\ longer \in Seq(Mutate!Scores) /\ Len(longer) = Len(call[c].results) + 1
            /\ longer[Len(call[c].results) + 1] = score
            /\ \A i \in 1 .. Len(call[c].results) : longer[i] = call[c].results[i]
        BY <2>1, <2>2, AppendProperties
      <4> HIDE DEF longer
      <4>2. ASSUME NEW i \in 1 .. Len(longer) PROVE longer[i] = Split(Mutations[c][i], Mutate!TopSet)
        <5>1. CASE i = Len(call[c].results) + 1
          <6>1. i = call[c].mutant
            BY <2>1, <5>1
          <6> QED BY <2>3, <3>2, <4>1, <5>1, <6>1
        <5>2. CASE i \in 1 .. Len(call[c].results)
          BY <2>1, <4>1, <5>2
        <5> QED BY <2>1, <4>1, <5>1, <5>2
      <4>3. results = longer
        BY <3>2 DEF longer
      <4>4. Len(longer) = call[c].mutant
        BY <2>1, <4>1
      <4> QED BY <3>2, <4>1, <4>2, <4>3, <4>4
    <3> QED BY <3>1, <3>2
  <2> HIDE DEF results
  <2>5. /\ to \in {"run", "write", "remove"} /\ top \in 1 .. Len(Tops) /\ mutant \in 1 .. Len(Mutations[c])
        /\ (to = "run" => ~last /\ mutant = call[c].mutant /\ top = call[c].top + 1)
        /\ (to = "write" => last /\ mutant = call[c].mutant + 1 /\ top = 1)
        /\ (to = "remove" => last /\ call[c].mutant = Len(Mutations[c]))
    <3>1. Len(Tops) >= 1
      BY TestedIs
    <3> QED BY <1>1, <2>1, <3>1
  <2> HIDE DEF to, top, mutant, last
  <2>6. /\ call' \in [Calls -> CallRecords] /\ \A d \in Calls \ {c} : call'[d] = call[d]
        /\ call'[c] = [call[c] EXCEPT !.score = score, !.top = top, !.phase = to, !.mutant = mutant,
                                      !.results = results]
    <3>1. [call[c] EXCEPT !.score = score, !.top = top, !.phase = to, !.mutant = mutant, !.results = results]
            \in CallRecords
      <4>1. score \in Mutate!Scores /\ top \in Nat /\ to \in MutatePhases /\ mutant \in Nat /\ results \in Seq(Mutate!Scores)
        BY <1>1, <2>1, <2>2, <2>4, <2>5 DEF MutatePhases
      <4> QED BY <1>1, <4>1 DEF CallRecords
    <3> QED BY <1>6, <3>1 DEF MutateInv
  <2>7. /\ call'[c].folder = call[c].folder /\ call'[c].phase = to /\ call'[c].mutant = mutant
        /\ call'[c].top = top /\ call'[c].results = results /\ call'[c].score = score
    BY <1>1, <2>6 DEF CallRecords
  <2>8. CallInv(c)'
    <3>1. CallTyped(c)'
      BY <1>1, <2>5, <2>7 DEF CallInv, CallTyped
    <3>2. OwnMutant(c)'
      BY <1>1, <1>2, <2>5, <2>7 DEF OwnMutant
    <3>3. DesignTested(c)'
      BY <1>1, <2>5, <2>7 DEF CallInv, DesignTested, Mutate!Ok
    <3>4. Scored(c)'
      <4>1. \A i : Split(Mutations[c][i], Mutate!TopSet)' = Split(Mutations[c][i], Mutate!TopSet)
        BY <1>1, SameSplit
      <4>2. to = "run" => score = Split(Mutations[c][call[c].mutant], Tested(call[c].top - 1))'
        <5> SUFFICES ASSUME to = "run" PROVE score = Split(Mutations[c][call[c].mutant], Tested(call[c].top - 1))'
          OBVIOUS
        <5>1. call'[c].mutant = call[c].mutant /\ call'[c].top - 1 = call[c].top
          BY <1>1, <2>5, <2>7
        <5> QED BY <1>1, <5>1 DEF score, own, Split, Tested, Mutate!Ok
      <4>3. /\ to \in {"run", "write"} => Len(results) = mutant - 1
            /\ to = "remove" => Len(results) = Len(Mutations[c])
        BY <2>1, <2>4, <2>5
      <4> QED BY <2>4, <2>5, <2>7, <4>1, <4>2, <4>3 DEF Scored
    <3> QED BY <3>1, <3>2, <3>3, <3>4 DEF CallInv
  <2>9. FoldersApart'
    <3>1. \A d \in Calls : call'[d].folder = call[d].folder
      BY <2>6, <2>7
    <3> QED BY <3>1 DEF MutateInv, FoldersApart
  <2> QED BY <1>1, <2>6, <2>8, <2>9, OneCallSteps
<1> QED BY <1>4, <1>5, <1>6

LEMMA MutateKeeps == ToolRunsAssumption /\ MutateInv /\ [Mutate!Next]_(Mutate!vars) => MutateInv'
<1> SUFFICES ASSUME ToolRunsAssumption, MutateInv, [Mutate!Next]_(Mutate!vars) PROVE MutateInv'
  OBVIOUS
<1>1. CASE UNCHANGED Mutate!vars
  <2>1. UNCHANGED <<verdict, disk, call>>
    BY <1>1 DEF Mutate!vars
  <2>2. ASSUME NEW c \in Calls PROVE CallInv(c)'
    <3>1. CallInv(c) /\ call'[c] = call[c]
      BY <2>1 DEF MutateInv
    <3>2. Scored(c)'
      BY <2>1, <3>1, SameScores DEF CallInv
    <3>3. CallTyped(c)' /\ OwnMutant(c)' /\ DesignTested(c)'
      BY <2>1, <3>1 DEF CallInv, CallTyped, OwnMutant, DesignTested, Mutate!Ok
    <3> QED BY <3>2, <3>3 DEF CallInv
  <2> QED BY <2>1, <2>2 DEF MutateInv, FoldersApart
<1> QED BY <1>1, BaselineKeeps, MakeFolderKeeps, WriteMutantKeeps, RunMutantKeeps, ThrowsOrRemovesKeeps
    DEF Mutate!Next, Mutate!Step

LEMMA MutateScoresRight == ToolRunsAssumption /\ MutateInv => Mutate!ScoredOnOwnMutant /\ Mutate!BaselineFirst
<1> SUFFICES ASSUME ToolRunsAssumption, MutateInv, NEW c \in Calls
             PROVE  /\ \A i \in DOMAIN call[c].results :
                         /\ call[c].results[i].missedBy = {t \in Mutate!TopSet : verdict[<<Mutations[c][i], t>>] = "pass"}
                         /\ call[c].results[i].caughtBy = Mutate!TopSet \ call[c].results[i].missedBy
                    /\ call[c].results # <<>> => \A t \in Mutate!TopSet : verdict[<<Design, t>>] = "pass"
                    /\ call[c].phase = "answered" => Len(call[c].results) = Len(Mutations[c])
  BY DEF Mutate!ScoredOnOwnMutant, Mutate!BaselineFirst
<1>1. /\ CallInv(c) /\ call[c].results \in Seq(Mutate!Scores)
      /\ DOMAIN call[c].results = 1 .. Len(call[c].results) /\ Len(call[c].results) \in Nat
  BY LenProperties DEF MutateInv, CallRecords
<1>2. ASSUME NEW i \in DOMAIN call[c].results
      PROVE  /\ call[c].results[i].missedBy = {t \in Mutate!TopSet : verdict[<<Mutations[c][i], t>>] = "pass"}
             /\ call[c].results[i].caughtBy = Mutate!TopSet \ call[c].results[i].missedBy
  <2>1. call[c].results[i] = Split(Mutations[c][i], Mutate!TopSet)
    BY <1>1 DEF CallInv, Scored
  <2> QED BY <2>1 DEF Split, Mutate!Ok
<1>3. ASSUME call[c].results # <<>>, NEW t \in Mutate!TopSet PROVE verdict[<<Design, t>>] = "pass"
  <2>1. Len(call[c].results) # 0
    BY <1>1, <1>3, EmptySeq
  <2>2. \A k \in 1 .. Len(Tops) : Mutate!Ok(Design, Tops[k])
    BY <1>1, <2>1 DEF CallInv, DesignTested
  <2>3. PICK k \in 1 .. Len(Tops) : Tops[k] = t
    <3>1. Mutate!TopSet = Tested(Len(Tops))
      BY TestedIs
    <3> QED BY <3>1 DEF Tested
  <2> QED BY <2>2, <2>3 DEF Mutate!Ok
<1>4. call[c].phase = "answered" => Len(call[c].results) = Len(Mutations[c])
  BY <1>1 DEF CallInv, Scored
<1> QED BY <1>2, <1>3, <1>4

-----------------------------------------------------------------------------
(* The tools together.                                                     *)

ToolsInv ==
  /\ tool = "run" => RunInv
  /\ tool = "simulate" => ProcessInv
  /\ tool = "do file" => DoFileInv
  /\ tool = "mutate" => MutateInv

LEMMA ToolsInitially == Init => ToolsInv
BY RunInitially, ProcessInitially, DoFileInitially, MutateInitially, ToolRunsAssumption DEF Init, ToolsInv

LEMMA ToolsKeep == ToolsInv /\ [Next]_vars => ToolsInv'
<1> SUFFICES ASSUME ToolsInv, [Next]_vars PROVE ToolsInv'
  OBVIOUS
<1>1. tool' = tool
  BY DEF Next, vars, Calling, Simulating, RunningDoFile, Scoring
<1>2. CASE tool = "run"
  <2>1. [Run!Next]_(Run!vars)
    BY <1>2 DEF Next, vars, Calling, Simulating, RunningDoFile, Scoring, callVars, Run!vars
  <2> QED BY <1>1, <1>2, <2>1, RunKeeps DEF ToolsInv
<1>3. CASE tool = "simulate"
  <2>1. [Process!Next]_(Process!vars)
    BY <1>3 DEF Next, vars, Calling, Simulating, RunningDoFile, Scoring, runVars, processVars, Process!vars
  <2> QED BY <1>1, <1>3, <2>1, ProcessKeeps, ToolRunsAssumption DEF ToolsInv
<1>4. CASE tool = "do file"
  <2>1. [DoFile!Next]_(DoFile!vars)
    BY <1>4 DEF Next, vars, Calling, Simulating, RunningDoFile, Scoring, runVars, doFileVars, DoFile!vars
  <2> QED BY <1>1, <1>4, <2>1, DoFileKeeps, ToolRunsAssumption DEF ToolsInv
<1>5. CASE tool = "mutate"
  <2>1. [Mutate!Next]_(Mutate!vars)
    BY <1>5 DEF Next, vars, Calling, Simulating, RunningDoFile, Scoring, mutateVars, Mutate!vars
  <2> QED BY <1>1, <1>5, <2>1, MutateKeeps, ToolRunsAssumption DEF ToolsInv
<1> QED BY <1>1, <1>2, <1>3, <1>4, <1>5 DEF ToolsInv

(***************************************************************************)
(* Whatever the programs print, and however a call, a run or a dry run     *)
(* ends, nothing of it is left once it is settled: no program, no bridge,  *)
(* no timer, no lookup and no temporary folder.                            *)
(***************************************************************************)
THEOREM SettledLeavesNothing == Spec => []NothingLeft
<1>1. ToolsInv => NothingLeft
  BY RunIsWhole, ProcessIsWhole, DoFileIsWhole, ToolRunsAssumption DEF ToolsInv, NothingLeft
<1> QED BY <1>1, ToolsInitially, ToolsKeep, PTL DEF Spec

(***************************************************************************)
(* What a run reports is all there is, or is said to be cut, for every     *)
(* limit and every order in which output is written and read: a completed  *)
(* call has every dump, a kept output is what was printed, and the steps   *)
(* and errors of a dry run are those the script reported, or the first.    *)
(***************************************************************************)
THEOREM ReportsWhatThereIs == Spec => []ReportedWhole
<1>1. ToolsInv => ReportedWhole
  BY RunIsWhole, ProcessIsWhole, DoFileIsWhole, ToolRunsAssumption DEF ToolsInv, ReportedWhole
<1> QED BY <1>1, ToolsInitially, ToolsKeep, PTL DEF Spec

(***************************************************************************)
(* For any number of calls, testbenches and mutations, every testbench is  *)
(* scored on the mutations of its own call, and only when every testbench  *)
(* passes on the design itself.                                            *)
(***************************************************************************)
THEOREM ScoresAreOwn == Spec => []ScoresRight
<1>1. ToolsInv => ScoresRight
  BY MutateScoresRight, ToolRunsAssumption DEF ToolsInv, ScoresRight
<1> QED BY <1>1, ToolsInitially, ToolsKeep, PTL DEF Spec
=============================================================================
