# Verification of rars-mcp

rars-mcp is an MCP server that lets a client assemble, run and debug RISC-V programs with RARS, and
analyse, simulate and mutate VHDL. This directory holds TLA+ specifications of it, the TLC
configurations that check them, and theorems about them that TLAPS proves. Every definition is a
translation of the code; `PROJECT.json` names the lines each one stands for.

## 1. The system

| part | code | state it keeps | what is hard about it |
|---|---|---|---|
| bridge connection | `src/sessions/connection.ts` | waiting requests and their timers, requests given up on, unclaimed output, why it ended | late replies, the pause after a timeout, output handed over once, several reasons to end at once |
| bridge server | `server/BridgeServer.java` | the client being served, the worker's queue, `pausedBefore`, `gone`, `authenticated` | two threads; pauses overtake; a client that leaves mid-run |
| debugger engine | `sim/RarsSimulator.java` | program, status, stop reason, breakpoints, backstep history | long sequences of legal requests; a load that fails half way |
| headless session | `src/sessions/headless.ts`, `bridge-process.ts` | the bridge process, its connection | startup timer, exits and failures in any order |
| session store and queue | `src/sessions/store.ts` | sessions, idle timers, expired and failed IDs, one queue per session | expiry, failure, closing and requests interleave |
| inline source | `src/tools/source.ts` | a temporary folder | must go whichever way its session ends |
| live session | `src/live/*.ts`, `gui/*.java`, `scripts/launch-rars-mcp.command` | two discovery files, a connection to the bridge inside a visible RARS | the files are rewritten while they are read, a port may be somebody else's by now; a hook that fails after its request took effect |
| tool handlers | `src/tools/handlers.ts`, `dumps.ts`, `source.ts` | during a call: a folder of source, a bridge, a folder of dumps | ten awaits, each of which may fail; bridge and RARS may disagree |
| eval tool | `src/tools/eval.ts` | none | bit patterns, signed and unsigned, of three widths |
| program output | `sim/ProgramOutput.java` | bytes kept of both streams, bytes handed over | one limit for two streams; characters written byte by byte |
| instruction encoder, decoder | `sim/InstructionEncoder.java`, `InstructionDecoder.java` | targets and errors between attempts | errors come by line of a text that changes; scattered fields |
| RARS command line | `src/rars/*.ts` | one process, its captured output, its stdin | timeout, output limit, exit and a failed write race |
| VHDL simulator | `src/vhdl/{process,nvc,simulator}.ts`, `src/tools/vhdl.ts` | one process, a private folder | as above |
| VHDL mutation | `src/vhdl/mutate.ts`, `src/tools/mutate.ts` | the flags of a scan; a folder of mutated copies, scores | `<=`, `'` and `+` mean several things; calls side by side; the folder goes whatever happens |
| do files | `src/vhdl/dofile.ts`, `src/tools/dofile.ts` | a Tcl process; its stack of files, `onerror`, the folder; lookups under way; list files | nested errors; two processes that wait for each other; limits; lists that name each other |
| waveforms | `src/vhdl/{wave,vcd,fst}.ts`, `src/tools/wave.ts` | current values, times not yet answered | streaming; tokens that look alike; blocks; rounding of times |
| workspace | `src/workspace.ts` | the client's roots, asked for once and reused | the answer changes while it is read or used |
| stdio proxy | `src/stdio-proxy.ts` | the line under way, the server's session | answers cut off half way |
| MCP server, HTTP, configuration | `src/{server,http,stdio,config,dependencies}.ts` | whether it is shutting down | a shutdown meets starts and closes under way; a second signal |

Properties that make them right, in a phrase each: the connection settles every request once and keeps the
program's output; the server keeps clients apart and pauses exact; a run is stepped back no further than its
own start; sessions leave nothing behind; a tool's run is reported whole or said to be cut; a script's errors
are reported once and its folder followed; a waveform's values are the last changes at or before the time; an
instruction that can be encoded is; roots are never staler than what the server was told; a live session is
with the desktop that was looked for; a mutation is tried at every operator and nowhere else; a server that
exits leaves no bridge.

How they interact. A tool handler finds a session's `QueuedBackend` in the store; it makes one request
at a time, but lets a pause through at once. `HeadlessSession` owns a bridge process and a
`BridgeConnection` to it over a socket: newline-delimited JSON, matched by id. In the bridge, a reader
thread numbers each line and hands it to a worker thread, which drives the one `RarsSimulator`; a pause
takes effect as the reader reads it. A connection that fails tells its session, which kills the
process, and the store, which removes and closes the session; closing removes the folder of inline
source too. The tools that run RARS, nvc or tclsh share no state with sessions or with each other but the
folder of temporary files; a tool that is given a path asks the workspace, which may have to ask the client
for its roots first.

## 2. The modules

`BridgeContract` is the abstract specification of a bridge as its client sees it. Two modules meet
there: `BridgeConnection` puts the TypeScript client on top of it, and `BridgeServer`, which includes
`RarsSimulator`, implements it.

    BridgeConnection ---- extends ----> BridgeContract <---- implements ---- BridgeServer
          |                                                                      |
    (how a request settles)                                               extends RarsSimulator
          |
    DebugSessions: the life of whole sessions, where a request only "settles"

    ToolRuns    -- instances of -->  RunTool, SimulatorProcess, DoFileRun, VhdlMutate
    WaveQuery   -- instances of -->  VcdDump, FstReplay (both on Sampler), FstFile, ChainTable, WaveTime
    ServerParts -- extends -->       WorkspaceRoots
                -- instances of -->  StdioProxy, LiveConnect, DoFileScript, CompileLists, MutationSites,
                                     EvalOperands, ProgramOutput, InstructionEncoder, InstructionDecoder

The last three put parts that share no state side by side: a behaviour is of one part, chosen by the first
variable (`tool`, `reading`, `part`) in the initial state, and the variables of the other parts stay
`None`. It is a way to check several parts in one run, not a claim that they interact. (In `ServerParts` the
other parts run with `WorkspaceRoots` at rest.) Modules ending in `MC` give values to constants.

### BridgeContract
The bridge reads requests in the order they were sent, answers them one at a time and in that order,
and hands each piece of output over once. A piece of output is a range of chunks of one run; a run
starts with a load or a reset. Whether a request succeeds is the bridge's choice.

### BridgeConnection
One action per callback of Node: `Request`, `Close`, the timer (`RequestTimesOut`, `InterruptTimesOut`),
a line (`ReceiveWaitedFor`, `ReceiveLate`, `ReceiveUnknown`, `ReceiveGarbage`), a promise continuation
(`SettleRequest`, `SettleInterrupt`), `Disconnected`, and the owner's `OwnerFails`. `readline` emits all
lines of a chunk in one callback, so a reply's continuation may run after later lines were received;
`microtasks` holds those continuations and every other callback waits until it is empty (`Idle`).
Ids are positions in `sent`. All timers have the same length, so they run out in the order they were
set (`NextToTimeOut`): that is Node's promise for timers of one duration, and what `InOrder` rests on.

### RarsSimulator
One request is `Start`, some `Instruction`s, and a `Snapshot`; a request that runs nothing is one action
and a `Snapshot`. RARS itself is external: an instruction moves the program counter anywhere, may write,
and ends for any reason, including an unexpected failure (`RunFails`). `LoadRejected` is a load that
replaced the program and then failed. Registers and memory are RARS's; `Modify` keeps what it can do to
`pc`. `RarsSimulatorEnds` adds, as history, whether the run has ended since the last load or reset, so that what
the README promises of a terminated program can be asked of the whole history, which the status has not.

### BridgeServer
The accepting loop and the reader thread (`Accept`, `Read`, `Leave`, `WorkerEnds`), the client (`ClientSends`,
`ClientHangsUp`) and the worker thread, with `gone` and `pausedBefore` as the two volatile fields they share.
The worker checks `gone` as it takes a task, and again as it sends, and asks `pausedBefore` before every
instruction of a continue. In a visible RARS (`~Headless`) the hook that follows a request may fail, after the
request has taken effect (`HookFails`). A line that is no request gets an error in its turn and the reader
reads on; the TypeScript client never sends one, other clients may (`"malformed"`).

### DebugSessions
What `rars_debug_start` acquires (folder, process, connection), how far it is (`start`), the store, and
each session's queue. Ways to end: a failed start, `Close`, `Expire`, `ConnFails`, and the server's own end:
`ShutDown` (a signal, and `closeAll`), `ServerExits`, which kills what bridges are left, and `SecondSignal`. A
close waits behind the queue (`CloseBegins`) and for the process to exit (`CloseEnds`).

### RunTool
One call of `rars_assemble` or `rars_run`, await by await (`phase`): the folder of an inline source, a bridge
that finds the addresses of labels to dump, a folder for the dumps to return, the run, the dumps, the answer.
`Throws` leads from any of them to the `finally` that is next. Somebody may edit workspace files meanwhile
(`Edit`), so that bridge and RARS may disagree whether the program assembles, and files of an earlier run may
stand where dumps go. Removing a folder may fail in its `finally`: the call then throws and the folder stays (`stuck`).
The run itself is `SimulatorProcess`'s.

### LiveConnect
The launcher (`EmptyToken` ... `WritePort`: a redirection empties a file before it is written), the desktop
sessions and the ports they listen at, which a later one may get, and a call of `rars_live_connect`: it reads
both files, connects, says hello, and says why it could not. Every step of the other side in between is noted
(`disturbed`), as history, so that what the call says of a quiet desktop can be told from a race it lost.

### SimulatorProcess
One run of an external program: `runSimulatorProcess` and, with stdin, `runRars`. The program, the pipes and
the kernel (`Program`) run beside Node, whose callbacks are `Data`, `TimerFires`, `SpawnError`, `StdinError`,
`ExitSeen` and `Close`. Output is counted, not spelled out.

### DoFileScript, DoFileRun
`DoFileScript` is the Tcl of the dry run: a stack of files, each a list of commands chosen as they are first
run (`ReadCommand`), then one action for each kind of command, the end of a file, and `HandleError`, which
unwinds one level of the stack. `DoFileRun` is the other end: tclsh writes messages, waits for the answer to a
lookup, ends or crashes (`Emits`, `TakesAnswer`, `Ends`), while the runner reads chunks (`Data`), answers
lookups one after the other (`Located`) and settles after `Close` and the last lookup (`Settle`). What the script
says on stderr (`Complaint`) shares the limit of the output.

### CompileLists
What a recorded `vcom` compiles, once its list files are read: `ExpandLists`, the recursion of `expandLists` and
`parseArguments`, over a disk of two folders in which one list has several names, and the report of
`dofile_check`. Properties compare it with a reference that writes a list's words in its place. A list whose
last word is `-f` or `-F` is left out.

### VhdlMutate, MutationSites
Calls of `vhdl_mutate`: testbenches on the design (`RunBaseline`), then each mutated copy in the call's own
folder, run and scored. What a testbench says of a source is chosen at the start (`verdict`), and a call is
given its mutations. `MutationSites` is how they are found: the scan of a design's tokens with its flags, one
token a step, against a grammar of statements and expressions that knows which tokens are operators and which
bits are assigned. Its grammar has no `case` over a comparison, and no comments or strings, which the code has
blanked before the scan. Substitutions are over small texts.

### EvalOperands
`rars_eval`: operands and immediates as written, the words the program is given, what RARS makes of them
(external), and the rows that are shown. Words have 8 bits instead of 32 and immediates 4 instead of 12.

### Sampler, VcdDump, FstFile, FstReplay, ChainTable, WaveTime
`Sampler` is the class both readers drive. `VcdDump` reads token by token what `Write...` put there, so that
`wave`, what was written, can be compared with the rows; the file may break off between any two tokens
(`BreakOff`), also inside an item, which the reader accepts, and then `wave` has the changes that are there
whole. `FstReplay` starts from any file the writer may make of a wave and merges the streams of a block.
`FstFile` is the rest of the file: its blocks and their lengths, a header that says how many there should be,
the hierarchy's names, the frame of start values, and one signal's changes as varints; what a writer meant is
written, perhaps cut off or wrong, and read. Refused are a tag the reader does not know, a signal without a
width, a change past the last time, and a bit that is none of the states there are, in the frame or in a
change. `ChainTable` is the decoding of a block's table of offsets, from every table the writer can leave.
`WaveTime` is the arithmetic between times as asked and ticks; integers are unbounded, as the code's `bigint`.

### ProgramOutput, InstructionEncoder, InstructionDecoder
`ProgramOutput`: writes and takes, with characters of one or two bytes. `InstructionEncoder`: attempts that
fail with some of the errors RARS could report (RARS's assembler is external: which lines fail, and
addresses), placing of numeric targets, and the result. An instruction may define a label of the caller's,
also one that another defines. `InstructionDecoder`: the fields of a word, a set of bits.

### WorkspaceRoots, StdioProxy
`WorkspaceRoots`: the client changes its roots and answers `roots/list` over an ordered channel, reads take
time and may fail, calls share the read in use; several servers may share the workspace, and each whose client
has roots becomes the one that is asked (`UseRootsProvider`). `StdioProxy`: a line of any kind of JSON, its
post, what the server sent and how that ended, an error in its place, and the session the end of the input
ends. A body that ends cleanly before the reply leaves the request without one, and without an error:
`parseSseResponse` does not look for it. So `AnsweredOnceInOrder` says what was written for every line, and
promises a request its reply only if the server sent one. A batch gets no error, and a JSON primitive whose
post fails ends the proxy.

## 3. The runs

Twelve runs: seven must pass and five must be found violated.

| run | question and properties | bounds |
|---|---|---|
| BridgeConnection | does every request settle (`EverySettles`), and once (`SettlesOnce`), is none forgotten (`WaitingIsAccountedFor`), is no output lost, repeated or reordered (`NoOvertaking`, `OutputConserved`), does a hung bridge end its connection (`HungBridgeEnds`), by the timers alone? | both owners; 2 requests of callers, of 5 kinds (and up to 2 pauses of the connection's own), 2 chunks of output a run |
| BridgeConnectionRestart | is output always of the run it is reported with? (no: `NoOutputOfEarlierRun`) | 3 requests, 1 chunk |
| BridgeServerContract | do the threads and the simulator implement `BridgeContract` (`KeepsContract`)? Is nothing stepped back past the start of its run (`BackstepStaysInRun`)? | 1 client, 4 requests of 9 kinds, 2 addresses, 2 runs, history of 1, 2 chunks |
| RarsSimulatorEnds | does a program that has terminated refuse to run until it is reset? (no: `TerminatedRefusesToRun`) | 2 addresses, 2 runs, history of 1 |
| BridgeServerClients | in a visible RARS whose hook may fail: are clients kept apart (`OneClientAtATime`), is only done what a client that said hello asked for, and does a pause stop the continues before it and no other (`OnlyAsAsked`), is it answered (`PausesAnswered`), and does a client that leaves free the bridge (`NextClientServed`), when a continue may run for ever? | 2 clients, 3 lines each, requests of 5 kinds or malformed, 2 addresses, 2 runs |
| DebugSessions | does any order of starts, ends, failures and a shutdown leave something behind (`NothingForgotten`, `EndedLeavesNothing`, `ExitLeavesNoBridge`, `AnswerStays`)? Does every start end and every ended session and the shutdown let go (`StartEnds`, `EndedIsReleased`)? | 2 sessions, 1 with inline source, queues of 2 |
| ServerSecondSignal | is every bridge killed however the server ends? (no: `NoBridgeOutlivesServer`) | 1 session, 2 signals |
| WaveQuery | is each value of a VCD and of an FST file the last change at or before its time, has each time its row, is only a bad file refused (`VcdRowsRight`, `FstRowsRight`), are an FST file's tables, names, frames and changes read as laid out, and a file that is cut off or wrong refused (`ReadsTheLayout`), a time turned into the right ticks (`TimesInTicks`), does the merge end (`ReplayEnds`)? | VCD: 4 items, 2 signals, broken off anywhere between tokens; FST: 3 changes at times 0 to 2, cut anywhere; tables of 5 signals; 4 blocks or names, 2 changes of each kind of value, right or wrong, against 2, 40 and 20000 times; times of 3 units and 3 magnitudes |
| ToolRuns | is a run reported whole or said to be cut (`ReportedWhole`), is nothing left of it (`NothingLeft`), are mutations scored on their own copies (`ScoresRight`), does every run settle (`RunSettles`)? | limit of 3 against 4 units of output or messages, and of stderr; 1 call with 2 dumps, each into a file or returned, of a label or not; 2 calls, 2 testbenches, 2 mutations |
| RunToolStaleDump | are the dumps of a call that completed always of its run? (no: `DumpsOfThisRun`) | 1 dump |
| RarsProcessStdin | does the server outlive a RARS run killed with stdin unread? (no: `ServerSurvives`) | 3 units of output |
| ServerParts | roots: `RootsFresh`, `AskedOnce`. The stdio proxy: each line answered once, in order (`AnsweredOnceInOrder`). The desktop: `FindsTheDesktop`. Do files: `onerror` scoped, errors reported once, folders followed (`DoFileFollowed`), and a file stops at its error (`StopsAtError`). VHDL text: a list's words in its place, each path by its own list (`ListsInTheirPlace`), mutations where there is an operator (`SitesRight`). Bits: operands as written, fields make the word again (`BitsRight`). Output: no character split or lost (`OutputKept`). Instructions: exactly those that cannot be encoded are refused, targets where they were asked for (`InstructionsRight`), attempts end (`AttemptsEnd`) | 3 calls, 3 reads, 1 change, 2 servers; 2 lines of 6 kinds, 2 sessions; 2 launches, 2 ports, 1 connect; 2 files of 2 commands, 3 deep; 9 commands, lists of up to 3 words in 2 folders; 2 statements; operands of 8 bits; 5 bytes against a limit of 3; 3 instructions of 16 kinds with 2 labels; 22 opcodes with few bits, or all but one, above |

The runs take from a second to two minutes each and visit up to about a million states.

Why these bounds. Two requests and the pause between them are the least for a late reply to meet a reply
waited for; in BridgeConnectionRestart the third is the request after the reset that timed out. A second run
is the least for output or history to leak between runs. Two clients, two sessions and two calls are the least
to tell one's state from the other's; nothing in the code counts them, and the theorems hold for any number.
Limits are one below what can be written, so that a run may stay under, meet and pass them. Three files deep
is an error that passes through a file that neither made nor caught it. Three changes at three times give two
changes at one time, one in each of two blocks, and a block of none. Three instructions are one whose failure
moves a second, whose label a third uses. Two launches are the least for a token of one and a port of the
other. Two statements are the least for a flag to outlive the one that set it. Two dumps are one that is
written and one that is not. `MaxRequests`, `MaxWritten`, `MaxRuns`, `MaxSent`, `MaxClients`, `MaxQueued`,
`MaxPrinted`, `MaxMessages`, `MaxItems`, `MaxChanges`, `MaxParts`, `MaxBytes`, `MaxChunk`, `MaxDepth`,
`MaxLines`, `MaxRead`, `MaxServers` and `MaxVersion` bound what the environment does; where such a bound, or
the end of a run, ends a behaviour the configuration says `CHECK_DEADLOCK FALSE`. `MaxHistory` and the limits
of output are the code's own, made small.

Fairness. `BridgeConnection`: timers that have run out fire and microtasks run (Node's event loop);
nothing of the bridge, the network or callers. `BridgeServer`: both threads keep running; nothing of the
client, and none of a continue's instructions ending it. `DebugSessions`: the startup limit ends a start,
a request settles (which is what BridgeConnection shows), a process that was sent SIGKILL exits, the
exit of a watched process is reported, and a shutdown whose closes are over exits; nobody has to close, expire
or fail a session, or signal the server. `ToolRuns`:
callbacks of Node are called, the timer fires, SIGKILL ends a process, the workspace answers a lookup, and
an await of `RunTool` ends (a bridge and a run have time limits); the program itself need do nothing.
`WaveQuery` and the encoder of `ServerParts`: a synchronous call runs on.
The fairness of the worker thread takes each instruction to end: a system call that blocks, to read or to sleep, holds
up a pause and a client's leaving for as long as it does.

Disagreements found, each a run that TLC must find violated. (1) `NoOutputOfEarlierRun`: a comment in
`connection.ts` says output starts again from a load or a reset; when the reset times out, `claimOutput` never
runs for it, and output of the run before, still unclaimed, is put in front of the next reply of the new run.
(2) `ServerSurvives`: `runRars` writes stdin without listening for the write's error, so that a program killed
before it has read it all takes the server down, where a test expects a result. (3) `DumpsOfThisRun`: the
README promises an error when RARS writes no file for a dump; `dumps.ts` looks whether the file is there, and
one of an earlier run will do. (4) `NoBridgeOutlivesServer`: both signals are listened to once, so that a
second one, while the sessions are closed, ends the process with no exit handler, and bridges in process
groups of their own stay, where a comment says that every one is killed. (5) `TerminatedRefusesToRun`: the
repository's README says a program that has terminated refuses to run until the session is reset; a backstep
sets its status to paused, and `ensureRunnable` asks for the status alone, so that it runs again. (2) takes a
stdin too large for the pipe, which the quoted test does not pass: what the test expects is the result of a
killed run.

Seen while modelling and kept as the code has them, without a run of their own: `quit` inside a `catch` does
not end a do file; a mutated copy whose run is stopped by the time limit counts as caught; an instruction that
repeats the label of one that fails as well may be reported with it, and is not tried again when that one is
left out; a request whose stream ends before its reply gets no answer and no error from the stdio proxy; a VCD
file that breaks off inside an item is read up to there; output the snapshot has taken is lost to the client
when the hook of a visible RARS fails after it (so `KeepsContract` is stated of a headless bridge); an FST
block begins where it says, and the replay compares that only with the last time stamp it read, so that of a
block without changes it does not notice that it says it begins after the block that follows: times in between
get the values of before (`LastChange` is stated of files whose blocks begin in order).

## 4. What is proved

`tlapm` proves these for every value of the constants, from the assumptions the modules name. Each theorem is
the last of its section of the proof module, after the inductive invariant it needs and one lemma per action,
or per component of the state, that keeps it.

| theorem | says | rests on |
|---|---|---|
| `BridgeConnectionProofs!NeverOvertakes`, `NoRequestForgotten`, `OneSettlement` | `NoOvertaking`, `WaitingIsAccountedFor`, `SettlesOnce` | `InOrder` |
| `BridgeConnectionProofs!NoOutputLost` | `OutputConserved` | `OutputInv` |
| `BridgeServerProofs!SimulatorSafe` | the engine's three invariants | each other |
| `BridgeServerProofs!ServerUsesSimulator` | every step of the server is one of the engine or leaves it alone | `SimulatorSafe` |
| `BridgeServerProofs!ServesOneClient` | `OneClientAtATime` | `ServerInv` |
| `BridgeServerProofs!DoneAsAsked` | `OnlyAsAsked` | `RequestsInv` |
| `BridgeServerProofs!BridgeKeepsContract` | `KeepsContract`, the refinement | `ContractInv`, of a headless bridge with one client |
| `DebugSessionsProofs!SessionsRelease`, `EndedHoldsNothing`, `ExitsClean`, `AnswersStay` | `NothingForgotten`, `EndedLeavesNothing`, `ExitLeavesNoBridge`, `AnswerStays` | `SessionsInv` |
| `ServerPartsProofs!RootsShared`, `ClientAskedOnce` | `RootsFresh`, `AskedOnce` | `IInv` |
| `ToolRunsProofs!SettledLeavesNothing`, `ReportsWhatThereIs`, `ScoresAreOwn` | `NothingLeft`, `ReportedWhole`, `ScoresRight` | `RunInv`, `ProcessInv`, `DoFileInv`, `MutateInv` |
| `ServerPartsProofs!DesktopFound` | `FindsTheDesktop` | `LiveInv` |
| `ServerPartsProofs!OutputIsKept` | `OutputKept` | `OutputInv` |
| `ServerPartsProofs!LinesAnswered` | `AnsweredOnceInOrder` | `ProxyInv` |
| `ScriptAndWordsProofs!ScriptStops`, `ScriptFollowed` | `StopsAtError`, `DoFileFollowed` | `ScriptInv` |
| `ScriptAndWordsProofs!EncodesWhatCanBe` | `InstructionsRight` | `EncodeInv` |
| `ScriptAndWordsProofs!WordsKeepTheirBits` | `BitsRight` | `WordsInv` |
| `WaveQueryProofs!VcdRows`, `FstRows` | `VcdRowsRight`, `FstRowsRight` | `VcdInv`, `FstInv` |
| `WaveQueryProofs!TimesRight` | `TimesInTicks` | `TimesRun` |
| `WaveQueryProofs!TablesRead`, `FilesRead`, `LayoutRead` | `ChainTable`'s half of `ReadsTheLayout`, that of `FstFile`, and both | `TableRun`, `KeepsPace`; `FileRun` |

What the invariants are, and why the properties alone are not inductive:

* The connection. `InOrder`: ids split into those received, those given up on, and those still waiting, in this
  order; so the synchronous `keepOutput` never overtakes a queued `claimOutput`. `OutputInv`, while the
  connection lasts: every piece of output on its way is of the run of its reply, replies are of runs in order,
  and what is unclaimed is of no later run than any reply to come, and of an earlier one if that reply starts a
  run. So a reset drops output of earlier runs only, and what a late reply or a pause keeps comes before
  everything that follows. There is no reply nobody sent for (`AllAwaited`), so none is dropped with its output.
* The server. `InOrder` there: the tasks are the last of the lines read, numbered by place, and as many replies
  were made as tasks are done. `PausedByAPause`: what stops a continue is a pause this client sent, and not one
  before it, so that a client's `pausedBefore` is never another's. `GreetedFirst`: nothing runs before a hello
  was answered. For the contract, a step of the reader or the engine stutters, and a reply is an answer to the
  request that is next, with all output since the last (`InProgress`, `RunOfAProgram`).
* Sessions. `Stages` says which stage a session can be in given what it holds; all four theorems follow.
* Roots. Notifications arrive in order and are newer than what the server knows (`Ordered`); the read in use
  was begun at the last change known and is the only one since that has not failed (`InUse`); a call knows what
  its read knew (`Shared`).
* Tools. `RunHeld` ties what a call holds to its phase, and what it leaves to the removals that failed, and
  `RunAnswered` carries what was found of the dumps to the answer. `Accounted`: what was printed is what was
  captured, what is in the pipe, and what was lost of a process that was cut. `Collected`: steps and errors
  are those of the messages read so far, and what is in the pipe is the rest unless the run failed.
  `MutateInv`: a call that runs a mutant has it in a folder of its own, which no other call writes to, after
  its testbenches passed the design.
* Live sessions. One desktop session listens at a port; a port that is written is of one that runs or ran; a
  call's port and token are what some session wrote; and a call that nothing disturbed has what the files hold
  (`Undisturbed`), so that when it fails, something did change.
* Program output. What was taken of a stream is a prefix of what it was given that ends in no half of a
  character, unless the program ended or the limit was reached; both streams together are what is kept.
* The stdio proxy. What was written is, line by line handled, one of the answers owed for that line, put one after
  the other; the session it ends is the last the server opened.
* The script. `onerror` is what the innermost running file that set it said (`LastSet`), at every depth, also
  that each caller gets back; the folder is that of the last step that moved (`LastMove`); an error on its way
  up is the last that happened and is not yet listed; once nobody resumes, nobody on the stack does.
* The encoder. What failed is in the least set that is closed under "is wrong in itself, defines a label
  again, or uses a label that only such define" (`OthersStillEncode`), so that a line that fails now is of an
  instruction in that set: a target not placed yet is a label on its own instruction and always in reach, and
  a placed one is as far as was asked for, because a failure drops all labels. When nothing fails, every
  instruction not left out has a line in the text (`TextHolds`), so the errors themselves are closed, and the
  least set of what is wrong in itself is within them, while no two of the rest define one label. Addresses
  are sums over a set, natural by induction on its size (`SumIsNatural`).
* Decoded words and operands. A decoded word is the fields of its format, so the proof is about the fields: a bit
  of a field read from one place is a bit of the word (`BitsAre`, by induction over the field's width), an
  immediate joined from several places has each part's bits and the sign above (`JoinedFields`), and parts that
  fill all 32 places make the word again (`FilledIsTheWord`). Of an operand: a rest by a power of two keeps the low
  bits (`RestHasLowBits`), a number within its field has its sign in every bit above (`NoBitsAbove`), and the ALU
  gives the same for numbers that are the same word (`AluOfWords`).
* Waveforms. Of the sampler, whichever file drives it: exactly the times asked for that lie before the time the
  replay is at are answered, each with the last changes there were (`ReplayAt`, `RowsFollow`), so answering the
  rest at the end, or all that is left when every time is passed, gives what reading on would give. Of a VCD file:
  between two items of the file the current values are the last changes (`UpToDate`); inside one, what is left to
  read is one of the shapes an item can have, with the change it will still make (`VcdItem`). Comments and ids
  that look like times or changes are therefore never taken for what they look like: the flags of the reader
  (`skipping`, `value`) are right for every shape. Of an FST file: what the writer makes of a run, for any choice of
  cuts, holds in each block the changes of its stretch of time, each signal's in order, by indices of its table
  (`FileRight`, proved of `FileOf`); of each watched signal the changes of the open block up to `position` are
  made and the others come later (`Between`, `Ahead`), so that the least index there is is the next change of the
  run. The sets of the run's times are put in order by `Ascending`, whose existence and uniqueness rest on
  induction over the size of a set. A file is refused only if a block says it begins before the last time of one ahead.
* Times. A query's answer is a function of the text and the count (`TimesRun`), so the theorem is about the
  arithmetic: the fraction the code builds, with a power of ten above or below the line, is the time over a tick
  in the smallest unit (`SameFraction`), and rounding down is the same for both; what `formatTime` makes of a count,
  before and after zeros are left out, is the same fraction again (`StrippedIs`, `FormatIs`).
* The table of chains. After any number of entries the reader has of every signal before it what the writer put
  there: its chain's place if it has one, the earlier signal it is the same as, or nothing (`KeepsPace`, `HasRead`). So
  the places it keeps, with their lengths, are those of the chains, and what it follows from an alias to a chain is
  the only solution of the equation that the writer's choice solves.
* The rest of an FST file. What was written is chosen at the start and what is read is a function of it
  (`FileRun`), so the proof is about those functions, for what was written of any length. A part is its
  elements' chunks one after the other, each beginning where those before it end (`Laid`, `FlattenPlaces`).
  The readers are the same step made again and again (`Stepwise`), each from where a chunk begins to where the
  next one does: `BlockStep` for a block that is whole, cut or not there, `ChangeStep` for a change,
  `EntryStep` for a scope, its end or a variable. A varint of any number ends at its first byte that is less
  than 128 (`VarintEnds`) and its sevens add up to the number (`VarintRead`); a change is one number and what
  follows, from which step and value can be told for every width and every way to store it (`Stored`,
  `Recovers`). Names are refused exactly if a scope is closed that was not open (`BalancedUpTo`). A file that
  was cut reads as its whole blocks and a torn one, so it is refused unless every block of changes is there.
  What is refused is read as it was written up to the entry or the change that is wrong, and there the step
  fails for the same reason the property names. Widths are the model's four: a bit, nine bits, a real number,
  a string.

`DataLemmas` has what these share about sequences: a segment and its parts, what appending does to it, the
flattening of a sequence of sequences, what it holds and where each part lies in it, and induction over the
naturals for a set (the library's induction takes an operator, which the provers cannot instantiate, so it is
proved here from the least element of a set); then powers, as a function recursive over the exponent (the
provers know `^` of constants only), quotients and remainders, and the bits of a number.

The assumptions are the modules' named ones (bounds are numbers, `NoRead` is no read, `None` is no line, and
the like); RARS, Node, Tcl and the client are the actions the modules give them. `BridgeKeepsContract` alone
has hypotheses, `Headless`, `MaxClients <= 1` and `Asked \subseteq Requests`: the hook of a visible RARS may
fail after output was taken, a second client finds the program of the first, and a malformed line is answered
with an error without an id; none of these is the contract of one connection of the TypeScript client to one
bridge.

Model-checked only:

* All liveness properties: `EverySettles`, `HungBridgeEnds`, `PausesAnswered`, `NextClientServed`, `StartEnds`,
  `EndedIsReleased`, `ReplayEnds`, `RunSettles`, `AttemptsEnd`. Fairness and ENABLED are out of the prover's reach.
* Of `ServerParts`: `ListsInTheirPlace` and `SitesRight`, which compare a recursive reader with a recursive
  reference for every text of a bounded size; a proof is an induction over that text. (`CompileLists` is
  written with recursive functions so that the rest of `ServerParts` can be proved about.)

Where a module's `TypeOK` is in no run it is a conjunct of a proved invariant or says what the variables hold.

## 5. What is not modelled

* Formatting and parsing of messages (JSON, diagnostics, the contents of dumps, tables), and the text of errors.
* The registers, memory and symbols of RARS, its assembler and its simulator: external.
* An `Error` of Java that is no exception: neither `RarsSimulator` nor `BridgeServer` catches it, and its request would
  go without a reply.
* That a removal fails, but in `RunTool`: those of do files, mutations and sessions are taken to succeed, and so is
  the closing of the bridge a tool started for labels, which kills a child of its own.
* Whether a file there after a run is of that run: `CompletedIsComplete`, the part of `ReportedWhole` about dumps, takes
  any file for a dump, as the code does; RunToolStaleDump shows what that lets through.
* `list` and `summary`, which only report; the bytes captured for a startup error.
* Of the server's end: other signals than SIGINT and SIGTERM, an HTTP server (which does not exit by itself),
  and folders of starts in flight or of closes that the shutdown does not await, which may stay.
* What the visible RARS draws and what its user does in it.
* Paths: containment, symbolic links, the names of inline sources, globs.
* Addresses of labels that are stale since a file was edited between the bridge's look and the run.
* The declarations of a VCD file, a file cut inside a token, lower-casing of values, and a real number that is
  none (NaN, shown as unknown); of an FST file its compression, the time table and header fields other than
  the count, and of the signals that nobody watches their values; the search for a signal by its name, the
  formatting of values.
* The messages of nvc, its command lines, and the splitting of VHDL text into tokens.
* In `do` files: `glob`, `file`, the standards and the other commands of the compiler. The abort signal of a call.
* Declarations and probes: `tools/schemas.ts`, `tools/status.ts`, `config.ts`, `dependencies.ts`; `tools/encode.ts`,
  which is a session for one request.

## 6. Plan

Done, in this order: the contract and the connection; the simulator and the server that implements the
contract; sessions; the tools; the live bridge, the calls of `rars_run`, the shutdown, the scanner, list
files and the rest of an FST file; then the proofs of section 4, the waveform readers last. Next:
`BridgeConnection` on `BridgeServer` directly, in place of the contract, on a smaller instance.
