--------------------------- MODULE BridgeContract ---------------------------
(***************************************************************************)
(* What the Java bridge promises the client of one connection: it reads    *)
(* the requests in the order they were sent, answers them one at a time    *)
(* and in that order, and hands each piece of program output over exactly  *)
(* once, in the reply it makes next.  BridgeConnection puts the TypeScript *)
(* client on top of this contract.                                         *)
(*                                                                         *)
(* A request is its position in "sent".  The requests sent[answered+1..]   *)
(* are on their way to the bridge, queued there, or being executed.        *)
(***************************************************************************)
EXTENDS Naturals, Sequences

CONSTANT MaxWritten  \* bounds the output one run writes, in chunks

ASSUME MaxWrittenAssumption == MaxWritten \in Nat

VARIABLES
  sent,      \* what each request asks for, in the order written to the socket
  answered,  \* how many requests the bridge has answered
  replies,   \* the replies written to the socket and not read by the client
  run,       \* how many times a load or a reset has started a run; 0: no program
  written,   \* chunks of output the current run has written
  taken      \* chunks of the current run that some reply has handed over

bridgeVars == <<sent, answered, replies, run, written, taken>>

(***************************************************************************)
(* "continue" is a step or a continue, which runs the program; "inspect"   *)
(* is every request answered with a snapshot that runs nothing; "reset"    *)
(* is a load or a reset; the results of a "hello" and of an "encode",      *)
(* which needs a bridge with no program loaded, have no output.            *)
(***************************************************************************)
Whats == {"hello", "continue", "inspect", "reset", "encode", "pause"}
RestartsOutput(what) == what = "reset"
HandsOverOutput(what) == what \notin {"hello", "encode"}

\* The chunks from+1 .. to of one run.
Piece == [run : Nat, from : Nat, to : Nat]
Reply == [id : Nat, ok : BOOLEAN, run : Nat, out : Seq(Piece)]

\* The output written since the last reply that handed any over.
NewOutput == IF taken = written THEN <<>>
             ELSE << [run |-> run, from |-> taken, to |-> written] >>

\* A connection starts on a bridge with no program, or with one already loaded.
BridgeInit ==
  /\ sent = <<>>
  /\ answered = 0
  /\ replies = <<>>
  /\ run \in {0, 1}
  /\ written = 0
  /\ taken = 0

Executing(what) == answered < Len(sent) /\ sent[answered + 1] = what

\* The program writes a chunk while the bridge executes a step or a continue.
WriteOutput ==
  /\ Executing("continue") /\ run > 0
  /\ written < MaxWritten
  /\ written' = written + 1
  /\ UNCHANGED <<sent, answered, replies, run, taken>>

Answer(ok, inRun, out) ==
  /\ answered' = answered + 1
  /\ replies' = Append(replies, [id |-> answered + 1, ok |-> ok, run |-> inRun, out |-> out])

\* A snapshot: the reply takes everything written since the last one.
AnswerSnapshot ==
  /\ \E what \in {"continue", "inspect", "pause"} : Executing(what)
  /\ run > 0
  /\ Answer(TRUE, run, NewOutput)
  /\ taken' = written
  /\ UNCHANGED <<sent, run, written>>

\* A load or a reset starts a run with empty output buffers.
AnswerRestart ==
  /\ Executing("reset")
  /\ Answer(TRUE, run + 1, <<>>)
  /\ run' = run + 1
  /\ written' = 0
  /\ taken' = 0
  /\ UNCHANGED sent

AnswerWithoutOutput ==
  /\ \/ Executing("hello")
     \/ Executing("encode") /\ run = 0
  /\ Answer(TRUE, run, <<>>)
  /\ UNCHANGED <<sent, run, written, taken>>

\* Faulty variant: a request is answered though none was sent.
AnswerErrorTwice ==
  /\ Answer(FALSE, run, <<>>)
  /\ UNCHANGED <<sent, run, written, taken>>
\* Everything that can fail comes before the snapshot, so an error takes no output.
AnswerError ==
  /\ answered < Len(sent)
  /\ Answer(FALSE, run, <<>>)
  /\ UNCHANGED <<sent, run, written, taken>>

BridgeNext ==
  \/ WriteOutput \/ AnswerSnapshot \/ AnswerRestart
  \/ AnswerWithoutOutput \/ AnswerError

\* The client sends a request, for the contract on its own.
Submit(what) ==
  /\ sent' = Append(sent, what)
  /\ UNCHANGED <<answered, replies, run, written, taken>>

BridgeSpec ==
  BridgeInit /\ [][BridgeNext \/ \E what \in Whats : Submit(what)]_bridgeVars
=============================================================================
