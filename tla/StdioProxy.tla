------------------------------ MODULE StdioProxy ------------------------------
(***************************************************************************)
(* The stdio proxy (stdio-proxy.ts): each line of the client is posted to  *)
(* the HTTP server, one after the other, and what the server answers is    *)
(* written back; when it cannot be read, the client gets an error for the  *)
(* id of its line.  The end of the input ends the server's session.        *)
(***************************************************************************)
EXTENDS Naturals, SequencesExt

CONSTANTS
  MaxLines,  \* bound on the lines of the client
  Sessions,  \* session ids the server may give
  None

VARIABLES
  lines,      \* the kinds of the lines read
  line,       \* the one that is handled, None between two: its number and kind
  body,       \* the messages the server has sent for it and how the exchange ended, None before it answers
  heard,      \* history: the body of every line that was handled
  written,    \* what was written to the client
  sessionId,  \* the session the proxy knows of, None for none
  opened,     \* the last one the server gave
  phase       \* "reading", "closing", "closed", or "crashed"

vars == <<lines, line, body, heard, written, sessionId, opened, phase>>

\* A response is the client's answer to what the server asked; a batch is an array, a primitive any other JSON.
Kinds == {"request", "notification", "response", "batch", "primitive", "malformed"}
Progress(id) == [for |-> id, is |-> "progress"]
Reply(id) == [for |-> id, is |-> "result"]
\* The server's own error for a post it does not take: it names no id, "for" only says which line it met.
Refusal(id) == [for |-> id, is |-> "refusal"]
Error(id) == [for |-> id, is |-> "error"]
\* How an exchange ends: a body that ends where a message does, one that does not, breaks off or is not MCP, or none.
Ends == {"whole", "broken", "unreachable"}

Init ==
  /\ lines = <<>> /\ line = None /\ body = None /\ heard = <<>> /\ written = <<>>
  /\ sessionId = None /\ opened = None /\ phase = "reading"

ReadLine ==
  /\ phase = "reading" /\ line = None /\ Len(lines) < MaxLines
  /\ \E kind \in Kinds :
       /\ lines' = Append(lines, kind)
       /\ line' = [id |-> Len(lines) + 1, kind |-> kind]
  /\ UNCHANGED <<body, heard, written, sessionId, opened, phase>>

\* External: what the server sends for a line.  A stream may stop before the reply, when its handler is closed.
Messages(l) ==
  {<<Refusal(l.id)>>} \cup
  (IF l.kind \in {"request", "batch"}
   THEN {<<>>, <<Progress(l.id)>>, <<Reply(l.id)>>, <<Progress(l.id), Reply(l.id)>>}
   ELSE IF l.kind = "primitive" THEN {} ELSE {<<>>})
Answers(l) == [messages : Messages(l), end : Ends]

\* Assumed of the constants where they are given values: None is no session, no line and no answer.
ProxyAssumption ==
  /\ MaxLines \in Nat /\ None \notin Sessions
  /\ \A id \in 1 .. MaxLines, kind \in Kinds :
       LET l == [id |-> id, kind |-> kind] IN None # l /\ None \notin Answers(l)

\* Faulty variant: the messages are written as they are read.
WrittenAsRead(answer) == IF answer.end = "unreachable" THEN <<>> ELSE answer.messages
\* The body is read to its end before the first message is; that a reply is among them is not looked at.
WrittenOf(answer) == IF answer.end = "whole" THEN answer.messages ELSE <<>>

SessionAfter(given) == IF given = None THEN sessionId ELSE given

Post ==
  /\ line # None /\ line.kind # "malformed" /\ body = None
  /\ \E answer \in Answers(line), given \in Sessions \cup {None} :
       /\ answer.end = "unreachable" => given = None
       /\ body' = answer
       /\ opened' = IF given = None THEN opened ELSE given
       /\ sessionId' = SessionAfter(given)
  /\ UNCHANGED <<lines, line, heard, written, phase>>

Settled == body # None \/ line.kind = "malformed"

\* 'id' in parsed: not of an array, and {} stands for what does not parse.
HasId(l) == l.kind \in {"request", "response"}
Failed == line.kind = "malformed" \/ (body # None /\ body.end # "whole")
\* 'in' throws on what is no object, in the catch, which ends the process.
Throws == Failed /\ line.kind = "primitive"

WriteAnswer ==
  /\ line # None /\ Settled
  /\ written' = written \o (IF body = None THEN <<>> ELSE WrittenOf(body))
                        \o (IF Failed /\ HasId(line) THEN <<Error(line.id)>> ELSE <<>>)
  /\ phase' = IF Throws THEN "crashed" ELSE phase
  /\ line' = None /\ body' = None /\ heard' = Append(heard, body)
  /\ UNCHANGED <<lines, sessionId, opened>>

InputEnds ==
  /\ phase = "reading" /\ line = None
  /\ phase' = "closing"
  /\ UNCHANGED <<lines, line, body, heard, written, sessionId, opened>>

\* DELETE: the server forgets the session.  One that cannot be reached is left out here, and ignored by the code.
Close ==
  /\ phase = "closing"
  /\ phase' = "closed"
  /\ opened' = IF opened = sessionId THEN None ELSE opened
  /\ UNCHANGED <<lines, line, body, heard, written, sessionId>>

Next == ReadLine \/ Post \/ WriteAnswer \/ InputEnds \/ Close
Spec == Init /\ [][Next]_vars
-----------------------------------------------------------------------------
Handled == DOMAIN heard
\* What the client may be told for line i: all that the server sent, or, when that failed, one error for its id.
Owed(i) ==
  IF heard[i] # None /\ heard[i].end = "whole" THEN heard[i].messages
  ELSE IF lines[i] \in {"request", "response"} THEN <<Error(i)>> ELSE <<>>
Answered(i) == \E p \in DOMAIN written : written[p].for = i /\ written[p].is \in {"result", "error"}
\* The exchange for it ended without a fault and without its reply.
LeftByTheServer(i) ==
  heard[i].end = "whole" /\ \A p \in DOMAIN heard[i].messages : heard[i].messages[p].is # "result"

(***************************************************************************)
(* The lines are answered in their order, each with all that the server    *)
(* sent for it or, when that did not come whole, with one error and        *)
(* nothing else, and a request is left without either only where the       *)
(* server ended its exchange without a reply: the client is never told     *)
(* twice, nor in the wrong order, nor an error beside a reply, and no      *)
(* failure of the connection leaves it waiting.                            *)
(***************************************************************************)
AnsweredOnceInOrder ==
  /\ written = FlattenSeq([i \in Handled |-> Owed(i)])
  /\ \A i \in Handled : lines[i] = "request" => Answered(i) \/ LeftByTheServer(i)

(***************************************************************************)
(* When the proxy is done the server keeps no session of it: the last one  *)
(* it gave is the one that is ended.  A proxy that crashed ends none.      *)
(***************************************************************************)
SessionEnded == phase = "closed" => opened = None
=============================================================================
