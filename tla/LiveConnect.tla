----------------------------- MODULE LiveConnect -----------------------------
(***************************************************************************)
(* rars_live_connect: what it finds in the two files the desktop launcher  *)
(* writes (live/discovery.ts, scripts/launch-rars-mcp.command) and the     *)
(* connection it makes with them (live/client.ts).  The launcher may be    *)
(* started again, also while a desktop session still runs, and a file may  *)
(* be read at any moment of its rewriting.  Each launch is a desktop       *)
(* session; its token is named after the launch that wrote it, and a port  *)
(* is what a session listens at while it runs and another one may get      *)
(* later.  The Java server behind it is BridgeServer's.                    *)
(***************************************************************************)
EXTENDS Naturals

CONSTANTS
  Desktops,      \* launches of the desktop session
  Ports,
  Incompatible,  \* desktop sessions of another protocol or mode
  Connects,      \* calls of rars_live_connect
  Nobody         \* of a file that is missing, empty or half written

\* Assumed of the constants where they are given values.
LiveAssumption == Incompatible \subseteq Desktops /\ Nobody \notin Desktops \cup Ports

VARIABLES
  desktops,  \* each: [state, token, port]
  tokenFile, portFile,  \* what the discovery files hold
  connects   \* each: [state, token, port, socket, disturbed, writer], the last two history

vars == <<desktops, tokenFile, portFile, connects>>

Init ==
  /\ desktops = [d \in Desktops |-> [state |-> "unused", token |-> Nobody, port |-> Nobody]]
  /\ tokenFile = Nobody /\ portFile = Nobody
  /\ connects = [c \in Connects |-> [state |-> "unused", token |-> Nobody, port |-> Nobody, socket |-> Nobody,
                                     disturbed |-> FALSE, writer |-> Nobody]]

Trying(c) == connects[c].state \in {"reading", "connecting", "greeting"}
\* The launcher or its desktop session did something: whoever connects just now may notice.
Disturbs == connects' = [c \in Connects |-> IF Trying(c) THEN [connects[c] EXCEPT !.disturbed = TRUE] ELSE connects[c]]
Becomes(d, state) == desktops' = [desktops EXCEPT ![d].state = state]
-----------------------------------------------------------------------------
(* The launcher *)

\* A redirection empties the file before it is written.
EmptyToken(d) ==
  /\ desktops[d].state = "unused"
  /\ tokenFile' = Nobody /\ Becomes(d, "making token") /\ Disturbs /\ UNCHANGED portFile
WriteToken(d) ==
  /\ desktops[d].state = "making token"
  /\ tokenFile' = d /\ Becomes(d, "token written") /\ Disturbs /\ UNCHANGED portFile

\* The launcher reads the token back, and takes the port file of the session before away.
RemovePort(d) ==
  /\ desktops[d].state = "token written"
  /\ portFile' = Nobody
  /\ desktops' = [desktops EXCEPT ![d].state = "starting", ![d].token = tokenFile]
  /\ Disturbs /\ UNCHANGED tokenFile

Listening(port) == {d \in Desktops : desktops[d].port = port /\ desktops[d].state \in {"listening", "announcing", "running"}}
Listen(d) ==
  /\ desktops[d].state = "starting"
  /\ \E p \in Ports : Listening(p) = {} /\ desktops' = [desktops EXCEPT ![d].state = "listening", ![d].port = p]
  /\ Disturbs /\ UNCHANGED <<tokenFile, portFile>>
EmptyPort(d) ==
  /\ desktops[d].state = "listening"
  /\ portFile' = Nobody /\ Becomes(d, "announcing") /\ Disturbs /\ UNCHANGED tokenFile
WritePort(d) ==
  /\ desktops[d].state = "announcing"
  /\ portFile' = d /\ Becomes(d, "running") /\ Disturbs /\ UNCHANGED tokenFile

\* The window is closed; the files stay.
DesktopEnds(d) ==
  /\ desktops[d].state \in {"listening", "announcing", "running"}
  /\ Becomes(d, "ended") /\ Disturbs /\ UNCHANGED <<tokenFile, portFile>>
-----------------------------------------------------------------------------
(* discoverLiveSession and LiveClient.connect *)

\* The files are of one desktop session that runs and speaks as this client does.
Settled ==
  /\ tokenFile # Nobody /\ portFile # Nobody
  /\ desktops[portFile].state = "running" /\ desktops[portFile].token = tokenFile
  /\ portFile \notin Incompatible

Begin(c) ==
  /\ connects[c].state = "unused"
  /\ connects' = [connects EXCEPT ![c].state = "reading", ![c].disturbed = ~Settled]
  /\ UNCHANGED <<desktops, tokenFile, portFile>>

Fails(c, why) == connects' = [connects EXCEPT ![c].state = why, ![c].socket = Nobody]

\* Both files are read, in either order; one that is missing or not as it should be ends the call.
ReadToken(c) ==
  /\ connects[c].state = "reading" /\ connects[c].token = Nobody
  /\ IF tokenFile = Nobody THEN Fails(c, "invalid") ELSE connects' = [connects EXCEPT ![c].token = tokenFile]
  /\ UNCHANGED <<desktops, tokenFile, portFile>>
ReadPort(c) ==
  /\ connects[c].state = "reading" /\ connects[c].port = Nobody
  /\ IF portFile = Nobody THEN Fails(c, "invalid")
     ELSE connects' = [connects EXCEPT ![c].port = desktops[portFile].port, ![c].writer = portFile]
  /\ UNCHANGED <<desktops, tokenFile, portFile>>
Discovered(c) ==
  /\ connects[c].state = "reading" /\ connects[c].token # Nobody /\ connects[c].port # Nobody
  /\ connects' = [connects EXCEPT ![c].state = "connecting"]
  /\ UNCHANGED <<desktops, tokenFile, portFile>>

\* Faulty variant: any error of the socket is taken for a refusal.
AnyErrorIsStale(c) == TRUE
RefusalIsStale(c) == Listening(connects[c].port) = {}

\* Nobody listens, and the connection is refused; or it fails for another reason.
Connect(c) ==
  /\ connects[c].state = "connecting"
  /\ \/ \E d \in Listening(connects[c].port) : connects' = [connects EXCEPT ![c].state = "greeting", ![c].socket = d]
     \/ Listening(connects[c].port) = {} /\ Fails(c, "stale")
     \/ Fails(c, IF RefusalIsStale(c) THEN "stale" ELSE "unreachable")
  /\ UNCHANGED <<desktops, tokenFile, portFile>>

AnswersAsLive(c) == connects[c].socket \notin Incompatible

\* The reply to hello, which may come too late or not at all; add makes the connection a session.
Hello(c) ==
  LET d == connects[c].socket IN
  /\ connects[c].state = "greeting"
  /\ \/ /\ desktops[d].state # "ended" /\ desktops[d].token = connects[c].token
        /\ IF AnswersAsLive(c) THEN connects' = [connects EXCEPT ![c].state = "session"] ELSE Fails(c, "incompatible")
     \/ desktops[d].state # "ended" /\ desktops[d].token # connects[c].token /\ Fails(c, "unauthorized")
     \/ Fails(c, "no answer")
  /\ UNCHANGED <<desktops, tokenFile, portFile>>

ConnectSteps(c) == ReadToken(c) \/ ReadPort(c) \/ Discovered(c) \/ Connect(c) \/ Hello(c)
Next ==
  \/ \E d \in Desktops : EmptyToken(d) \/ WriteToken(d) \/ RemovePort(d) \/ Listen(d) \/ EmptyPort(d) \/ WritePort(d)
                         \/ DesktopEnds(d)
  \/ \E c \in Connects : Begin(c) \/ ConnectSteps(c)
-----------------------------------------------------------------------------
(***************************************************************************)
(* A session is with a desktop session of this protocol and mode that has  *)
(* the token of the files, though files and ports change hands while they  *)
(* are read; a call that failed keeps no connection.                       *)
(***************************************************************************)
SessionIsLive == \A c \in Connects :
  /\ connects[c].state = "session" =>
       connects[c].socket \in Desktops \ Incompatible /\ desktops[connects[c].socket].token = connects[c].token
  /\ connects[c].state \notin {"greeting", "session"} => connects[c].socket = Nobody

(***************************************************************************)
(* "The discovery files point at a RARS desktop session that is no longer  *)
(* running" is said only when the one that wrote the port has ended; and   *)
(* no call fails over the files or its token while neither they nor the    *)
(* session behind them change.                                             *)
(***************************************************************************)
StaleHasEnded == \A c \in Connects :
  /\ connects[c].state = "stale" => desktops[connects[c].writer].state = "ended"
  /\ connects[c].state \in {"invalid", "stale", "unauthorized", "incompatible"} => connects[c].disturbed
=============================================================================
