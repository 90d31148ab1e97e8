---------------------------- MODULE WorkspaceRoots ----------------------------
(***************************************************************************)
(* The client's roots as the workspace sees them (workspace.ts, and        *)
(* server.ts where the client asks to be asked): one answer to roots/list  *)
(* is shared by all calls until the client says that its roots changed; an *)
(* answer that fails is forgotten.  Every read takes time: the client      *)
(* answers, then each folder is looked up.  Roots are abstracted to a      *)
(* version that grows as the client changes them.  Several servers of one  *)
(* workspace (http.ts makes one for each session) may ask to be asked, the *)
(* last of them being the one that is.                                     *)
(***************************************************************************)
EXTENDS Naturals, Sequences, FiniteSets

CONSTANTS
  Calls,       \* calls that resolve a path
  Reads,       \* reads of the client's roots
  MaxVersion,  \* bounds how often the client changes its roots
  MaxServers,  \* bounds the servers of the workspace whose client has roots
  NoRead

ASSUME RootsAssumption == NoRead \notin Reads /\ MaxVersion \in Nat /\ MaxServers \in Nat

VARIABLES
  version,   \* the client's roots now
  toServer,  \* messages of the client: notifications and answers, in order
  provider,  \* the server that asks, in the order they were initialized: 0 as long as no client advertises roots
  provided,  \* the read whose answer is reused
  reads,     \* each read: [state, roots, begun, by], by the server that asked
  calls,     \* each call: [state, read, since, by], since and by are history
  known      \* history: the version of the last change the server was told of

vars == <<version, toServer, provider, provided, reads, calls, known>>

ReadStates == {"unused", "asked", "resolving", "done", "failed"}
CallStates == {"unused", "waiting", "done", "failed"}
Changed(v) == [type |-> "changed", read |-> NoRead, roots |-> v]
Answer(r, v) == [type |-> "answer", read |-> r, roots |-> v]
Refusal(r) == [type |-> "refusal", read |-> r, roots |-> 0]
Messages == [type : {"changed", "answer", "refusal"}, read : Reads \cup {NoRead}, roots : Nat]

TypeOK ==
  /\ version \in Nat /\ known \in Nat
  /\ toServer \in Seq(Messages)
  /\ provider \in Nat
  /\ provided \in Reads \cup {NoRead}
  /\ reads \in [Reads -> [state : ReadStates, roots : Nat, begun : Nat, by : Nat]]
  /\ calls \in [Calls -> [state : CallStates, read : Reads \cup {NoRead}, since : Nat, by : Nat]]
  /\ \A c \in Calls : calls[c].state = "waiting" =>
       calls[c].read # NoRead /\ reads[calls[c].read].state # "unused"

Init ==
  /\ version = 0 /\ known = 0
  /\ toServer = <<>>
  /\ provider = 0 /\ provided = NoRead
  /\ reads = [r \in Reads |-> [state |-> "unused", roots |-> 0, begun |-> 0, by |-> 0]]
  /\ calls = [c \in Calls |-> [state |-> "unused", read |-> NoRead, since |-> 0, by |-> 0]]
-----------------------------------------------------------------------------
\* The client changes its roots and says so.
ClientChanges ==
  /\ version < MaxVersion
  /\ version' = version + 1
  /\ toServer' = Append(toServer, Changed(version + 1))
  /\ UNCHANGED <<provider, provided, reads, calls, known>>

\* The client answers roots/list with the roots it has, or fails to; once for each read.
ClientAnswers(r) ==
  /\ reads[r].state = "asked"
  /\ \A i \in DOMAIN toServer : toServer[i].read # r
  /\ \E m \in {Answer(r, version), Refusal(r)} : toServer' = Append(toServer, m)
  /\ UNCHANGED <<version, provider, provided, reads, calls, known>>

\* server.oninitialized: from now on the client of this server is asked.
UseRootsProvider ==
  /\ provider < MaxServers
  /\ provider' = provider + 1 /\ provided' = NoRead
  /\ UNCHANGED <<version, toServer, reads, calls, known>>

\* Faulty variant: a change is ignored while an answer is awaited.
ForgotSettled == IF provided # NoRead /\ reads[provided].state \in {"asked", "resolving"} THEN provided ELSE NoRead
Forgot == NoRead

RootsChanged ==
  /\ toServer # <<>> /\ Head(toServer).type = "changed"
  /\ toServer' = Tail(toServer)
  /\ provided' = Forgot
  /\ known' = Head(toServer).roots
  /\ UNCHANGED <<version, provider, reads, calls>>

\* Faulty variant: any failure forgets the answer in use.
AfterAnyFailure(r) == NoRead
AfterFailure(r) == IF provided = r THEN NoRead ELSE provided

ReadFails(r) ==
  /\ reads' = [reads EXCEPT ![r].state = "failed"]
  /\ provided' = AfterFailure(r)

\* The answer arrives, and its folders are looked up one by one; a refusal fails the read.
ReadAnswered ==
  /\ toServer # <<>> /\ Head(toServer).type \in {"answer", "refusal"}
  /\ toServer' = Tail(toServer)
  /\ LET m == Head(toServer) IN
       \/ /\ m.type = "answer"
          /\ reads' = [reads EXCEPT ![m.read].state = "resolving", ![m.read].roots = m.roots]
          /\ UNCHANGED provided
       \/ m.type = "refusal" /\ ReadFails(m.read)
  /\ UNCHANGED <<version, provider, calls, known>>

\* A root that cannot be used is skipped: looking folders up never fails.
ReadResolves(r) ==
  /\ reads[r].state = "resolving"
  /\ reads' = [reads EXCEPT ![r].state = "done"]
  /\ UNCHANGED <<version, toServer, provider, provided, calls, known>>

Asked == [state |-> "asked", roots |-> 0, begun |-> known, by |-> provider]
Waiting(r) == [state |-> "waiting", read |-> r, since |-> known, by |-> provider]

\* A call resolves a path: it waits for the answer in use, or asks for one.
CallBegins(c) ==
  /\ calls[c].state = "unused"
  /\ \/ /\ provider = 0
        /\ calls' = [calls EXCEPT ![c] = [Waiting(NoRead) EXCEPT !.state = "done"]]
        /\ UNCHANGED <<provided, reads>>
     \/ /\ provider # 0 /\ provided # NoRead
        /\ calls' = [calls EXCEPT ![c] = Waiting(provided)]
        /\ UNCHANGED <<provided, reads>>
     \/ /\ provider # 0 /\ provided = NoRead
        /\ \E r \in Reads :
             /\ reads[r].state = "unused"
             /\ reads' = [reads EXCEPT ![r] = Asked]
             /\ provided' = r
             /\ calls' = [calls EXCEPT ![c] = Waiting(r)]
  /\ UNCHANGED <<version, toServer, provider, known>>

CallEnds(c) ==
  /\ calls[c].state = "waiting"
  /\ reads[calls[c].read].state \in {"done", "failed"}
  /\ calls' = [calls EXCEPT ![c].state = reads[calls[c].read].state]
  /\ UNCHANGED <<version, toServer, provider, provided, reads, known>>

Next ==
  \/ ClientChanges \/ UseRootsProvider \/ RootsChanged \/ ReadAnswered
  \/ \E r \in Reads : ClientAnswers(r) \/ ReadResolves(r)
  \/ \E c \in Calls : CallBegins(c) \/ CallEnds(c)
Spec == Init /\ [][Next]_vars
-----------------------------------------------------------------------------
(***************************************************************************)
(* A call never uses roots older than a change the server had been told of *)
(* when the call began, nor those another server had asked for, though     *)
(* reads begun before the change may still be under way, and answers of    *)
(* theirs arrive after it.                                                 *)
(***************************************************************************)
RootsFresh ==
  \A c \in Calls : calls[c].state = "done" /\ calls[c].read # NoRead =>
    /\ reads[calls[c].read].roots >= calls[c].since
    /\ reads[calls[c].read].by = calls[c].by

(***************************************************************************)
(* "An answer is reused until the client says its roots changed"           *)
(* (workspace.ts): between two changes a server asks its client once,      *)
(* unless the read fails; a read that fails late takes nothing with it.    *)
(***************************************************************************)
AskedOnce ==
  \A r, s \in Reads :
    /\ {reads[r].state, reads[s].state} \subseteq {"asked", "resolving", "done"}
    /\ reads[r].begun = reads[s].begun /\ reads[r].by = reads[s].by
    => r = s

(***************************************************************************)
(* "A failed one is asked again on the next call": once a read has failed, *)
(* no call that begins waits for it.                                       *)
(***************************************************************************)
FailedIsAskedAgain ==
  provided # NoRead => reads[provided].state \in {"asked", "resolving", "done"}
=============================================================================
