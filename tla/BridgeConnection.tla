-------------------------- MODULE BridgeConnection --------------------------
(***************************************************************************)
(* The client end of one bridge connection (sessions/connection.ts) over   *)
(* the bridge that BridgeContract describes: requests matched to replies   *)
(* by id, request timers, the pause sent after a timeout, late replies and *)
(* the output they carry, disconnection, failure and closing.              *)
(*                                                                         *)
(* Node runs one callback at a time and drains the microtask queue after   *)
(* each.  readline, though, emits every line of a chunk in one callback:   *)
(* a reply's continuation (claimOutput, keepOutput) waits in "microtasks"  *)
(* while the next lines of the same chunk are received.                    *)
(***************************************************************************)
EXTENDS BridgeContract, FiniteSets, SequencesExt

CONSTANTS
  MaxRequests,  \* bounds the requests made by callers
  Asked,        \* what callers ask for
  Owners        \* who owns the connection: "headless" is told of a disconnection
                \* and fails it itself (HeadlessSession); "live" has it fail at once

ASSUME ConnectionAssumption ==
  /\ MaxRequests \in Nat
  /\ Asked \subseteq Whats
  /\ Owners \subseteq {"headless", "live"}

VARIABLES
  pending,     \* ids of the requests waiting for a reply
  timedOut,    \* ids given up on whose reply has not come
  interrupts,  \* ids of the pauses the connection sent itself
  microtasks,  \* replies received whose continuation has not run
  unclaimed,   \* output of late replies, for the next reply waited for
  failure,     \* "none", or why the connection failed
  closed,      \* the connection was ended on purpose
  broken,      \* the socket has gone, and the owner was told
  outcome,     \* history: how each request settled, "waiting" until it does
  handed       \* history: the replies with output given to callers

clientVars == <<pending, timedOut, interrupts, microtasks, unclaimed,
                failure, closed, broken, outcome, handed>>
vars == <<bridgeVars, clientVars>>

Ids == 1 .. Len(sent)
Open == failure = "none" /\ ~closed
\* Where a callback may start: the continuations of the last one have run.
Idle == microtasks = <<>>

Failures == {"unanswered", "protocol", "disconnected", "exited"}
Outcomes == {"waiting", "answered", "refused", "timedOut", "failed", "closed"}
Batch == [run : Nat, out : Seq(Piece)]

TypeOK ==
  /\ sent \in Seq(Whats)
  /\ answered \in Nat /\ answered <= Len(sent)
  /\ replies \in Seq(Reply)
  /\ run \in Nat /\ written \in Nat /\ taken \in Nat
  /\ pending \subseteq Ids /\ timedOut \subseteq Ids /\ interrupts \subseteq Ids
  /\ microtasks \in Seq(Reply)
  /\ unclaimed \in Seq(Piece)
  /\ failure \in Failures \cup {"none"}
  /\ closed \in BOOLEAN /\ broken \in BOOLEAN
  /\ outcome \in [Ids -> Outcomes]
  /\ handed \in Seq(Batch)

Init ==
  /\ BridgeInit
  /\ pending = {} /\ timedOut = {} /\ interrupts = {}
  /\ microtasks = <<>> /\ unclaimed = <<>>
  /\ failure = "none" /\ closed = FALSE /\ broken = FALSE
  /\ outcome = [id \in Ids |-> "waiting"]
  /\ handed = <<>>

-----------------------------------------------------------------------------
(* Sending, and ending the connection *)

\* The outcomes with one more request, the next to be sent.
WithNext(outcomes) ==
  [id \in 1 .. Len(sent) + 1 |-> IF id \in Ids THEN outcomes[id] ELSE "waiting"]

\* Faulty variants: every request is rejected, settled or not; and none is.
RejectedAll(waiting, how) == [id \in Ids |-> how]
RejectedNone(waiting, how) == outcome
\* rejectPending: every request still in "waiting" settles as "how".
Rejected(waiting, how) == [id \in Ids |-> IF id \in waiting THEN how ELSE outcome[id]]

\* The session's queue (QueuedBackend) makes one request at a time, but a pause
\* goes straight through.
Turn(what) ==
  \/ what = "pause"
  \/ \A id \in Ids : sent[id] = "pause" \/ outcome[id] # "waiting"

\* request: one that is refused because the connection has ended changes nothing.
Request(what) ==
  /\ Open /\ Idle /\ Turn(what)
  /\ Len(sent) - Cardinality(interrupts) < MaxRequests
  /\ sent' = Append(sent, what)
  /\ pending' = pending \cup {Len(sent) + 1}
  /\ outcome' = WithNext(outcome)
  /\ UNCHANGED <<answered, replies, run, written, taken, timedOut, interrupts,
                 microtasks, unclaimed, failure, closed, broken, handed>>

\* Faulty variant: the requests still waiting are dropped and not rejected.
FailForgets(why) == Open /\ failure' = why /\ pending' = {} /\ UNCHANGED outcome
\* fail: only the first failure counts, and none after a close.
Fail(why) ==
  /\ Open
  /\ failure' = why
  /\ outcome' = Rejected(pending, "failed")
  /\ pending' = {}

Close ==
  /\ Open /\ Idle
  /\ closed' = TRUE
  /\ outcome' = Rejected(pending, "closed")
  /\ pending' = {}
  /\ UNCHANGED <<bridgeVars, timedOut, interrupts, microtasks, unclaimed,
                 failure, broken, handed>>

-----------------------------------------------------------------------------
(* Timers: all last timeoutMs, so they run out in the order they were set *)

\* Faulty variant: timers of different lengths.
AnyTimesOut(id) == id \in pending
NextToTimeOut(id) == id \in pending /\ \A other \in pending : id <= other

\* A caller's request runs out of time: it is rejected, and a pause is sent.
RequestTimesOut(id) ==
  /\ Idle
  /\ NextToTimeOut(id) /\ id \notin interrupts
  /\ timedOut' = timedOut \cup {id}
  /\ sent' = Append(sent, "pause")
  /\ interrupts' = interrupts \cup {Len(sent) + 1}
  /\ pending' = (pending \ {id}) \cup {Len(sent) + 1}
  /\ outcome' = WithNext([outcome EXCEPT ![id] = "timedOut"])
  /\ UNCHANGED <<answered, replies, run, written, taken, microtasks, unclaimed,
                 failure, closed, broken, handed>>

\* Faulty variant: an unanswered pause is ignored.
InterruptIgnored(id) ==
  /\ Idle /\ Open
  /\ NextToTimeOut(id) /\ id \in interrupts
  /\ timedOut' = timedOut \cup {id}
  /\ pending' = pending \ {id}
  /\ outcome' = [outcome EXCEPT ![id] = "timedOut"]
  /\ UNCHANGED <<bridgeVars, interrupts, microtasks, unclaimed, failure, closed, broken, handed>>
\* The pause runs out of time too: the bridge has stopped answering.
InterruptTimesOut(id) ==
  /\ Idle /\ Open
  /\ NextToTimeOut(id) /\ id \in interrupts
  /\ timedOut' = timedOut \cup {id}
  /\ failure' = "unanswered"
  /\ pending' = {}
  /\ outcome' = [Rejected(pending, "failed") EXCEPT ![id] = "timedOut"]
  /\ UNCHANGED <<bridgeVars, interrupts, microtasks, unclaimed, closed, broken, handed>>

TimeOut == \E id \in pending : RequestTimesOut(id) \/ InterruptTimesOut(id)

-----------------------------------------------------------------------------
(* Receiving: the line of one reply, then its continuation *)

\* Faulty variant: a reply nobody waits for is ignored, output and all.
KeptNothing(reply) == unclaimed
\* keepOutput: the output of a reply nobody waits for.
Kept(reply) == IF reply.ok THEN unclaimed \o reply.out ELSE unclaimed

ReceiveWaitedFor ==
  /\ replies # <<>> /\ Head(replies).id \in pending
  /\ replies' = Tail(replies)
  /\ pending' = pending \ {Head(replies).id}
  /\ microtasks' = Append(microtasks, Head(replies))
  /\ UNCHANGED <<sent, answered, run, written, taken, timedOut, interrupts,
                 unclaimed, failure, closed, broken, outcome, handed>>

ReceiveLate ==
  /\ replies # <<>> /\ Head(replies).id \in timedOut
  /\ replies' = Tail(replies)
  /\ timedOut' = timedOut \ {Head(replies).id}
  /\ unclaimed' = Kept(Head(replies))
  /\ UNCHANGED <<sent, answered, run, written, taken, pending, interrupts,
                 microtasks, failure, closed, broken, outcome, handed>>

\* The reply to a request that a failure or a close has rejected.
ReceiveUnknown ==
  /\ replies # <<>> /\ Head(replies).id \notin pending \cup timedOut
  /\ replies' = Tail(replies)
  /\ UNCHANGED <<sent, answered, run, written, taken, clientVars>>

\* A line that is not JSON.
ReceiveGarbage ==
  /\ ~broken
  /\ Fail("protocol")
  /\ UNCHANGED <<bridgeVars, timedOut, interrupts, microtasks, unclaimed,
                 closed, broken, handed>>

\* The output a caller gets with a successful reply, and what stays unclaimed.
ClaimedWith(reply) ==
  IF RestartsOutput(sent[reply.id]) THEN reply.out ELSE unclaimed \o reply.out
LeftBy(reply) ==
  IF RestartsOutput(sent[reply.id]) \/ HandsOverOutput(sent[reply.id])
  THEN <<>> ELSE unclaimed

\* The continuation of a caller's request: claimOutput, or the bridge's error.
SettleRequest ==
  /\ microtasks # <<>> /\ Head(microtasks).id \notin interrupts
  /\ LET reply == Head(microtasks) IN
       \/ /\ reply.ok
          /\ unclaimed' = LeftBy(reply)
          /\ handed' = IF HandsOverOutput(sent[reply.id])
                       THEN Append(handed, [run |-> reply.run, out |-> ClaimedWith(reply)])
                       ELSE handed
          /\ outcome' = [outcome EXCEPT ![reply.id] = "answered"]
       \/ /\ ~reply.ok
          /\ outcome' = [outcome EXCEPT ![reply.id] = "refused"]
          /\ UNCHANGED <<unclaimed, handed>>
  /\ microtasks' = Tail(microtasks)
  /\ UNCHANGED <<bridgeVars, pending, timedOut, interrupts, failure, closed, broken>>

\* The continuation of the connection's own pause; its error needs nothing.
SettleInterrupt ==
  /\ microtasks # <<>> /\ Head(microtasks).id \in interrupts
  /\ LET reply == Head(microtasks) IN
       /\ unclaimed' = Kept(reply)
       /\ outcome' = [outcome EXCEPT ![reply.id] = IF reply.ok THEN "answered" ELSE "refused"]
  /\ microtasks' = Tail(microtasks)
  /\ UNCHANGED <<bridgeVars, pending, timedOut, interrupts, failure, closed, broken, handed>>

RunMicrotask == SettleRequest \/ SettleInterrupt

-----------------------------------------------------------------------------
(* The socket goes, and the owner's part in it *)

\* Replies not yet read are lost with the socket.
Disconnected ==
  /\ Idle /\ Open /\ ~broken
  /\ broken' = TRUE
  /\ replies' = <<>>
  /\ \/ /\ "headless" \in Owners
        /\ UNCHANGED <<failure, outcome, pending>>
     \/ /\ "live" \in Owners
        /\ Fail("disconnected")
  /\ UNCHANGED <<sent, answered, run, written, taken, timedOut, interrupts,
                 microtasks, unclaimed, closed, handed>>

\* HeadlessSession fails the connection when the bridge process ends, or when it
\* has not ended within the grace period after a disconnection.
OwnerFails ==
  /\ "headless" \in Owners /\ Idle
  /\ \/ Fail("exited")
     \/ broken /\ Fail("disconnected")
  /\ UNCHANGED <<bridgeVars, timedOut, interrupts, microtasks, unclaimed,
                 closed, broken, handed>>

\* The bridge works and answers while the socket is there.
Bridge ==
  /\ failure = "none" /\ ~broken
  /\ BridgeNext
  /\ UNCHANGED clientVars

Next ==
  \/ \E what \in Asked : Request(what)
  \/ TimeOut
  \/ ReceiveWaitedFor \/ ReceiveLate \/ ReceiveUnknown \/ ReceiveGarbage
  \/ RunMicrotask
  \/ Close \/ Disconnected \/ OwnerFails
  \/ Bridge

Spec == Init /\ [][Next]_vars

\* Timers that have run out fire and the microtask queue is drained; nothing is
\* assumed of the bridge, the network or the callers.
FairSpec == Spec /\ WF_vars(TimeOut) /\ WF_vars(RunMicrotask)

-----------------------------------------------------------------------------
(* Safety *)

IdsOf(seq) == {seq[i].id : i \in DOMAIN seq}
Received == answered - Len(replies)

(***************************************************************************)
(* Every reply is claimed or kept in the order the bridge made it, though  *)
(* a late reply is kept at once and a reply waited for is claimed in a     *)
(* microtask: when such a microtask waits, no reply still to come is late. *)
(* (claimOutput and keepOutput would otherwise swap two pieces of output.) *)
(***************************************************************************)
NoOvertaking == microtasks # <<>> => timedOut = {}

(***************************************************************************)
(* Why: replies come in the order of the requests and timers run out in    *)
(* that order too, so the ids fall into the replies received, then the     *)
(* requests given up on, then those still waiting.                         *)
(***************************************************************************)
InOrder ==
  /\ \A i \in DOMAIN replies : replies[i].id = Received + i
  /\ broken => replies = <<>>
  /\ ~broken => \A id \in pending \cup timedOut : id > Received
  /\ \A late \in timedOut : \A id \in pending : late < id
  /\ \A i \in DOMAIN microtasks : microtasks[i].id <= Received
  /\ \A i, j \in DOMAIN microtasks : i < j => microtasks[i].id < microtasks[j].id
  /\ \A i \in DOMAIN microtasks : \A id \in pending : microtasks[i].id < id

(***************************************************************************)
(* A request's promise is unsettled exactly while the request waits for a  *)
(* reply or its continuation is queued: no failure, close, timeout or late *)
(* reply forgets one, and none waits on after it settled.                  *)
(***************************************************************************)
WaitingIsAccountedFor ==
  \A id \in Ids : outcome[id] = "waiting" <=> id \in pending \cup IdsOf(microtasks)

\* All the output in a sequence of batches or replies, and of it that of run r.
OutsOf(seq) == FlattenSeq([i \in DOMAIN seq |-> seq[i].out])
OfRun(pieces, r) == FlattenSeq([i \in DOMAIN pieces |-> IF pieces[i].run = r THEN <<pieces[i]>> ELSE <<>>])

\* The output of the current run, from the callers back to the bridge.
Pieces == OutsOf(handed) \o unclaimed \o OutsOf(microtasks) \o OutsOf(replies)
Trail == OfRun(Pieces, run)

(***************************************************************************)
(* While the connection lasts, the pieces of the current run that callers  *)
(* got, that wait unclaimed, and that are on their way are, in this order, *)
(* exactly what the bridge handed over: no request that timed out, was     *)
(* paused or failed loses, repeats or reorders a chunk of output.          *)
(***************************************************************************)
OutputConserved ==
  Open /\ ~broken =>
    /\ \A i \in 2 .. Len(Trail) : Trail[i].from = Trail[i - 1].to
    /\ IF Trail = <<>> THEN taken = 0
       ELSE Trail[1].from = 0 /\ Trail[Len(Trail)].to = taken

(***************************************************************************)
(* connection.ts says: "Output starts again from a load or a reset, so     *)
(* what an earlier run wrote is not added to it."  The output a caller     *)
(* gets is all of the run its request was answered in.                     *)
(***************************************************************************)
NoOutputOfEarlierRun ==
  \A i \in DOMAIN handed :
    \A j \in DOMAIN handed[i].out : handed[i].out[j].run = handed[i].run

\* A promise settles once: a request that timed out is not answered by its late
\* reply, and one that a failure rejected is not answered by what is still read.
SettlesOnce ==
  [][\A id \in Ids : outcome[id] # "waiting" => outcome'[id] = outcome[id]]_vars

-----------------------------------------------------------------------------
(* Liveness *)

\* Every request settles, whatever the bridge, the network and the owner do.
EverySettles ==
  \A id \in 1 .. 2 * MaxRequests :
    (id \in Ids) ~> (id \in Ids /\ outcome[id] # "waiting")

\* A bridge that never answers the request it is at makes the connection end:
\* the timers alone are enough, and no session stays open on a hung bridge.
HungBridgeEnds ==
  \A n \in 0 .. 2 * MaxRequests :
    (answered = n /\ n < Len(sent)) ~> (answered > n \/ ~Open)
=============================================================================
