----------------------- MODULE BridgeConnectionProofs -----------------------
(***************************************************************************)
(* Theorems about BridgeConnection, for every number of requests, runs and *)
(* chunks of output.                                                       *)
(***************************************************************************)
EXTENDS BridgeConnection, DataLemmas

LEMMA HeadAndTail ==
  ASSUME NEW S, NEW s \in Seq(S), s # <<>>
  PROVE  /\ Head(s) \in S /\ Head(s) = s[1] /\ 1 \in DOMAIN s
         /\ Tail(s) \in Seq(S)
         /\ Len(s) \in Nat \ {0} /\ Len(Tail(s)) = Len(s) - 1
         /\ \A i \in DOMAIN Tail(s) : i + 1 \in DOMAIN s /\ Tail(s)[i] = s[i + 1]
  OBVIOUS

LEMMA Appended ==
  ASSUME NEW S, NEW s \in Seq(S), NEW e \in S
  PROVE  Append(s, e) \in Seq(S)
  OBVIOUS

LEMMA OutOfReply ==
  ASSUME NEW reply \in Reply, TypeOK
  PROVE  /\ Kept(reply) \in Seq(Piece)
         /\ ClaimedWith(reply) \in Seq(Piece)
         /\ LeftBy(reply) \in Seq(Piece)
  BY DEF Kept, ClaimedWith, LeftBy, Reply, TypeOK

LEMMA OneMoreRequest ==
  ASSUME NEW outcomes \in [Ids -> Outcomes], TypeOK, NEW what \in Whats
  PROVE  /\ WithNext(outcomes) \in [1 .. Len(Append(sent, what)) -> Outcomes]
         /\ Append(sent, what) \in Seq(Whats)
         /\ Len(Append(sent, what)) = Len(sent) + 1
         /\ Len(sent) \in Nat
         /\ Ids \subseteq 1 .. Len(Append(sent, what))
         /\ Len(sent) + 1 \in 1 .. Len(Append(sent, what))
<1>1. /\ Append(sent, what) \in Seq(Whats)
      /\ Len(Append(sent, what)) = Len(sent) + 1
      /\ Len(sent) \in Nat
  BY DEF TypeOK
<1>2. WithNext(outcomes) \in [1 .. Len(sent) + 1 -> Outcomes]
  BY <1>1 DEF WithNext, Outcomes, Ids
<1> QED BY <1>1, <1>2 DEF Ids

LEMMA BridgeKeepsType == TypeOK /\ Bridge => TypeOK'
<1> SUFFICES ASSUME TypeOK, Bridge PROVE TypeOK'
  OBVIOUS
<1> USE DEF TypeOK, Ids
<1>1. CASE WriteOutput
  BY <1>1 DEF Bridge, WriteOutput, clientVars
<1>2. NewOutput \in Seq(Piece)
  <2>1. [run |-> run, from |-> taken, to |-> written] \in Piece
    BY DEF Piece
  <2> QED BY <2>1 DEF NewOutput
<1>3. ASSUME NEW ok \in BOOLEAN, NEW inRun \in Nat, NEW out \in Seq(Piece),
             Answer(ok, inRun, out), answered < Len(sent), sent' = sent
      PROVE  /\ answered' \in Nat /\ answered' <= Len(sent')
             /\ replies' \in Seq(Reply)
  BY <1>3 DEF Answer, Reply
<1>4. <<>> \in Seq(Piece)
  OBVIOUS
<1>5. CASE AnswerSnapshot
  BY <1>2, <1>3, <1>5 DEF Bridge, AnswerSnapshot, Executing, clientVars
<1>6. CASE AnswerRestart
  <2>1. run + 1 \in Nat
    OBVIOUS
  <2> QED BY <2>1, <1>4, <1>3, <1>6 DEF Bridge, AnswerRestart, Executing, clientVars
<1>7. CASE AnswerWithoutOutput
  BY <1>4, <1>3, <1>7 DEF Bridge, AnswerWithoutOutput, Executing, clientVars
<1>8. CASE AnswerError
  BY <1>4, <1>3, <1>8 DEF Bridge, AnswerError, Executing, clientVars
<1> QED BY <1>1, <1>5, <1>6, <1>7, <1>8 DEF Bridge, BridgeNext

\* The types of every variable are kept by every step.
THEOREM TypeCorrect == Spec => []TypeOK
<1>1. Init => TypeOK
  <2> SUFFICES ASSUME Init PROVE TypeOK
    OBVIOUS
  <2>1. Ids = {} /\ sent = <<>>
    BY DEF Ids, Init, BridgeInit
  <2>2. outcome \in [Ids -> Outcomes]
    BY <2>1 DEF Init, Outcomes
  <2>3. \A S : <<>> \in Seq(S)
    OBVIOUS
  <2>4. /\ sent \in Seq(Whats) /\ replies \in Seq(Reply) /\ microtasks \in Seq(Reply)
        /\ unclaimed \in Seq(Piece) /\ handed \in Seq(Batch)
    BY <2>3 DEF Init, BridgeInit
  <2>5. answered \in Nat /\ answered <= Len(sent) /\ run \in Nat /\ written \in Nat /\ taken \in Nat
    BY <2>1 DEF Init, BridgeInit
  <2> QED BY <2>2, <2>4, <2>5 DEF Init, TypeOK
<1>2. TypeOK /\ [Next]_vars => TypeOK'
  <2> SUFFICES ASSUME TypeOK, [Next]_vars PROVE TypeOK'
    OBVIOUS
  <2> USE DEF TypeOK, Ids
  <2>1. ASSUME NEW what \in Asked, Request(what) PROVE TypeOK'
    <3>1. what \in Whats /\ outcome \in [Ids -> Outcomes]
      BY ConnectionAssumption
    <3>2. outcome' \in [Ids' -> Outcomes]
      BY <2>1, <3>1, OneMoreRequest DEF Request
    <3>3. sent' \in Seq(Whats) /\ answered' <= Len(sent') /\ Ids \subseteq Ids' /\ Len(sent) + 1 \in Ids'
      BY <2>1, <3>1, OneMoreRequest DEF Request
    <3>4. pending' \subseteq Ids' /\ timedOut' \subseteq Ids' /\ interrupts' \subseteq Ids'
      BY <2>1, <3>3 DEF Request
    <3> QED BY <2>1, <3>2, <3>3, <3>4 DEF Request
  <2>2. CASE TimeOut
    <3>1. ASSUME NEW id \in pending, RequestTimesOut(id) PROVE TypeOK'
      <4>1. [outcome EXCEPT ![id] = "timedOut"] \in [Ids -> Outcomes] /\ "pause" \in Whats
        BY DEF Outcomes, Whats
      <4>2. outcome' \in [Ids' -> Outcomes]
        BY <3>1, <4>1, OneMoreRequest DEF RequestTimesOut
      <4>3. sent' \in Seq(Whats) /\ answered' <= Len(sent') /\ Ids \subseteq Ids' /\ Len(sent) + 1 \in Ids'
        BY <3>1, <4>1, OneMoreRequest DEF RequestTimesOut
      <4>4. pending' \subseteq Ids' /\ timedOut' \subseteq Ids' /\ interrupts' \subseteq Ids'
        BY <3>1, <4>3 DEF RequestTimesOut
      <4> QED BY <3>1, <4>2, <4>3, <4>4 DEF RequestTimesOut
    <3>2. ASSUME NEW id \in pending, InterruptTimesOut(id) PROVE TypeOK'
      BY <3>2 DEF InterruptTimesOut, Rejected, Outcomes, Failures, bridgeVars
    <3> QED BY <2>2, <3>1, <3>2 DEF TimeOut
  <2>3. CASE ReceiveWaitedFor
    <3>1. Head(replies) \in Reply /\ replies' \in Seq(Reply)
      BY <2>3, HeadAndTail DEF ReceiveWaitedFor
    <3>2. microtasks' \in Seq(Reply)
      BY <2>3, <3>1, Appended DEF ReceiveWaitedFor
    <3> QED BY <2>3, <3>1, <3>2 DEF ReceiveWaitedFor
  <2>4. CASE ReceiveLate
    <3>1. Head(replies) \in Reply /\ replies' \in Seq(Reply)
      BY <2>4, HeadAndTail DEF ReceiveLate
    <3>2. unclaimed' \in Seq(Piece)
      BY <2>4, <3>1, OutOfReply DEF ReceiveLate
    <3> QED BY <2>4, <3>1, <3>2 DEF ReceiveLate
  <2>5. CASE ReceiveUnknown
    BY <2>5, HeadAndTail DEF ReceiveUnknown, clientVars
  <2>6. CASE ReceiveGarbage
    BY <2>6 DEF ReceiveGarbage, Fail, Rejected, Outcomes, Failures, bridgeVars
  <2>7. CASE SettleRequest
    <3> DEFINE reply == Head(microtasks)
    <3>1. reply \in Reply /\ microtasks' \in Seq(Reply)
      BY <2>7, HeadAndTail DEF SettleRequest
    <3>2. outcome' \in [Ids -> Outcomes]
      BY <2>7 DEF SettleRequest, Outcomes
    <3>3. [run |-> reply.run, out |-> ClaimedWith(reply)] \in Batch
      BY <3>1, OutOfReply DEF Batch, Reply
    <3>4. unclaimed' \in Seq(Piece)
      BY <2>7, <3>1, OutOfReply DEF SettleRequest
    <3>5. handed' = handed \/ handed' = Append(handed, [run |-> reply.run, out |-> ClaimedWith(reply)])
      BY <2>7 DEF SettleRequest
    <3>6. handed' \in Seq(Batch)
      <4>1. handed \in Seq(Batch)
        OBVIOUS
      <4> HIDE DEF TypeOK, reply
      <4> QED BY <3>3, <3>5, <4>1, Appended
    <3> QED BY <2>7, <3>1, <3>2, <3>4, <3>6 DEF SettleRequest, bridgeVars
  <2>8. CASE SettleInterrupt
    <3>1. Head(microtasks) \in Reply /\ microtasks' \in Seq(Reply)
      BY <2>8, HeadAndTail DEF SettleInterrupt
    <3>2. outcome' \in [Ids -> Outcomes]
      BY <2>8 DEF SettleInterrupt, Outcomes
    <3>3. unclaimed' \in Seq(Piece)
      BY <2>8, <3>1, OutOfReply DEF SettleInterrupt
    <3> QED BY <2>8, <3>1, <3>2, <3>3 DEF SettleInterrupt, bridgeVars
  <2>9. CASE Close
    BY <2>9 DEF Close, Rejected, Outcomes, bridgeVars
  <2>10. CASE Disconnected
    BY <2>10, EmptySeq DEF Disconnected, Fail, Rejected, Outcomes, Failures
  <2>11. CASE OwnerFails
    BY <2>11 DEF OwnerFails, Fail, Rejected, Outcomes, Failures, bridgeVars
  <2>12. CASE Bridge
    BY <2>12, BridgeKeepsType DEF TypeOK
  <2>13. CASE UNCHANGED vars
    BY <2>13 DEF vars, bridgeVars, clientVars
  <2> QED
    BY <2>1, <2>2, <2>3, <2>4, <2>5, <2>6, <2>7, <2>8, <2>9, <2>10, <2>11, <2>12, <2>13
       DEF Next, RunMicrotask
<1> QED BY <1>1, <1>2, PTL DEF Spec

-----------------------------------------------------------------------------
(* Replies and timers keep the order of the requests *)

OrderInv == InOrder /\ NoOvertaking

LEMMA ReceivedIsNat == TypeOK /\ InOrder => Received \in Int /\ Received <= answered
  BY DEF TypeOK, Received

\* The next reply to read is that of the next request after those received.
LEMMA NextReply ==
  ASSUME TypeOK, InOrder, replies # <<>>
  PROVE  /\ Head(replies).id = Received + 1
         /\ Tail(replies) \in Seq(Reply) /\ Len(Tail(replies)) = Len(replies) - 1
         /\ \A i \in DOMAIN Tail(replies) : Tail(replies)[i].id = Received + 1 + i
         /\ ~broken
<1>1. replies \in Seq(Reply)
  BY DEF TypeOK
<1>2. /\ Head(replies) = replies[1] /\ 1 \in DOMAIN replies
      /\ Tail(replies) \in Seq(Reply) /\ Len(Tail(replies)) = Len(replies) - 1
      /\ \A i \in DOMAIN Tail(replies) :
           i \in Nat /\ i + 1 \in DOMAIN replies /\ Tail(replies)[i] = replies[i + 1]
  BY <1>1, HeadAndTail
<1>3. Received \in Int
  BY ReceivedIsNat
<1>4. ASSUME NEW i \in DOMAIN Tail(replies) PROVE Tail(replies)[i].id = Received + 1 + i
  <2>1. Tail(replies)[i].id = Received + (i + 1) /\ i \in Nat
    BY <1>2 DEF InOrder
  <2> QED BY <2>1, <1>3
<1> QED BY <1>2, <1>4 DEF InOrder

LEMMA MicrotaskIds ==
  ASSUME TypeOK, InOrder, NEW i \in DOMAIN microtasks
  PROVE  microtasks[i].id \in Nat /\ microtasks[i].id <= Received
<1>1. microtasks[i] \in Reply
  BY DEF TypeOK
<1> QED BY <1>1 DEF InOrder, Reply

LEMMA BridgeKeepsOrder == TypeOK /\ OrderInv /\ Bridge => OrderInv'
<1> SUFFICES ASSUME TypeOK, InOrder, NoOvertaking, Bridge PROVE OrderInv'
  BY DEF OrderInv
<1>1. UNCHANGED clientVars /\ ~broken
  BY DEF Bridge
<1>2. CASE WriteOutput
  BY <1>1, <1>2 DEF WriteOutput, OrderInv, InOrder, NoOvertaking, Received, clientVars
<1>3. ASSUME NEW ok, NEW inRun, NEW out, Answer(ok, inRun, out) PROVE OrderInv'
  <2> DEFINE reply == [id |-> answered + 1, ok |-> ok, run |-> inRun, out |-> out]
  <2>1. replies \in Seq(Reply) /\ answered \in Nat
    BY DEF TypeOK
  <2>2. /\ Len(replies') = Len(replies) + 1 /\ Len(replies) \in Nat
        /\ DOMAIN replies' = 1 .. Len(replies) + 1
        /\ \A i \in 1 .. Len(replies) : replies'[i] = replies[i]
        /\ replies'[Len(replies) + 1] = reply
    BY <1>3, <2>1 DEF Answer
  <2>3. Received' = Received
    BY <1>3, <2>1, <2>2 DEF Received, Answer
  <2>4. \A i \in DOMAIN replies' : replies'[i].id = Received' + i
    <3> TAKE i \in DOMAIN replies'
    <3>1. CASE i \in 1 .. Len(replies)
      BY <2>1, <2>2, <2>3, <3>1 DEF InOrder
    <3>2. CASE i = Len(replies) + 1
      BY <2>1, <2>2, <2>3, <3>2 DEF Received
    <3> QED BY <2>2, <3>1, <3>2
  <2> QED BY <1>1, <2>3, <2>4 DEF OrderInv, InOrder, NoOvertaking, clientVars
<1>4. (\E ok, inRun, out : Answer(ok, inRun, out)) \/ WriteOutput
  BY DEF Bridge, BridgeNext, AnswerSnapshot, AnswerRestart, AnswerWithoutOutput, AnswerError
<1> QED BY <1>2, <1>3, <1>4

LEMMA OrderStep == TypeOK /\ OrderInv /\ [Next]_vars => OrderInv'
<1> SUFFICES ASSUME TypeOK, InOrder, NoOvertaking, [Next]_vars PROVE OrderInv'
  BY DEF OrderInv
<1> USE DEF OrderInv
<1>0. /\ Received \in Int /\ Received <= answered /\ answered \in Nat /\ answered <= Len(sent) /\ Len(sent) \in Nat
      /\ \A id \in pending \cup timedOut \cup interrupts : id \in Nat /\ id <= Len(sent)
  BY ReceivedIsNat DEF TypeOK, Ids
<1>1. ASSUME NEW what \in Asked, Request(what) PROVE OrderInv'
  <2>1. Received' = Received /\ microtasks' = <<>>
    BY <1>1 DEF Request, Received, Idle
  <2>2. UNCHANGED <<replies, broken, timedOut>> /\ pending' = pending \cup {Len(sent) + 1}
    BY <1>1 DEF Request
  <2>3. \A late \in timedOut : \A id \in pending' : late < id
    BY <1>0, <2>2 DEF InOrder
  <2>4. ~broken => \A id \in pending' \cup timedOut : id > Received
    BY <1>0, <2>2 DEF InOrder
  <2> QED BY <2>1, <2>2, <2>3, <2>4 DEF InOrder, NoOvertaking
<1>2. ASSUME NEW id \in pending, RequestTimesOut(id) PROVE OrderInv'
  <2>1. Received' = Received /\ microtasks' = <<>>
    BY <1>2 DEF RequestTimesOut, Received, Idle
  <2> QED BY <1>0, <1>2, <2>1 DEF RequestTimesOut, NextToTimeOut, InOrder, NoOvertaking
<1>3. ASSUME NEW id \in pending, InterruptTimesOut(id) PROVE OrderInv'
  <2>1. Received' = Received /\ microtasks' = <<>>
    BY <1>3 DEF InterruptTimesOut, Received, Idle, bridgeVars
  <2> QED BY <1>0, <1>3, <2>1 DEF InterruptTimesOut, InOrder, NoOvertaking, bridgeVars
<1>4. ASSUME replies # <<>>, replies' = Tail(replies), answered' = answered
      PROVE  /\ Received' = Received + 1
             /\ \A i \in DOMAIN replies' : replies'[i].id = Received' + i
             /\ Head(replies).id = Received + 1 /\ ~broken
  BY <1>4, <1>0, NextReply DEF Received, TypeOK
<1>5. CASE ReceiveWaitedFor
  <2> DEFINE id == Head(replies).id
  <2>1. /\ Received' = Received + 1 /\ id = Received + 1 /\ id \in pending /\ ~broken
        /\ \A i \in DOMAIN replies' : replies'[i].id = Received' + i
    BY <1>4, <1>5 DEF ReceiveWaitedFor
  <2>2. timedOut = {}
    <3> SUFFICES ASSUME NEW late \in timedOut PROVE FALSE
      OBVIOUS
    <3>1. late > Received /\ late < id
      BY <2>1 DEF InOrder
    <3> QED BY <3>1, <2>1, <1>0
  <2>3. microtasks \in Seq(Reply) /\ Len(microtasks) \in Nat
    BY DEF TypeOK
  <2>4. /\ DOMAIN microtasks' = 1 .. Len(microtasks) + 1
        /\ DOMAIN microtasks = 1 .. Len(microtasks)
        /\ \A i \in 1 .. Len(microtasks) : microtasks'[i] = microtasks[i]
        /\ microtasks'[Len(microtasks) + 1] = Head(replies)
    BY <1>5, <2>3 DEF ReceiveWaitedFor
  <2>5. \A i \in 1 .. Len(microtasks) : microtasks[i].id \in Nat /\ microtasks[i].id <= Received
    BY <2>4, MicrotaskIds
  <2>6. pending' = pending \ {id} /\ timedOut' = timedOut /\ broken' = broken
    BY <1>5 DEF ReceiveWaitedFor
  <2>7. \A i \in DOMAIN microtasks' : microtasks'[i].id <= Received'
    BY <2>1, <2>3, <2>4, <2>5, <1>0
  <2>8. \A i, j \in DOMAIN microtasks' : i < j => microtasks'[i].id < microtasks'[j].id
    <3> SUFFICES ASSUME NEW i \in DOMAIN microtasks', NEW j \in DOMAIN microtasks', i < j
                 PROVE  microtasks'[i].id < microtasks'[j].id
      OBVIOUS
    <3>1. CASE j <= Len(microtasks)
      BY <2>3, <2>4, <3>1 DEF InOrder
    <3>2. CASE j = Len(microtasks) + 1
      BY <2>1, <2>3, <2>4, <2>5, <1>0, <3>2
    <3> QED BY <2>3, <2>4, <3>1, <3>2
  <2>9. \A other \in pending' : other > Received'
    BY <1>0, <2>1, <2>6 DEF InOrder
  <2>10. \A i \in DOMAIN microtasks' : \A other \in pending' : microtasks'[i].id < other
    BY <1>0, <2>1, <2>3, <2>4, <2>5, <2>6, <2>9
  <2> QED BY <2>1, <2>2, <2>6, <2>7, <2>8, <2>9, <2>10 DEF InOrder, NoOvertaking
<1>6. CASE ReceiveLate \/ ReceiveUnknown
  <2>1. /\ Received' = Received + 1 /\ ~broken
        /\ \A i \in DOMAIN replies' : replies'[i].id = Received' + i
        /\ Head(replies).id = Received + 1
    BY <1>4, <1>6 DEF ReceiveLate, ReceiveUnknown
  <2>2. /\ pending' = pending /\ timedOut' = timedOut \ {Head(replies).id}
        /\ microtasks' = microtasks /\ broken' = broken
    BY <1>6 DEF ReceiveLate, ReceiveUnknown, clientVars
  <2>3. \A late \in timedOut, id \in pending : late < id
    BY DEF InOrder
  <2>4. Received + 1 \notin pending
    BY <1>6, <1>0, <2>1, <2>3 DEF ReceiveLate, ReceiveUnknown
  <2>5. \A id \in pending' \cup timedOut' : id > Received'
    BY <1>0, <2>1, <2>2, <2>4 DEF InOrder
  <2>7. \A i \in DOMAIN microtasks : microtasks[i].id \in Nat /\ microtasks[i].id <= Received'
    BY <1>0, <2>1, MicrotaskIds
  <2> QED BY <2>1, <2>2, <2>3, <2>5, <2>7 DEF InOrder, NoOvertaking
<1>7. CASE SettleRequest \/ SettleInterrupt
  <2>1. microtasks \in Seq(Reply) /\ microtasks # <<>> /\ microtasks' = Tail(microtasks)
    BY <1>7 DEF SettleRequest, SettleInterrupt, TypeOK
  <2>2. \A i \in DOMAIN microtasks' : i \in Nat /\ i + 1 \in DOMAIN microtasks
                                     /\ microtasks'[i] = microtasks[i + 1]
    BY <2>1, HeadAndTail
  <2>3. UNCHANGED <<replies, answered, pending, timedOut, broken>>
    BY <1>7 DEF SettleRequest, SettleInterrupt, bridgeVars
  <2>4. timedOut = {}
    BY <2>1 DEF NoOvertaking
  <2>5. Received' = Received
    BY <2>3 DEF Received
  <2>6. \A i, j \in DOMAIN microtasks' : i < j => microtasks'[i].id < microtasks'[j].id
    BY <2>2 DEF InOrder
  <2> QED BY <2>2, <2>3, <2>4, <2>5, <2>6 DEF InOrder, NoOvertaking
<1>8. CASE ReceiveGarbage \/ Close \/ OwnerFails
  <2>1. UNCHANGED <<replies, answered, timedOut, broken, microtasks>> /\ pending' = {}
    BY <1>8 DEF ReceiveGarbage, Close, OwnerFails, Fail, bridgeVars
  <2> QED BY <2>1 DEF InOrder, NoOvertaking, Received
<1>9. CASE Disconnected
  <2>1. /\ replies' = <<>> /\ broken' = TRUE /\ UNCHANGED <<answered, timedOut>>
        /\ microtasks' = <<>> /\ pending' \subseteq pending
    BY <1>9 DEF Disconnected, Fail, Idle
  <2> QED BY <2>1 DEF InOrder, NoOvertaking
<1>10. CASE Bridge
  BY <1>10, BridgeKeepsOrder
<1>11. CASE UNCHANGED vars
  BY <1>11 DEF vars, bridgeVars, clientVars, InOrder, NoOvertaking, Received
<1> QED
  BY <1>1, <1>2, <1>3, <1>5, <1>6, <1>7, <1>8, <1>9, <1>10, <1>11
     DEF Next, TimeOut, RunMicrotask

\* A late reply is never kept ahead of the output of a reply received before it
\* (receive against claimOutput), because the ids stay in three ascending groups.
THEOREM NeverOvertakes == Spec => [](InOrder /\ NoOvertaking)
<1>1. Init => OrderInv
  BY DEF Init, BridgeInit, OrderInv, InOrder, NoOvertaking
<1>2. TypeOK /\ OrderInv /\ [Next]_vars => OrderInv'
  BY OrderStep
<1> QED BY <1>1, <1>2, TypeCorrect, PTL DEF Spec, OrderInv

-----------------------------------------------------------------------------
(* Every request settles in one way, and only once *)

\* Running a continuation takes exactly its request out of the microtask queue.
LEMMA FirstMicrotask ==
  ASSUME TypeOK, InOrder, microtasks # <<>>
  PROVE  /\ IdsOf(Tail(microtasks)) = IdsOf(microtasks) \ {Head(microtasks).id}
         /\ Head(microtasks).id \in IdsOf(microtasks)
         /\ Head(microtasks).id \notin pending
<1>1. microtasks \in Seq(Reply)
  BY DEF TypeOK
<1>2. /\ Head(microtasks) = microtasks[1] /\ 1 \in DOMAIN microtasks
      /\ DOMAIN microtasks = 1 .. Len(microtasks) /\ Len(microtasks) \in Nat \ {0}
      /\ DOMAIN Tail(microtasks) = 1 .. Len(microtasks) - 1
      /\ \A i \in DOMAIN Tail(microtasks) : i + 1 \in DOMAIN microtasks
                                         /\ Tail(microtasks)[i] = microtasks[i + 1]
  BY <1>1, HeadAndTail
<1>3. \A i \in DOMAIN microtasks : microtasks[i].id \in Nat
  BY MicrotaskIds
<1>4. \A i \in DOMAIN microtasks : i # 1 => microtasks[i].id # microtasks[1].id
  <2> SUFFICES ASSUME NEW i \in DOMAIN microtasks, i # 1
               PROVE  microtasks[i].id # microtasks[1].id
    OBVIOUS
  <2>1. microtasks[1].id < microtasks[i].id
    BY <1>2 DEF InOrder
  <2> QED BY <2>1, <1>2, <1>3
<1>5. ASSUME NEW id \in IdsOf(Tail(microtasks))
      PROVE  id \in IdsOf(microtasks) \ {microtasks[1].id}
  BY <1>2, <1>4 DEF IdsOf
<1>6. ASSUME NEW id \in IdsOf(microtasks), id # microtasks[1].id
      PROVE  id \in IdsOf(Tail(microtasks))
  <2>1. PICK i \in DOMAIN microtasks : id = microtasks[i].id
    BY DEF IdsOf
  <2>2. i - 1 \in DOMAIN Tail(microtasks) /\ Tail(microtasks)[i - 1] = microtasks[i]
    BY <1>2, <1>6, <2>1
  <2> QED BY <2>1, <2>2 DEF IdsOf
<1>7. microtasks[1].id \notin pending
  <2> SUFFICES ASSUME microtasks[1].id \in pending PROVE FALSE
    OBVIOUS
  <2>1. microtasks[1].id < microtasks[1].id
    BY <1>2 DEF InOrder
  <2> QED BY <2>1, <1>2, <1>3
<1> QED BY <1>2, <1>5, <1>6, <1>7 DEF IdsOf

SettlesStep == \A id \in Ids : outcome[id] # "waiting" => outcome'[id] = outcome[id]

LEMMA AccountStep ==
  TypeOK /\ InOrder /\ WaitingIsAccountedFor /\ [Next]_vars
    => WaitingIsAccountedFor' /\ SettlesStep
<1> SUFFICES ASSUME TypeOK, InOrder, WaitingIsAccountedFor, [Next]_vars
             PROVE  WaitingIsAccountedFor' /\ SettlesStep
  OBVIOUS
<1> USE DEF WaitingIsAccountedFor, SettlesStep
<1>0. /\ Len(sent) \in Nat /\ Ids = 1 .. Len(sent) /\ outcome \in [Ids -> Outcomes]
      /\ pending \subseteq Ids /\ sent \in Seq(Whats)
  BY DEF TypeOK, Ids
<1>1. microtasks = <<>> => IdsOf(microtasks) = {}
  BY DEF IdsOf
<1>2. ASSUME NEW what \in Asked, Request(what)
      PROVE  WaitingIsAccountedFor' /\ SettlesStep
  <2>1. Len(sent') = Len(sent) + 1 /\ microtasks' = <<>> /\ microtasks = <<>>
    BY <1>0, <1>2 DEF Request, Idle
  <2>2. Ids' = Ids \cup {Len(sent) + 1} /\ Len(sent) + 1 \notin Ids
    BY <2>1, <1>0 DEF Ids
  <2>3. outcome' = [id \in Ids' |-> IF id \in Ids THEN outcome[id] ELSE "waiting"]
    BY <1>2, <2>1 DEF Request, WithNext, Ids
  <2>4. pending' = pending \cup {Len(sent) + 1} /\ IdsOf(microtasks') = {}
    BY <1>2, <2>1 DEF Request, IdsOf
  <2> QED BY <1>0, <1>1, <2>1, <2>2, <2>3, <2>4
<1>3. ASSUME NEW late \in pending, RequestTimesOut(late)
      PROVE  WaitingIsAccountedFor' /\ SettlesStep
  <2>1. Len(sent') = Len(sent) + 1 /\ microtasks' = <<>> /\ microtasks = <<>>
    BY <1>0, <1>3 DEF RequestTimesOut, Idle
  <2>2. Ids' = Ids \cup {Len(sent) + 1} /\ Len(sent) + 1 \notin Ids
    BY <2>1, <1>0 DEF Ids
  <2>3. outcome' = [id \in Ids' |->
          IF id \in Ids THEN [outcome EXCEPT ![late] = "timedOut"][id] ELSE "waiting"]
    BY <1>3, <2>1 DEF RequestTimesOut, WithNext, Ids
  <2>4. pending' = (pending \ {late}) \cup {Len(sent) + 1} /\ IdsOf(microtasks') = {}
    BY <1>3, <2>1 DEF RequestTimesOut, IdsOf
  <2> QED BY <1>0, <1>1, <2>1, <2>2, <2>3, <2>4
<1>4. ASSUME NEW how, how # "waiting", UNCHANGED <<sent, microtasks>>,
             pending' = {}, NEW late,
             \/ outcome' = [Rejected(pending, how) EXCEPT ![late] = "timedOut"] /\ late \in pending
             \/ outcome' = Rejected(pending, how)
      PROVE  WaitingIsAccountedFor' /\ SettlesStep
  <2>1. Ids' = Ids /\ IdsOf(microtasks') = IdsOf(microtasks)
    BY <1>4 DEF Ids, IdsOf
  <2>2. \A id \in Ids : id \in pending => outcome[id] = "waiting" /\ outcome'[id] # "waiting"
    BY <1>4, <1>0 DEF Rejected
  <2>3. \A id \in Ids : id \notin pending => outcome'[id] = outcome[id]
    BY <1>4, <1>0 DEF Rejected
  <2>4. \A id \in pending : id \notin IdsOf(microtasks)
    <3> SUFFICES ASSUME NEW id \in pending, id \in IdsOf(microtasks) PROVE FALSE
      OBVIOUS
    <3>1. PICK i \in DOMAIN microtasks : microtasks[i].id = id
      BY DEF IdsOf
    <3> QED BY <1>0, <3>1 DEF InOrder
  <2> QED BY <1>4, <2>1, <2>2, <2>3, <2>4
<1>5. ASSUME NEW late \in pending, InterruptTimesOut(late)
      PROVE  WaitingIsAccountedFor' /\ SettlesStep
  BY <1>4, <1>5 DEF InterruptTimesOut, bridgeVars
<1>6. CASE ReceiveGarbage \/ Close \/ OwnerFails
  <2>1. UNCHANGED <<sent, microtasks>> /\ pending' = {}
    BY <1>6 DEF ReceiveGarbage, Close, OwnerFails, Fail, bridgeVars
  <2>2. outcome' = Rejected(pending, "failed") \/ outcome' = Rejected(pending, "closed")
    BY <1>6 DEF ReceiveGarbage, Close, OwnerFails, Fail
  <2> QED BY <1>4, <2>1, <2>2
<1>7. CASE Disconnected
  <2>1. CASE UNCHANGED <<failure, outcome, pending>>
    <3>1. UNCHANGED <<sent, microtasks, pending, outcome>>
      BY <1>7, <2>1 DEF Disconnected
    <3> QED BY <3>1 DEF Ids, IdsOf
  <2>2. CASE Fail("disconnected")
    <3>1. UNCHANGED <<sent, microtasks>> /\ pending' = {} /\ outcome' = Rejected(pending, "failed")
      BY <1>7, <2>2 DEF Disconnected, Fail
    <3> QED BY <1>4, <3>1
  <2> QED BY <1>7, <2>1, <2>2 DEF Disconnected
<1>8. CASE ReceiveWaitedFor
  <2>1. /\ UNCHANGED <<sent, outcome>> /\ pending' = pending \ {Head(replies).id}
        /\ Head(replies).id \in pending /\ microtasks' = Append(microtasks, Head(replies))
    BY <1>8 DEF ReceiveWaitedFor
  <2>2. microtasks \in Seq(Reply) /\ Len(microtasks) \in Nat
    BY DEF TypeOK
  <2>3. IdsOf(microtasks') = IdsOf(microtasks) \cup {Head(replies).id}
    <3>1. /\ DOMAIN microtasks' = 1 .. Len(microtasks) + 1
          /\ DOMAIN microtasks = 1 .. Len(microtasks)
          /\ \A i \in 1 .. Len(microtasks) : microtasks'[i] = microtasks[i]
          /\ microtasks'[Len(microtasks) + 1] = Head(replies)
      BY <2>1, <2>2
    <3> QED BY <2>2, <3>1 DEF IdsOf
  <2> QED BY <2>1, <2>3 DEF Ids
<1>9. CASE ReceiveLate \/ ReceiveUnknown
  <2>1. UNCHANGED <<sent, outcome, pending, microtasks>>
    BY <1>9 DEF ReceiveLate, ReceiveUnknown, clientVars
  <2> QED BY <2>1 DEF Ids, IdsOf
<1>10. CASE SettleRequest \/ SettleInterrupt
  <2> DEFINE settled == Head(microtasks).id
  <2>1. /\ UNCHANGED <<sent, pending>> /\ microtasks # <<>> /\ microtasks' = Tail(microtasks)
        /\ \E how \in {"answered", "refused"} : outcome' = [outcome EXCEPT ![settled] = how]
    BY <1>10 DEF SettleRequest, SettleInterrupt, bridgeVars
  <2>2. /\ IdsOf(microtasks') = IdsOf(microtasks) \ {settled}
        /\ settled \in IdsOf(microtasks) /\ settled \notin pending
    BY <2>1, FirstMicrotask
  <2>3. Ids' = Ids
    BY <2>1 DEF Ids
  <2> HIDE DEF settled
  <2>4. \A id \in Ids : id # settled => outcome'[id] = outcome[id]
    BY <1>0, <2>1
  <2>5. settled \in Ids => outcome[settled] = "waiting" /\ outcome'[settled] # "waiting"
    BY <1>0, <2>1, <2>2
  <2> QED BY <2>1, <2>2, <2>3, <2>4, <2>5
<1>11. CASE Bridge \/ UNCHANGED vars
  <2>1. UNCHANGED <<sent, outcome, pending, microtasks>>
    BY <1>11 DEF Bridge, BridgeNext, WriteOutput, AnswerSnapshot, AnswerRestart,
                 AnswerWithoutOutput, AnswerError, vars, bridgeVars, clientVars
  <2> QED BY <2>1 DEF Ids, IdsOf
<1> QED
  BY <1>2, <1>3, <1>5, <1>6, <1>7, <1>8, <1>9, <1>10, <1>11 DEF Next, TimeOut, RunMicrotask

\* No failure, close, timeout or late reply leaves a caller waiting for ever on a
\* request the connection has forgotten, or settles a request it still waits for.
THEOREM NoRequestForgotten == Spec => []WaitingIsAccountedFor
<1>1. Init => WaitingIsAccountedFor
  <2> SUFFICES ASSUME Init PROVE WaitingIsAccountedFor
    OBVIOUS
  <2>1. Ids = {}
    BY DEF Init, BridgeInit, Ids
  <2> QED BY <2>1 DEF WaitingIsAccountedFor
<1>2. TypeOK /\ InOrder /\ WaitingIsAccountedFor /\ [Next]_vars => WaitingIsAccountedFor'
  BY AccountStep
<1> QED BY <1>1, <1>2, TypeCorrect, NeverOvertakes, PTL DEF Spec

\* A request settles once: what its caller was told is never followed by another
\* answer (the late reply to a request that timed out in particular).
THEOREM OneSettlement == Spec => SettlesOnce
<1>1. TypeOK /\ InOrder /\ WaitingIsAccountedFor /\ [Next]_vars => [SettlesStep]_vars
  BY AccountStep
<1>2. QED
  BY <1>1, TypeCorrect, NeverOvertakes, NoRequestForgotten, PTL DEF Spec, SettlesOnce, SettlesStep

-----------------------------------------------------------------------------
(* The output in batches and replies, and that of one run *)

\* M is a set of batches or replies.
HasOutput(M) == \A m \in M : m.out \in Seq(Piece)

\* What is said of seq here is said of handed, microtasks and replies below.
LEMMA OutsInSeq ==
  ASSUME NEW M, HasOutput(M), NEW seq \in Seq(M)
  PROVE  OutsOf(seq) \in Seq(Piece)
<1> DEFINE outs == [i \in DOMAIN seq |-> seq[i].out]
<1>1. outs \in Seq(Seq(Piece))
  BY DEF HasOutput
<1> HIDE DEF outs
<1>2. FlattenSeq(outs) \in Seq(Piece)
  BY <1>1, FlattenInSeq
<1> QED BY <1>2 DEF OutsOf, outs

\* What OutsOf gives for sequences put together.
LEMMA OutsEmpty == OutsOf(<<>>) = <<>>
<1>1. [i \in DOMAIN <<>> |-> <<>>[i].out] = <<>>
  OBVIOUS
<1> QED BY <1>1, FlattenEmpty DEF OutsOf

LEMMA OutsAre ==
  ASSUME NEW M, HasOutput(M), NEW seq \in Seq(M)
  PROVE  \E outs \in Seq(Seq(Piece)) :
           /\ OutsOf(seq) = FlattenSeq(outs) /\ outs = [i \in DOMAIN seq |-> seq[i].out]
           /\ Len(outs) = Len(seq) /\ \A i \in 1 .. Len(seq) : outs[i] = seq[i].out
<1> DEFINE outs == [i \in DOMAIN seq |-> seq[i].out]
<1>1. \A i \in 1 .. Len(seq) : seq[i].out \in Seq(Piece)
  BY DEF HasOutput
<1>2. DOMAIN seq = 1 .. Len(seq) /\ Len(seq) \in Nat
  OBVIOUS
<1>3. outs \in Seq(Seq(Piece))
  BY <1>1, <1>2
<1>4. Len(outs) = Len(seq) /\ \A i \in 1 .. Len(seq) : outs[i] = seq[i].out
  BY <1>2
<1> QED BY <1>3, <1>4 DEF OutsOf

LEMMA OutsConcat ==
  ASSUME NEW M, HasOutput(M), NEW first \in Seq(M), NEW second \in Seq(M)
  PROVE  OutsOf(first \o second) = OutsOf(first) \o OutsOf(second)
<1> DEFINE both == first \o second
<1>1. /\ both \in Seq(M) /\ Len(first) \in Nat /\ Len(second) \in Nat /\ Len(both) = Len(first) + Len(second)
      /\ \A i \in 1 .. Len(first) : both[i] = first[i]
      /\ \A i \in 1 .. Len(second) : both[Len(first) + i] = second[i]
  BY ConcatProperties
<1> HIDE DEF both
<1>2. PICK a \in Seq(Seq(Piece)) :
        OutsOf(first) = FlattenSeq(a) /\ Len(a) = Len(first) /\ \A i \in 1 .. Len(first) : a[i] = first[i].out
  BY OutsAre
<1>3. PICK b \in Seq(Seq(Piece)) :
        OutsOf(second) = FlattenSeq(b) /\ Len(b) = Len(second) /\ \A i \in 1 .. Len(second) : b[i] = second[i].out
  BY OutsAre
<1>4. PICK c \in Seq(Seq(Piece)) :
        OutsOf(both) = FlattenSeq(c) /\ Len(c) = Len(both) /\ \A i \in 1 .. Len(both) : c[i] = both[i].out
  BY <1>1, OutsAre
<1>5. Len(c) = Len(a) + Len(b)
  BY <1>1, <1>2, <1>3, <1>4
<1>6. ASSUME NEW i \in 1 .. Len(a) PROVE c[i] = a[i]
  <2>1. i \in 1 .. Len(first) /\ i \in 1 .. Len(both)
    BY <1>1, <1>2
  <2> QED BY <1>1, <1>2, <1>4, <2>1
<1>9. ASSUME NEW i \in 1 .. Len(b) PROVE c[Len(a) + i] = b[i]
  <2>1. i \in 1 .. Len(second) /\ Len(a) + i = Len(first) + i /\ Len(first) + i \in 1 .. Len(both)
    BY <1>1, <1>2, <1>3
  <2> QED BY <1>1, <1>3, <1>4, <2>1
<1>7. c = a \o b
  BY <1>5, <1>6, <1>9, IsConcat
<1>8. FlattenSeq(a \o b) = FlattenSeq(a) \o FlattenSeq(b)
  BY FlattenConcat
<1> QED BY <1>2, <1>3, <1>4, <1>7, <1>8 DEF both

LEMMA OutsOfOne ==
  ASSUME NEW M, HasOutput(M), NEW m \in M
  PROVE  OutsOf(<<m>>) = m.out
<1> DEFINE none == <<>>
           out == m.out
<1>1. out \in Seq(Piece) /\ none \in Seq(Seq(Piece))
  BY DEF HasOutput
<1>2. [i \in DOMAIN <<m>> |-> <<m>>[i].out] = Append(none, out)
  OBVIOUS
<1> HIDE DEF out
<1>3. FlattenSeq(Append(none, out)) = FlattenSeq(none) \o out
  BY <1>1, FlattenAppend
<1>4. FlattenSeq(none) \o out = out
  BY <1>1, FlattenEmpty, ConcatEmptySeq
<1> QED BY <1>2, <1>3, <1>4 DEF OutsOf, out

LEMMA OutsAppend ==
  ASSUME NEW M, HasOutput(M), NEW seq \in Seq(M), NEW m \in M
  PROVE  OutsOf(Append(seq, m)) = OutsOf(seq) \o m.out
<1>1. <<m>> \in Seq(M) /\ Append(seq, m) = seq \o <<m>>
  BY AppendIsConcat
<1> QED BY <1>1, OutsConcat, OutsOfOne

LEMMA OutsHead ==
  ASSUME NEW M, HasOutput(M), NEW seq \in Seq(M), seq # <<>>
  PROVE  Head(seq) \in M /\ OutsOf(seq) = Head(seq).out \o OutsOf(Tail(seq))
<1>1. Head(seq) \in M /\ Tail(seq) \in Seq(M) /\ <<Head(seq)>> \in Seq(M)
  OBVIOUS
<1>2. seq = <<Head(seq)>> \o Tail(seq)
  OBVIOUS
<1> DEFINE h == Head(seq)
           t == Tail(seq)
<1> HIDE DEF h, t
<1>3. OutsOf(<<h>> \o t) = OutsOf(<<h>>) \o OutsOf(t)
  BY <1>1, OutsConcat DEF h, t
<1>4. OutsOf(<<h>>) = h.out
  BY <1>1, OutsOfOne DEF h
<1> QED BY <1>1, <1>2, <1>3, <1>4 DEF h, t

-----------------------------------------------------------------------------
\* Of the pieces P those of run r, and one piece if it is of the run.
RunIn(P, r) == {p \in P : p.run = r}
Chosen(p, r) == IF p.run = r THEN <<p>> ELSE <<>>

\* OfRun picks out the pieces of one run and keeps their order.
LEMMA OfRunIs ==
  ASSUME NEW pieces, NEW r
  PROVE  OfRun(pieces, r) = FlattenSeq([i \in DOMAIN pieces |-> Chosen(pieces[i], r)])
  BY DEF OfRun, Chosen

LEMMA OfRunAre ==
  ASSUME NEW P, NEW pieces \in Seq(P), NEW r
  PROVE  \E chosen \in Seq(Seq(RunIn(P, r))) :
           /\ OfRun(pieces, r) = FlattenSeq(chosen)
           /\ Len(chosen) = Len(pieces) /\ \A i \in 1 .. Len(pieces) : chosen[i] = Chosen(pieces[i], r)
<1> DEFINE chosen == [i \in DOMAIN pieces |-> Chosen(pieces[i], r)]
<1>1. ASSUME NEW p \in P PROVE Chosen(p, r) \in Seq(RunIn(P, r))
  <2>1. <<>> \in Seq(RunIn(P, r)) /\ (p.run = r => p \in RunIn(P, r))
    BY DEF RunIn
  <2> QED BY <2>1 DEF Chosen
<1>2. DOMAIN pieces = 1 .. Len(pieces) /\ Len(pieces) \in Nat /\ \A i \in 1 .. Len(pieces) : pieces[i] \in P
  OBVIOUS
<1>3. \A i \in 1 .. Len(pieces) : Chosen(pieces[i], r) \in Seq(RunIn(P, r))
  BY <1>1, <1>2
<1>4. chosen \in Seq(Seq(RunIn(P, r)))
  BY <1>2, <1>3
<1>5. Len(chosen) = Len(pieces) /\ \A i \in 1 .. Len(pieces) : chosen[i] = Chosen(pieces[i], r)
  BY <1>2
<1>6. OfRun(pieces, r) = FlattenSeq(chosen)
  BY OfRunIs
<1> HIDE DEF chosen
<1> QED BY <1>4, <1>5, <1>6

LEMMA OfRunInSeq ==
  ASSUME NEW P, NEW pieces \in Seq(P), NEW r
  PROVE  OfRun(pieces, r) \in Seq(RunIn(P, r))
<1>1. PICK chosen \in Seq(Seq(RunIn(P, r))) : OfRun(pieces, r) = FlattenSeq(chosen)
  BY OfRunAre
<1>2. FlattenSeq(chosen) \in Seq(RunIn(P, r))
  BY FlattenInSeq
<1> QED BY <1>1, <1>2

\* The pieces of other runs are left out.
LEMMA OfRunOthers ==
  ASSUME NEW P, NEW pieces \in Seq(P), NEW r, \A p \in P : p.run # r
  PROVE  OfRun(pieces, r) = <<>>
<1>1. OfRun(pieces, r) \in Seq(RunIn(P, r)) /\ RunIn(P, r) = {}
  BY OfRunInSeq DEF RunIn
<1> DEFINE s == OfRun(pieces, r)
<1> HIDE DEF s
<1>2. s \in Seq({})
  BY <1>1 DEF s
<1>3. s = <<>>
  BY <1>2
<1> QED BY <1>3 DEF s

LEMMA OfRunConcat ==
  ASSUME NEW P, NEW first \in Seq(P), NEW second \in Seq(P), NEW r
  PROVE  OfRun(first \o second, r) = OfRun(first, r) \o OfRun(second, r)
<1> DEFINE both == first \o second
<1>1. /\ both \in Seq(P) /\ Len(first) \in Nat /\ Len(second) \in Nat /\ Len(both) = Len(first) + Len(second)
      /\ \A i \in 1 .. Len(first) : both[i] = first[i]
      /\ \A i \in 1 .. Len(second) : both[Len(first) + i] = second[i]
  BY ConcatProperties
<1> HIDE DEF both
<1>2. PICK a \in Seq(Seq(RunIn(P, r))) :
        OfRun(first, r) = FlattenSeq(a) /\ Len(a) = Len(first) /\ \A i \in 1 .. Len(first) : a[i] = Chosen(first[i], r)
  BY OfRunAre
<1>3. PICK b \in Seq(Seq(RunIn(P, r))) :
        OfRun(second, r) = FlattenSeq(b) /\ Len(b) = Len(second) /\ \A i \in 1 .. Len(second) : b[i] = Chosen(second[i], r)
  BY OfRunAre
<1>0. both \in Seq(P)
  BY <1>1
<1>4. PICK c \in Seq(Seq(RunIn(P, r))) :
        OfRun(both, r) = FlattenSeq(c) /\ Len(c) = Len(both) /\ \A i \in 1 .. Len(both) : c[i] = Chosen(both[i], r)
  BY <1>0, OfRunAre
<1>5. Len(c) = Len(a) + Len(b)
  BY <1>1, <1>2, <1>3, <1>4
<1>6. ASSUME NEW i \in 1 .. Len(a) PROVE c[i] = a[i]
  <2>1. i \in 1 .. Len(first) /\ i \in 1 .. Len(both)
    BY <1>1, <1>2
  <2> QED BY <1>1, <1>2, <1>4, <2>1
<1>9. ASSUME NEW i \in 1 .. Len(b) PROVE c[Len(a) + i] = b[i]
  <2>1. i \in 1 .. Len(second) /\ Len(a) + i = Len(first) + i /\ Len(first) + i \in 1 .. Len(both)
    BY <1>1, <1>2, <1>3
  <2> QED BY <1>1, <1>3, <1>4, <2>1
<1>7. c = a \o b
  BY <1>5, <1>6, <1>9, IsConcat
<1>8. FlattenSeq(a \o b) = FlattenSeq(a) \o FlattenSeq(b)
  BY FlattenConcat
<1> QED BY <1>2, <1>3, <1>4, <1>7, <1>8 DEF both

LEMMA OfRunOne ==
  ASSUME NEW p, NEW r, p.run = r
  PROVE  OfRun(<<p>>, r) = <<p>>
<1> DEFINE one == <<p>>
           none == <<>>
<1>1. one \in Seq({p}) /\ none \in Seq(Seq({p}))
  OBVIOUS
<1>2. [i \in DOMAIN <<p>> |-> Chosen(<<p>>[i], r)] = Append(none, one)
  BY DEF Chosen
<1> HIDE DEF one
<1>3. FlattenSeq(Append(none, one)) = FlattenSeq(none) \o one
  BY <1>1, FlattenAppend
<1>4. FlattenSeq(none) \o one = one
  BY <1>1, FlattenEmpty, ConcatEmptySeq
<1> QED BY <1>2, <1>3, <1>4, OfRunIs DEF one

-----------------------------------------------------------------------------
(* What holds of the output on its way *)

(***************************************************************************)
(* While the connection lasts: what is known of the replies on their way   *)
(* (each is of the run it was answered in, a reply to a load or a reset    *)
(* starts a run later than all that comes before it, and only a snapshot   *)
(* has output), of the pauses the connection sends, and that every request *)
(* not yet answered is waited for or was given up on.  OutputConserved is  *)
(* not inductive without it: a reset drops the unclaimed output, which is  *)
(* sound because it is of earlier runs, and a reply nobody waits for is    *)
(* dropped, which is sound because there is none.                          *)
(***************************************************************************)
\* The connection is open and its socket is there.
Lasts == Open /\ ~broken
Restarting(reply, asked) == reply.ok /\ RestartsOutput(asked[reply.id])
\* What is of the run comes before the reply, and is of an earlier one if the reply starts a run.
Precedes(inRun, reply, asked) == inRun <= reply.run /\ (Restarting(reply, asked) => inRun < reply.run)
\* asked, lastRun and waiting: what was sent, the current run, the unclaimed output.
WellMade(reply, asked, lastRun, waiting) ==
  /\ reply.id \in 1 .. Len(asked) /\ reply.run <= lastRun
  /\ \A k \in DOMAIN reply.out : reply.out[k].run = reply.run
  /\ ~reply.ok \/ RestartsOutput(asked[reply.id]) \/ ~HandsOverOutput(asked[reply.id]) => Len(reply.out) = 0
  /\ \A k \in DOMAIN waiting : Precedes(waiting[k].run, reply, asked)

PausesOnly == \A id \in interrupts : sent[id] = "pause"
AllAwaited == \A id \in Ids : id > Received => id \in pending \cup timedOut
RunsSoFar ==
  /\ \A i \in DOMAIN handed : \A k \in DOMAIN handed[i].out : handed[i].out[k].run <= run
  /\ \A k \in DOMAIN unclaimed : unclaimed[k].run <= run
RepliesWellMade ==
  /\ \A i \in DOMAIN microtasks : WellMade(microtasks[i], sent, run, unclaimed)
  /\ \A i \in DOMAIN replies : WellMade(replies[i], sent, run, unclaimed)
RunsInOrder ==
  /\ \A i, j \in DOMAIN microtasks : i < j => Precedes(microtasks[i].run, microtasks[j], sent)
  /\ \A i \in DOMAIN microtasks, j \in DOMAIN replies : Precedes(microtasks[i].run, replies[j], sent)
  /\ \A i, j \in DOMAIN replies : i < j => Precedes(replies[i].run, replies[j], sent)
OutputInv == Lasts => PausesOnly /\ AllAwaited /\ RunsSoFar /\ RepliesWellMade /\ RunsInOrder

\* A connection that has ended does not last again.
LEMMA StaysLasting == TypeOK /\ [Next]_vars /\ Lasts' => Lasts
  BY DEF Lasts, Open, Next, TypeOK, Request, TimeOut, RequestTimesOut, InterruptTimesOut, ReceiveWaitedFor, ReceiveLate,
     ReceiveUnknown, ReceiveGarbage, RunMicrotask, SettleRequest, SettleInterrupt, Close, Disconnected, OwnerFails, Bridge,
     Fail, vars, clientVars, Failures

\* A request more changes none of those before it.
LEMMA SentBefore ==
  ASSUME TypeOK, NEW what \in Whats
  PROVE  /\ Len(sent) \in Nat /\ Len(Append(sent, what)) = Len(sent) + 1
         /\ \A id \in Ids : Append(sent, what)[id] = sent[id]
         /\ Append(sent, what)[Len(sent) + 1] = what
  BY DEF TypeOK, Ids

\* What a request more changes, with none of the output moved.
LEMMA SendingKeepsOutput ==
  ASSUME TypeOK, RunsSoFar, RepliesWellMade, RunsInOrder, NEW what \in Whats,
         sent' = Append(sent, what), UNCHANGED <<run, answered, replies, microtasks, unclaimed, handed>>
  PROVE  (RunsSoFar /\ RepliesWellMade /\ RunsInOrder)'
<1>1. Len(sent) \in Nat /\ Ids = 1 .. Len(sent) /\ Ids' = 1 .. Len(sent) + 1 /\ \A id \in Ids : sent'[id] = sent[id]
  BY SentBefore DEF Ids
<1>2. ASSUME NEW reply, WellMade(reply, sent, run, unclaimed)
      PROVE  WellMade(reply, sent', run, unclaimed) /\ (Restarting(reply, sent') <=> Restarting(reply, sent))
  <2>1. reply.id \in Ids /\ sent'[reply.id] = sent[reply.id] /\ reply.id \in Ids'
    BY <1>1, <1>2 DEF WellMade, Ids
  <2>2. Restarting(reply, sent') <=> Restarting(reply, sent)
    BY <2>1 DEF Restarting
  <2> QED BY <1>1, <1>2, <2>1, <2>2 DEF WellMade, Precedes, Ids
<1>3. RunsSoFar'
  BY DEF RunsSoFar
<1>4. RepliesWellMade'
  BY <1>2 DEF RepliesWellMade
<1>5. RunsInOrder'
  BY <1>2 DEF RunsInOrder, RepliesWellMade, Precedes
<1> QED BY <1>3, <1>4, <1>5

\* Output that is kept or claimed was unclaimed or is the reply's.
LEMMA KeptPieces ==
  ASSUME TypeOK, NEW reply \in Reply, WellMade(reply, sent, run, unclaimed),
         NEW pieces, pieces = Kept(reply) \/ pieces = ClaimedWith(reply)
  PROVE  \A k \in DOMAIN pieces :
           pieces[k].run = reply.run \/ \E j \in DOMAIN unclaimed : pieces[k] = unclaimed[j]
<1> DEFINE out == reply.out
           both == unclaimed \o out
<1>1. out \in Seq(Piece) /\ unclaimed \in Seq(Piece)
  BY DEF TypeOK, Reply
<1>2. \A k \in DOMAIN out : out[k].run = reply.run
  BY DEF WellMade
<1>3. pieces = unclaimed \/ pieces = out \/ pieces = both
  BY DEF Kept, ClaimedWith
<1> HIDE DEF out
<1>4. /\ Len(both) = Len(unclaimed) + Len(out) /\ Len(unclaimed) \in Nat /\ Len(out) \in Nat /\ both \in Seq(Piece)
      /\ \A k \in 1 .. Len(both) : both[k] = IF k <= Len(unclaimed) THEN unclaimed[k] ELSE out[k - Len(unclaimed)]
  BY <1>1, ConcatProperties
<1> HIDE DEF both
<1>5. ASSUME NEW k \in DOMAIN both
      PROVE  both[k].run = reply.run \/ \E j \in DOMAIN unclaimed : both[k] = unclaimed[j]
  <2>1. k \in 1 .. Len(both)
    BY <1>4
  <2>2. CASE k <= Len(unclaimed)
    BY <1>1, <1>4, <2>1, <2>2
  <2>3. CASE k > Len(unclaimed)
    <3>1. k - Len(unclaimed) \in 1 .. Len(out) /\ both[k] = out[k - Len(unclaimed)]
      BY <1>4, <2>1, <2>3
    <3> QED BY <1>1, <1>2, <3>1
  <2> QED BY <1>4, <2>1, <2>2, <2>3
<1> QED BY <1>2, <1>3, <1>5

\* A request more, of a caller or the pause after a timeout.
LEMMA RequestsKeepOutput ==
  ASSUME TypeOK, InOrder, OutputInv, Lasts, (\E what \in Asked : Request(what)) \/ \E id \in pending : RequestTimesOut(id)
  PROVE  OutputInv'
<1> USE DEF OutputInv
<1>1. PICK what \in Whats : sent' = Append(sent, what) /\ (interrupts' = interrupts \/ what = "pause")
  BY ConnectionAssumption DEF Request, RequestTimesOut, Whats
<1>2. /\ UNCHANGED <<run, answered, replies, microtasks, unclaimed, handed>>
      /\ pending \cup timedOut \cup {Len(sent) + 1} \subseteq pending' \cup timedOut'
      /\ interrupts' \subseteq interrupts \cup {Len(sent) + 1}
  BY DEF Request, RequestTimesOut
<1>3. /\ Len(sent) \in Nat /\ Ids = 1 .. Len(sent) /\ Ids' = 1 .. Len(sent) + 1 /\ \A id \in Ids : sent'[id] = sent[id]
      /\ sent'[Len(sent) + 1] = what
  BY <1>1, SentBefore DEF Ids
<1>4. (RunsSoFar /\ RepliesWellMade /\ RunsInOrder)'
  BY <1>1, <1>2, SendingKeepsOutput
<1>5. AllAwaited'
  BY <1>2, <1>3 DEF AllAwaited, Received
<1>6. PausesOnly'
  <2>1. interrupts \subseteq Ids /\ Len(sent) + 1 \notin Ids
    BY <1>3 DEF TypeOK
  <2>2. CASE interrupts' = interrupts
    BY <1>3, <2>1, <2>2 DEF PausesOnly
  <2>3. CASE what = "pause"
    BY <1>2, <1>3, <2>1, <2>3 DEF PausesOnly
  <2> QED BY <1>1, <2>2, <2>3
<1> QED BY <1>4, <1>5, <1>6

\* A reply that is received is the next one, and those after it come from further along.
LEMMA NextReceived ==
  ASSUME TypeOK, InOrder, replies # <<>>
  PROVE  /\ replies[1] = Head(replies) /\ 1 \in DOMAIN replies /\ Head(replies) \in Reply
         /\ DOMAIN replies = 1 .. Len(replies) /\ Len(replies) \in Nat \ {0} /\ Tail(replies) \in Seq(Reply)
         /\ \A i \in DOMAIN Tail(replies) : i + 1 \in DOMAIN replies /\ Tail(replies)[i] = replies[i + 1] /\ 1 < i + 1 /\ i \in Nat
         /\ Len(Tail(replies)) = Len(replies) - 1 /\ Head(replies).id = Received + 1 /\ Received \in Int
  BY DEF TypeOK, InOrder, Received

\* A reply waited for joins the continuations that wait.
LEMMA WaitedForKeepsOutput ==
  ASSUME TypeOK, InOrder, OutputInv, Lasts, ReceiveWaitedFor
  PROVE  OutputInv'
<1> USE DEF OutputInv
<1> DEFINE r == Head(replies)
<1>1. /\ replies # <<>> /\ replies' = Tail(replies) /\ microtasks' = Append(microtasks, r)
      /\ pending' = pending \ {r.id} /\ UNCHANGED <<sent, answered, run, timedOut, interrupts, unclaimed, handed>>
  BY DEF ReceiveWaitedFor
<1>2. /\ replies[1] = r /\ 1 \in DOMAIN replies /\ r.id = Received + 1 /\ Received \in Int
      /\ Len(replies) \in Nat /\ Len(replies') = Len(replies) - 1
      /\ \A i \in DOMAIN replies' : i + 1 \in DOMAIN replies /\ replies'[i] = replies[i + 1] /\ 1 < i + 1 /\ i \in Nat
  BY <1>1, NextReceived
<1>3. /\ DOMAIN microtasks' = 1 .. Len(microtasks) + 1 /\ DOMAIN microtasks = 1 .. Len(microtasks)
      /\ Len(microtasks) \in Nat /\ microtasks'[Len(microtasks) + 1] = r
      /\ \A i \in DOMAIN microtasks : microtasks'[i] = microtasks[i]
  BY <1>1 DEF TypeOK
<1> HIDE DEF r
<1>4. Received' = Received + 1 /\ Ids' = Ids
  BY <1>1, <1>2 DEF Received, Ids, TypeOK
<1>5. AllAwaited' /\ PausesOnly' /\ RunsSoFar'
  <2>1. AllAwaited'
    BY <1>1, <1>2, <1>4 DEF AllAwaited, Ids
  <2> QED BY <1>1, <2>1 DEF PausesOnly, RunsSoFar
<1>6. RepliesWellMade'
  <2>1. ASSUME NEW i \in DOMAIN microtasks' PROVE WellMade(microtasks'[i], sent, run, unclaimed)
    BY <1>2, <1>3 DEF RepliesWellMade
  <2>2. ASSUME NEW i \in DOMAIN replies' PROVE WellMade(replies'[i], sent, run, unclaimed)
    BY <1>2 DEF RepliesWellMade
  <2> QED BY <1>1, <2>1, <2>2 DEF RepliesWellMade
<1>7. RunsInOrder'
  <2>1. ASSUME NEW i \in DOMAIN microtasks', NEW j \in DOMAIN microtasks', i < j
        PROVE  Precedes(microtasks'[i].run, microtasks'[j], sent)
    BY <1>2, <1>3, <2>1 DEF RunsInOrder
  <2>2. ASSUME NEW i \in DOMAIN microtasks', NEW j \in DOMAIN replies'
        PROVE  Precedes(microtasks'[i].run, replies'[j], sent)
    BY <1>2, <1>3 DEF RunsInOrder
  <2>3. ASSUME NEW i \in DOMAIN replies', NEW j \in DOMAIN replies', i < j
        PROVE  Precedes(replies'[i].run, replies'[j], sent)
    BY <1>2, <2>3 DEF RunsInOrder
  <2> QED BY <1>1, <2>1, <2>2, <2>3 DEF RunsInOrder
<1> QED BY <1>5, <1>6, <1>7

\* The runs that output and replies belong to are numbers.
LEMMA RunsTyped ==
  ASSUME TypeOK
  PROVE  /\ \A i \in DOMAIN microtasks : microtasks[i].run \in Nat
         /\ \A i \in DOMAIN replies : replies[i].run \in Nat
         /\ \A k \in DOMAIN unclaimed : unclaimed[k].run \in Nat
         /\ \A i \in DOMAIN handed : \A k \in DOMAIN handed[i].out : handed[i].out[k].run \in Nat
<1>1. /\ microtasks \in Seq(Reply) /\ replies \in Seq(Reply) /\ unclaimed \in Seq(Piece) /\ handed \in Seq(Batch)
  BY DEF TypeOK
<1>2. /\ \A x \in Reply : x.run \in Nat
      /\ \A x \in Batch : x.out \in Seq(Piece)
      /\ \A x \in Piece : x.run \in Nat
  BY DEF Reply, Batch, Piece
<1>3. \A S : \A s \in Seq(S) : \A i \in DOMAIN s : s[i] \in S
  OBVIOUS
<1>4. \A i \in DOMAIN handed : handed[i] \in Batch
  BY <1>1, <1>3
<1>5. \A i \in DOMAIN handed : handed[i].out \in Seq(Piece)
  BY <1>2, <1>4
<1> QED BY <1>1, <1>2, <1>3, <1>5

\* A late reply is kept at once: no continuation waits that it could overtake.
LEMMA LateKeepsOutput ==
  ASSUME TypeOK, InOrder, NoOvertaking, OutputInv, Lasts, ReceiveLate
  PROVE  OutputInv'
<1> USE DEF OutputInv
<1> DEFINE r == Head(replies)
<1>1. /\ replies # <<>> /\ replies' = Tail(replies) /\ unclaimed' = Kept(r) /\ r.id \in timedOut
      /\ timedOut' = timedOut \ {r.id} /\ UNCHANGED <<sent, answered, run, pending, interrupts, microtasks, handed>>
  BY DEF ReceiveLate
<1>2. /\ replies[1] = r /\ 1 \in DOMAIN replies /\ r.id = Received + 1 /\ Received \in Int /\ r \in Reply
      /\ Len(replies) \in Nat /\ Len(replies') = Len(replies) - 1
      /\ \A i \in DOMAIN replies' : i + 1 \in DOMAIN replies /\ replies'[i] = replies[i + 1] /\ 1 < i + 1 /\ i \in Nat
  BY <1>1, NextReceived
<1>3. microtasks = <<>> /\ DOMAIN microtasks = {}
  BY <1>1 DEF NoOvertaking
<1> HIDE DEF r
<1>4. Received' = Received + 1 /\ Ids' = Ids
  BY <1>1, <1>2 DEF Received, Ids, TypeOK
<1>5. WellMade(r, sent, run, unclaimed)
  BY <1>2 DEF RepliesWellMade
<1>6. \A k \in DOMAIN unclaimed' : unclaimed'[k].run = r.run \/ \E j \in DOMAIN unclaimed : unclaimed'[k] = unclaimed[j]
  BY <1>1, <1>2, <1>5, KeptPieces
<1>7. RunsSoFar'
  <2>1. \A k \in DOMAIN unclaimed' : unclaimed'[k].run <= run
    BY <1>5, <1>6 DEF RunsSoFar, WellMade
  <2> QED BY <1>1, <2>1 DEF RunsSoFar
<1>8. RepliesWellMade'
  <2>1. ASSUME NEW i \in DOMAIN replies' PROVE WellMade(replies'[i], sent, run, unclaimed')
    <3>1. WellMade(replies'[i], sent, run, unclaimed) /\ Precedes(r.run, replies'[i], sent)
      BY <1>2 DEF RepliesWellMade, RunsInOrder
    <3>2. \A k \in DOMAIN unclaimed' : Precedes(unclaimed'[k].run, replies'[i], sent)
      BY <1>6, <3>1 DEF WellMade
    <3> QED BY <3>1, <3>2 DEF WellMade
  <2> QED BY <1>1, <1>3, <2>1 DEF RepliesWellMade
<1>9. RunsInOrder'
  <2>1. ASSUME NEW i \in DOMAIN replies', NEW j \in DOMAIN replies', i < j
        PROVE  Precedes(replies'[i].run, replies'[j], sent)
    BY <1>2, <2>1 DEF RunsInOrder
  <2> QED BY <1>1, <1>3, <2>1 DEF RunsInOrder
<1>10. AllAwaited' /\ PausesOnly'
  <2>1. AllAwaited'
    BY <1>1, <1>2, <1>4 DEF AllAwaited, Ids
  <2> QED BY <1>1, <2>1 DEF PausesOnly
<1> QED BY <1>7, <1>8, <1>9, <1>10

\* While the connection lasts no reply comes that nobody waits for.
LEMMA NoneUnknown ==
  ASSUME TypeOK, InOrder, OutputInv, Lasts
  PROVE  ~ReceiveUnknown
<1> SUFFICES ASSUME ReceiveUnknown PROVE FALSE
  OBVIOUS
<1>1. Head(replies).id = Received + 1 /\ Received \in Int /\ replies[1] = Head(replies) /\ 1 \in DOMAIN replies
  BY NextReceived DEF ReceiveUnknown
<1>2. Head(replies).id \in Ids
  BY <1>1 DEF OutputInv, RepliesWellMade, WellMade, Ids
<1> QED BY <1>1, <1>2 DEF OutputInv, AllAwaited, ReceiveUnknown

LEMMA NextMicrotask ==
  ASSUME TypeOK, microtasks # <<>>
  PROVE  /\ microtasks[1] = Head(microtasks) /\ 1 \in DOMAIN microtasks /\ Head(microtasks) \in Reply
         /\ DOMAIN microtasks = 1 .. Len(microtasks) /\ Len(microtasks) \in Nat \ {0} /\ Tail(microtasks) \in Seq(Reply)
         /\ \A i \in DOMAIN Tail(microtasks) :
              i + 1 \in DOMAIN microtasks /\ Tail(microtasks)[i] = microtasks[i + 1] /\ 1 < i + 1 /\ i \in Nat
  BY DEF TypeOK

\* A continuation claims or keeps its output; what a reset drops is of earlier runs.
LEMMA SettlingKeepsOutput ==
  ASSUME TypeOK, InOrder, OutputInv, Lasts, RunMicrotask
  PROVE  OutputInv'
<1> USE DEF OutputInv
<1> DEFINE r == Head(microtasks)
<1>1. /\ microtasks # <<>> /\ microtasks' = Tail(microtasks)
      /\ UNCHANGED <<sent, answered, replies, run, pending, timedOut, interrupts>>
      /\ unclaimed' = unclaimed \/ unclaimed' = Kept(r) \/ unclaimed' = <<>>
      /\ handed' = handed \/ handed' = Append(handed, [run |-> r.run, out |-> ClaimedWith(r)])
  BY DEF RunMicrotask, SettleRequest, SettleInterrupt, bridgeVars, LeftBy
<1>2. /\ microtasks[1] = r /\ 1 \in DOMAIN microtasks /\ r \in Reply
      /\ \A i \in DOMAIN microtasks' : i + 1 \in DOMAIN microtasks /\ microtasks'[i] = microtasks[i + 1] /\ 1 < i + 1 /\ i \in Nat
  BY <1>1, NextMicrotask
<1> HIDE DEF r
<1>3. WellMade(r, sent, run, unclaimed)
  BY <1>2 DEF RepliesWellMade
<1>4. \A k \in DOMAIN unclaimed' : unclaimed'[k].run = r.run \/ \E j \in DOMAIN unclaimed : unclaimed'[k] = unclaimed[j]
  <2>1. CASE unclaimed' = Kept(r)
    BY <1>2, <1>3, <2>1, KeptPieces
  <2>2. CASE unclaimed' = <<>>
    BY <2>2
  <2> QED BY <1>1, <2>1, <2>2
<1>5. RunsSoFar'
  <2>1. \A k \in DOMAIN unclaimed' : unclaimed'[k].run <= run
    BY <1>3, <1>4 DEF RunsSoFar, WellMade
  <2>2. ASSUME NEW i \in DOMAIN handed' PROVE \A k \in DOMAIN handed'[i].out : handed'[i].out[k].run <= run
    <3>1. \A k \in DOMAIN ClaimedWith(r) : ClaimedWith(r)[k].run <= run
      <4>1. \A k \in DOMAIN ClaimedWith(r) :
              ClaimedWith(r)[k].run = r.run \/ \E j \in DOMAIN unclaimed : ClaimedWith(r)[k] = unclaimed[j]
        BY <1>2, <1>3, KeptPieces
      <4> QED BY <1>3, <4>1 DEF RunsSoFar, WellMade
    <3>2. handed'[i].out = ClaimedWith(r) \/ (i \in DOMAIN handed /\ handed'[i] = handed[i])
      <4> DEFINE b == [run |-> r.run, out |-> ClaimedWith(r)]
      <4>1. b.out = ClaimedWith(r)
        OBVIOUS
      <4>2. handed \in Seq(Batch) /\ (handed' = handed \/ handed' = Append(handed, b))
        BY <1>1 DEF TypeOK
      <4> HIDE DEF b
      <4> QED BY <4>1, <4>2
    <3> QED BY <3>1, <3>2 DEF RunsSoFar
  <2> QED BY <1>1, <2>1, <2>2 DEF RunsSoFar
<1>6. RepliesWellMade'
  <2>1. ASSUME NEW reply, WellMade(reply, sent, run, unclaimed), Precedes(r.run, reply, sent)
        PROVE  WellMade(reply, sent, run, unclaimed')
    <3>1. \A k \in DOMAIN unclaimed' : Precedes(unclaimed'[k].run, reply, sent)
      BY <1>4, <2>1 DEF WellMade
    <3> QED BY <2>1, <3>1 DEF WellMade
  <2>2. ASSUME NEW i \in DOMAIN microtasks' PROVE WellMade(microtasks'[i], sent, run, unclaimed')
    <3>1. WellMade(microtasks'[i], sent, run, unclaimed) /\ Precedes(r.run, microtasks'[i], sent)
      BY <1>2 DEF RepliesWellMade, RunsInOrder
    <3> QED BY <2>1, <3>1
  <2>3. ASSUME NEW i \in DOMAIN replies PROVE WellMade(replies[i], sent, run, unclaimed')
    <3>1. WellMade(replies[i], sent, run, unclaimed) /\ Precedes(r.run, replies[i], sent)
      BY <1>2 DEF RepliesWellMade, RunsInOrder
    <3> QED BY <2>1, <3>1
  <2> QED BY <1>1, <2>2, <2>3 DEF RepliesWellMade
<1>7. RunsInOrder'
  <2>1. ASSUME NEW i \in DOMAIN microtasks', NEW j \in DOMAIN microtasks', i < j
        PROVE  Precedes(microtasks'[i].run, microtasks'[j], sent)
    BY <1>2, <2>1 DEF RunsInOrder
  <2>2. ASSUME NEW i \in DOMAIN microtasks', NEW j \in DOMAIN replies
        PROVE  Precedes(microtasks'[i].run, replies[j], sent)
    BY <1>2 DEF RunsInOrder
  <2> QED BY <1>1, <2>1, <2>2 DEF RunsInOrder
<1>8. AllAwaited' /\ PausesOnly'
  BY <1>1 DEF AllAwaited, PausesOnly, Received, Ids
<1> QED BY <1>5, <1>6, <1>7, <1>8

\* A reply the bridge makes comes after all there is, and starts a later run if it restarts output.
LEMMA BridgeKeepsOutput ==
  ASSUME TypeOK, InOrder, OutputInv, Lasts, Bridge
  PROVE  OutputInv'
<1> USE DEF OutputInv
<1>0. UNCHANGED <<sent, pending, timedOut, interrupts, microtasks, unclaimed, handed>>
  BY DEF Bridge, BridgeNext, WriteOutput, AnswerSnapshot, AnswerRestart, AnswerWithoutOutput, AnswerError, clientVars
<1>1. CASE WriteOutput
  BY <1>0, <1>1 DEF WriteOutput, PausesOnly, AllAwaited, RunsSoFar, RepliesWellMade, RunsInOrder, Received, Ids
<1>2. CASE ~WriteOutput
  <2> DEFINE Made(ok, inRun, out) ==
          /\ ok \in BOOLEAN /\ inRun \in Nat
          /\ answered < Len(sent) /\ Answer(ok, inRun, out) /\ run' = inRun /\ inRun >= run
          /\ ok /\ RestartsOutput(sent[answered + 1]) => inRun > run
          /\ \A k \in DOMAIN out : out[k].run = inRun
          /\ ~ok \/ RestartsOutput(sent[answered + 1]) \/ ~HandsOverOutput(sent[answered + 1]) => Len(out) = 0
  <2>0. \E ok, inRun, out : Made(ok, inRun, out)
    <3>0. run \in Nat /\ run + 1 \in Nat /\ run + 1 > run /\ run + 1 >= run /\ run >= run /\ TRUE \in BOOLEAN /\ FALSE \in BOOLEAN
      BY DEF TypeOK
    <3>1. CASE AnswerSnapshot
      <4>1. \A k \in DOMAIN NewOutput : NewOutput[k].run = run
        BY DEF NewOutput
      <4>2. answered < Len(sent) /\ Answer(TRUE, run, NewOutput) /\ run' = run
        BY <3>1 DEF AnswerSnapshot, Executing
      <4>3. ~RestartsOutput(sent[answered + 1]) /\ HandsOverOutput(sent[answered + 1])
        BY <3>1 DEF AnswerSnapshot, Executing, RestartsOutput, HandsOverOutput
      <4>4. Made(TRUE, run, NewOutput)
        BY <3>0, <4>1, <4>2, <4>3
      <4> QED BY <4>4
    <3> DEFINE none == <<>>
    <3>5. DOMAIN none = {} /\ Len(none) = 0
      OBVIOUS
    <3>6. /\ AnswerRestart => answered < Len(sent) /\ Answer(TRUE, run + 1, none) /\ run' = run + 1
          /\ AnswerWithoutOutput => answered < Len(sent) /\ Answer(TRUE, run, none) /\ run' = run
                                     /\ ~RestartsOutput(sent[answered + 1])
          /\ AnswerError => answered < Len(sent) /\ Answer(FALSE, run, none) /\ run' = run
      BY DEF AnswerRestart, AnswerWithoutOutput, AnswerError, Executing, RestartsOutput
    <3> HIDE DEF none
    <3>2. CASE AnswerRestart
      <4>1. Made(TRUE, run + 1, none)
        BY <3>0, <3>2, <3>5, <3>6
      <4> QED BY <4>1
    <3>3. CASE AnswerWithoutOutput
      <4>1. Made(TRUE, run, none)
        BY <3>0, <3>3, <3>5, <3>6
      <4> QED BY <4>1
    <3>4. CASE AnswerError
      <4>1. Made(FALSE, run, none)
        BY <3>0, <3>4, <3>5, <3>6
      <4> QED BY <4>1
    <3> HIDE DEF Made
    <3> QED BY <1>2, <3>1, <3>2, <3>3, <3>4 DEF Bridge, BridgeNext
  <2>1. PICK ok, inRun, out : Made(ok, inRun, out)
    BY <2>0
  <2> DEFINE r == [id |-> answered + 1, ok |-> ok, run |-> inRun, out |-> out]
  <2>2. answered' = answered + 1 /\ replies' = Append(replies, r)
    BY <2>1 DEF Answer
  <2>3. r.id = answered + 1 /\ r.ok = ok /\ r.run = inRun /\ r.out = out
    OBVIOUS
  <2> HIDE DEF r
  <2>4. /\ DOMAIN replies' = 1 .. Len(replies) + 1 /\ DOMAIN replies = 1 .. Len(replies)
        /\ Len(replies) \in Nat /\ replies'[Len(replies) + 1] = r /\ Len(replies') = Len(replies) + 1
        /\ \A i \in DOMAIN replies : replies'[i] = replies[i]
    BY <2>2 DEF TypeOK
  <2>5. run \in Nat /\ answered \in Nat /\ Len(sent) \in Nat /\ Received' = Received
    BY <2>2, <2>4 DEF TypeOK, Received
  <2>6. ASSUME NEW inOther \in Nat, inOther <= run PROVE Precedes(inOther, r, sent)
    BY <2>1, <2>3, <2>5, <2>6 DEF Precedes, Restarting
  <2>7. WellMade(r, sent, run', unclaimed)
    <3>1. \A k \in DOMAIN unclaimed : unclaimed[k].run \in Nat /\ unclaimed[k].run <= run
      BY RunsTyped DEF RunsSoFar
    <3>2. \A k \in DOMAIN unclaimed : Precedes(unclaimed[k].run, r, sent)
      BY <2>6, <3>1
    <3> QED BY <2>1, <2>3, <2>5, <3>2 DEF WellMade
  <2>8. ASSUME NEW reply, reply.run \in Nat, WellMade(reply, sent, run, unclaimed)
        PROVE  WellMade(reply, sent, run', unclaimed) /\ Precedes(reply.run, r, sent)
    <3>1. reply.run <= run /\ reply.run <= run'
      BY <2>1, <2>5, <2>8 DEF WellMade
    <3> QED BY <2>6, <2>8, <3>1 DEF WellMade
  <2>9. /\ \A i \in DOMAIN microtasks : microtasks[i].run \in Nat
        /\ \A i \in DOMAIN replies : replies[i].run \in Nat
    BY RunsTyped
  <2>10. RepliesWellMade'
    <3>1. ASSUME NEW i \in DOMAIN microtasks PROVE WellMade(microtasks[i], sent, run', unclaimed)
      BY <2>8, <2>9 DEF RepliesWellMade
    <3>2. ASSUME NEW i \in DOMAIN replies' PROVE WellMade(replies'[i], sent, run', unclaimed)
      <4>1. CASE i = Len(replies) + 1
        BY <2>4, <2>7, <4>1
      <4>2. CASE i \in DOMAIN replies
        BY <2>4, <2>8, <2>9, <4>2 DEF RepliesWellMade
      <4> QED BY <2>4, <4>1, <4>2
    <3> QED BY <1>0, <3>1, <3>2 DEF RepliesWellMade
  <2>11. RunsInOrder'
    <3>1. ASSUME NEW i \in DOMAIN microtasks, NEW j \in DOMAIN replies'
          PROVE  Precedes(microtasks[i].run, replies'[j], sent)
      <4>1. CASE j = Len(replies) + 1
        BY <2>4, <2>8, <2>9, <4>1 DEF RepliesWellMade
      <4>2. CASE j \in DOMAIN replies
        BY <2>4, <4>2 DEF RunsInOrder
      <4> QED BY <2>4, <4>1, <4>2
    <3>2. ASSUME NEW i \in DOMAIN replies', NEW j \in DOMAIN replies', i < j
          PROVE  Precedes(replies'[i].run, replies'[j], sent)
      <4>0. i \in DOMAIN replies
        BY <2>4, <3>2
      <4>1. CASE j = Len(replies) + 1
        BY <2>4, <2>8, <2>9, <4>0, <4>1 DEF RepliesWellMade
      <4>2. CASE j \in DOMAIN replies
        BY <2>4, <3>2, <4>0, <4>2 DEF RunsInOrder
      <4> QED BY <2>4, <4>1, <4>2
    <3> QED BY <1>0, <3>1, <3>2 DEF RunsInOrder
  <2>12. RunsSoFar'
    <3>1. \A k \in DOMAIN unclaimed : unclaimed[k].run \in Nat /\ unclaimed[k].run <= run
      BY RunsTyped DEF RunsSoFar
    <3>2. \A i \in DOMAIN handed : \A k \in DOMAIN handed[i].out : handed[i].out[k].run \in Nat /\ handed[i].out[k].run <= run
      BY RunsTyped DEF RunsSoFar
    <3>3. \A n \in Nat : n <= run => n <= run'
      BY <2>1, <2>5
    <3> QED BY <1>0, <3>1, <3>2, <3>3 DEF RunsSoFar
  <2>13. AllAwaited' /\ PausesOnly'
    BY <1>0, <2>5 DEF AllAwaited, PausesOnly, Ids
  <2> QED BY <2>10, <2>11, <2>12, <2>13
<1> QED BY <1>1, <1>2

\* Every step keeps what is known of the output on its way.
LEMMA OutputStep == TypeOK /\ InOrder /\ NoOvertaking /\ OutputInv /\ [Next]_vars => OutputInv'
<1> SUFFICES ASSUME TypeOK, InOrder, NoOvertaking, OutputInv, [Next]_vars, Lasts' PROVE OutputInv'
  BY DEF OutputInv
<1>1. Lasts
  BY StaysLasting
<1>2. CASE UNCHANGED vars
  BY <1>1, <1>2 DEF vars, bridgeVars, clientVars, OutputInv, PausesOnly, AllAwaited, RunsSoFar, RepliesWellMade,
                    RunsInOrder, Received, Ids
<1>3. ~Close /\ ~Disconnected /\ ~OwnerFails /\ ~ReceiveGarbage /\ \A id \in pending : ~InterruptTimesOut(id)
  BY DEF Lasts, Open, Close, Disconnected, OwnerFails, ReceiveGarbage, InterruptTimesOut, Fail
<1> QED BY <1>1, <1>2, <1>3, RequestsKeepOutput, WaitedForKeepsOutput, LateKeepsOutput, NoneUnknown, SettlingKeepsOutput,
           BridgeKeepsOutput DEF Next, TimeOut

-----------------------------------------------------------------------------
(* Receiving and settling move the output along and keep its order *)

\* The output of every batch and reply is a sequence of pieces.
LEMMA OutputTyped ==
  ASSUME TypeOK
  PROVE  /\ HasOutput(Batch) /\ HasOutput(Reply)
         /\ handed \in Seq(Batch) /\ microtasks \in Seq(Reply) /\ replies \in Seq(Reply)
         /\ OutsOf(handed) \in Seq(Piece) /\ unclaimed \in Seq(Piece)
         /\ OutsOf(microtasks) \in Seq(Piece) /\ OutsOf(replies) \in Seq(Piece)
<1>1. HasOutput(Batch) /\ HasOutput(Reply)
  BY DEF HasOutput, Batch, Reply
<1>2. handed \in Seq(Batch) /\ microtasks \in Seq(Reply) /\ replies \in Seq(Reply) /\ unclaimed \in Seq(Piece)
  BY DEF TypeOK
<1> QED BY <1>1, <1>2, OutsInSeq

LEMMA Associative ==
  ASSUME NEW a \in Seq(Piece), NEW b \in Seq(Piece), NEW c \in Seq(Piece)
  PROVE  (a \o b) \o c = a \o (b \o c)
  BY ConcatAssociative

LEMMA OfRunOfBoth ==
  ASSUME NEW a \in Seq(Piece), NEW b \in Seq(Piece), NEW n
  PROVE  OfRun(a \o b, n) = OfRun(a, n) \o OfRun(b, n)
  BY OfRunConcat

\* The output handed, unclaimed, received and on its way.
Joined(h, u, m, r) == h \o u \o m \o r

LEMMA JoinedInSeq ==
  ASSUME NEW h \in Seq(Piece), NEW u \in Seq(Piece), NEW m \in Seq(Piece), NEW r \in Seq(Piece)
  PROVE  Joined(h, u, m, r) \in Seq(Piece)
  BY ConcatProperties DEF Joined

\* Where output is between the callers and the bridge makes no difference to its order.
LEMMA Rejoined ==
  ASSUME NEW h \in Seq(Piece), NEW u \in Seq(Piece), NEW o \in Seq(Piece), NEW m \in Seq(Piece), NEW r \in Seq(Piece)
  PROVE  /\ Joined(h, u, m, o \o r) = Joined(h, u, m \o o, r)
         /\ Joined(h, u, o \o m, r) = Joined(h, u \o o, m, r)
         /\ Joined(h, u \o o, m, r) = Joined(h \o (u \o o), <<>>, m, r)
<1> DEFINE e == <<>>
           a == h \o u
           b == a \o m
           c == u \o o
           d == h \o c
<1>1. a \in Seq(Piece)
  OBVIOUS
<1>2. c \in Seq(Piece)
  OBVIOUS
<1>3. (h \o u) \o o = h \o (u \o o)
  BY ConcatAssociative
<1> HIDE DEF a, c
<1>13. b \in Seq(Piece)
  BY <1>1
<1>14. d \in Seq(Piece)
  BY <1>2
<1>6. (a \o o) \o m = a \o (o \o m)
  BY <1>1, Associative
<1> HIDE DEF b, d
<1>4. (a \o m) \o o = a \o (m \o o)
  BY <1>1, Associative
<1>5. (b \o o) \o r = b \o (o \o r)
  BY <1>13, Associative
<1>7. d \o e = d
  BY <1>14, ConcatEmptySeq
<1>8. Joined(h, u, m, o \o r) = b \o (o \o r) /\ Joined(h, u, m \o o, r) = (a \o (m \o o)) \o r
  BY DEF Joined, a, b
<1>9. Joined(h, u, o \o m, r) = (a \o (o \o m)) \o r /\ Joined(h, c, m, r) = (d \o m) \o r
  BY DEF Joined, a, d
<1>10. Joined(d, e, m, r) = ((d \o e) \o m) \o r
  BY DEF Joined
<1>11. Joined(h, u, m, o \o r) = Joined(h, u, m \o o, r)
  BY <1>4, <1>5, <1>8 DEF b
<1>12. Joined(h, u, o \o m, r) = Joined(h, c, m, r)
  BY <1>3, <1>6, <1>9 DEF a, c, d
<1>15. Joined(h, c, m, r) = Joined(d, e, m, r)
  BY <1>7, <1>9, <1>10
<1> QED BY <1>11, <1>12, <1>15 DEF c, d, e

\* Output of other runs may go.
LEMMA RunOfJoined ==
  ASSUME NEW h \in Seq(Piece), NEW u \in Seq(Piece), NEW m \in Seq(Piece), NEW r \in Seq(Piece), NEW n
  PROVE  OfRun(Joined(h, u, m, r), n) = Joined(OfRun(h, n), OfRun(u, n), OfRun(m, n), OfRun(r, n))
<1> DEFINE a == h \o u
           b == a \o m
<1>1. a \in Seq(Piece)
  OBVIOUS
<1>2. OfRun(h \o u, n) = OfRun(h, n) \o OfRun(u, n)
  BY OfRunConcat
<1> HIDE DEF a
<1>3. b \in Seq(Piece)
  BY <1>1
<1> HIDE DEF b
<1>4. OfRun(a \o m, n) = OfRun(a, n) \o OfRun(m, n)
  BY <1>1, OfRunOfBoth
<1>5. OfRun(b \o r, n) = OfRun(b, n) \o OfRun(r, n)
  BY <1>3, OfRunOfBoth
<1> QED BY <1>2, <1>4, <1>5 DEF Joined, a, b

\* An empty output adds nothing.
LEMMA EmptyOutput ==
  ASSUME NEW s \in Seq(Piece), NEW o, Len(o) = 0, o \in Seq(Piece)
  PROVE  s \o o = s /\ o \o s = s /\ o = <<>>
<1>1. o = <<>>
  OBVIOUS
<1> QED BY <1>1, ConcatEmptySeq

\* The pieces, from the callers back to the bridge.
LEMMA PiecesJoined == Pieces = Joined(OutsOf(handed), unclaimed, OutsOf(microtasks), OutsOf(replies))
  BY DEF Pieces, Joined

\* Output of a reply that is well made is kept whole.
LEMMA KeptWhole ==
  ASSUME TypeOK, NEW reply \in Reply, WellMade(reply, sent, run, unclaimed)
  PROVE  reply.out \in Seq(Piece) /\ Kept(reply) = unclaimed \o reply.out
<1>1. reply.out \in Seq(Piece) /\ unclaimed \in Seq(Piece) /\ reply.ok \in BOOLEAN
  BY DEF TypeOK, Reply
<1>2. ~reply.ok => Len(reply.out) = 0
  BY DEF WellMade
<1>3. ~reply.ok => unclaimed \o reply.out = unclaimed
  BY <1>1, <1>2, EmptyOutput
<1> QED BY <1>1, <1>3 DEF Kept

\* The three ways output moves towards the callers: read as a reply waited for,
LEMMA WaitedForKeepsTrail ==
  ASSUME TypeOK, ReceiveWaitedFor
  PROVE  Pieces' = Pieces
<1> DEFINE r == Head(replies)
           rest == Tail(replies)
<1>1. /\ replies # <<>> /\ replies' = rest /\ microtasks' = Append(microtasks, r)
      /\ handed' = handed /\ unclaimed' = unclaimed
  BY DEF ReceiveWaitedFor
<1>2. r \in Reply /\ rest \in Seq(Reply) /\ OutsOf(replies) = r.out \o OutsOf(rest)
  BY <1>1, OutputTyped, OutsHead
<1> HIDE DEF r, rest
<1>3. OutsOf(microtasks') = OutsOf(microtasks) \o r.out
  BY <1>1, <1>2, OutputTyped, OutsAppend
<1>4. r.out \in Seq(Piece) /\ OutsOf(rest) \in Seq(Piece)
  BY <1>2, OutputTyped, OutsInSeq DEF HasOutput
<1>5. Joined(OutsOf(handed), unclaimed, OutsOf(microtasks), r.out \o OutsOf(rest))
      = Joined(OutsOf(handed), unclaimed, OutsOf(microtasks) \o r.out, OutsOf(rest))
  BY <1>4, OutputTyped, Rejoined
<1>6. Pieces' = Joined(OutsOf(handed'), unclaimed', OutsOf(microtasks'), OutsOf(replies'))
  BY DEF Pieces, Joined
<1> QED BY <1>1, <1>2, <1>3, <1>5, <1>6, PiecesJoined

\* read as a late reply and kept,
LEMMA LateKeepsTrail ==
  ASSUME TypeOK, NoOvertaking, Lasts, OutputInv, ReceiveLate
  PROVE  Pieces' = Pieces
<1> DEFINE r == Head(replies)
           rest == Tail(replies)
           none == OutsOf(microtasks)
<1>1. /\ replies # <<>> /\ replies' = rest /\ unclaimed' = Kept(r)
      /\ handed' = handed /\ microtasks' = microtasks /\ timedOut # {}
  BY DEF ReceiveLate
<1>2. r \in Reply /\ rest \in Seq(Reply) /\ OutsOf(replies) = r.out \o OutsOf(rest)
  BY <1>1, OutputTyped, OutsHead
<1>3. microtasks = <<>>
  BY <1>1 DEF NoOvertaking
<1>4. WellMade(r, sent, run, unclaimed)
  <2>1. 1 \in DOMAIN replies /\ replies[1] = r
    BY <1>1, OutputTyped
  <2> QED BY <2>1 DEF OutputInv, RepliesWellMade
<1> HIDE DEF r, rest
<1>5. unclaimed' = unclaimed \o r.out /\ r.out \in Seq(Piece) /\ OutsOf(rest) \in Seq(Piece)
  BY <1>1, <1>2, <1>4, KeptWhole, OutputTyped, OutsInSeq
<1>6. none = <<>> /\ none \in Seq(Piece)
  BY <1>3, OutsEmpty, OutputTyped
<1> HIDE DEF none
<1>7. none \o r.out = r.out \o none
  BY <1>5, <1>6, ConcatEmptySeq
<1> DEFINE h == OutsOf(handed)
           o == r.out
           t == OutsOf(rest)
<1>8. Joined(h, unclaimed, none, o \o t) = Joined(h, unclaimed \o o, none, t)
  <2>1. h \in Seq(Piece)
    BY OutputTyped
  <2>2. unclaimed \in Seq(Piece)
    BY OutputTyped
  <2>3. o \in Seq(Piece) /\ t \in Seq(Piece)
    BY <1>5
  <2>4. none \in Seq(Piece)
    BY <1>6
  <2> HIDE DEF h, o, t
  <2>5. Joined(h, unclaimed, none, o \o t) = Joined(h, unclaimed, none \o o, t)
    BY <2>1, <2>2, <2>3, <2>4, Rejoined
  <2>6. Joined(h, unclaimed, o \o none, t) = Joined(h, unclaimed \o o, none, t)
    BY <2>1, <2>2, <2>3, <2>4, Rejoined
  <2> QED BY <1>7, <2>5, <2>6 DEF o
<1>9. Pieces' = Joined(OutsOf(handed'), unclaimed', OutsOf(microtasks'), OutsOf(replies'))
  BY DEF Pieces, Joined
<1> QED BY <1>1, <1>2, <1>5, <1>8, <1>9, PiecesJoined DEF none

\* The output a reset drops is of earlier runs.
LEMMA DroppedIsOld ==
  ASSUME TypeOK, OutputInv, Lasts, NEW reply \in Reply,
         WellMade(reply, sent, run, unclaimed), Restarting(reply, sent)
  PROVE  OfRun(unclaimed, run) = <<>>
<1> DEFINE Old == {p \in Piece : p.run # run}
<1>1. \A k \in DOMAIN unclaimed : unclaimed[k].run # run
  <2>1. \A k \in DOMAIN unclaimed : unclaimed[k].run < reply.run
    BY DEF WellMade, Precedes
  <2>2. reply.run <= run /\ reply.run \in Nat /\ run \in Nat
    BY DEF WellMade, Reply, TypeOK
  <2>3. \A k \in DOMAIN unclaimed : unclaimed[k].run \in Nat
    BY RunsTyped
  <2> QED BY <2>1, <2>2, <2>3
<1>2. unclaimed \in Seq(Old)
  <2>1. unclaimed \in Seq(Piece)
    BY DEF TypeOK
  <2>2. Len(unclaimed) \in Nat /\ unclaimed = [k \in 1 .. Len(unclaimed) |-> unclaimed[k]]
        /\ \A k \in 1 .. Len(unclaimed) : unclaimed[k] \in Piece /\ k \in DOMAIN unclaimed
    BY <2>1
  <2>3. \A k \in 1 .. Len(unclaimed) : unclaimed[k] \in Old
    BY <1>1, <2>2
  <2> HIDE DEF Old
  <2> QED BY <2>2, <2>3
<1>3. \A p \in Old : p.run # run
  OBVIOUS
<1> HIDE DEF Old
<1> QED BY <1>2, <1>3, OfRunOthers

\* Output of a run in nothing, and next to output of other runs.
LEMMA OfRunOfNothing ==
  ASSUME NEW n
  PROVE  OfRun(<<>>, n) = <<>>
<1> DEFINE none == <<>>
<1>1. none \in Seq({}) /\ \A p \in {} : p.run # n
  OBVIOUS
<1> HIDE DEF none
<1>2. OfRun(none, n) = <<>>
  BY <1>1, OfRunOthers
<1> QED BY <1>2 DEF none

LEMMA OldMayGo ==
  ASSUME NEW h \in Seq(Piece), NEW u \in Seq(Piece), NEW m \in Seq(Piece), NEW r \in Seq(Piece), NEW n,
         OfRun(u, n) = <<>>
  PROVE  OfRun(Joined(h, u, m, r), n) = OfRun(Joined(h, <<>>, m, r), n)
<1> DEFINE none == <<>>
<1>1. OfRun(none, n) = none /\ none \in Seq(Piece)
  BY OfRunOfNothing
<1> HIDE DEF none
<1>2. OfRun(Joined(h, none, m, r), n) = Joined(OfRun(h, n), OfRun(none, n), OfRun(m, n), OfRun(r, n))
  BY <1>1, RunOfJoined
<1>3. OfRun(Joined(h, u, m, r), n) = Joined(OfRun(h, n), OfRun(u, n), OfRun(m, n), OfRun(r, n))
  BY RunOfJoined
<1> QED BY <1>1, <1>2, <1>3 DEF none

\* and claimed or kept by a continuation.
LEMMA SettlingKeepsTrail ==
  ASSUME TypeOK, OutputInv, Lasts, RunMicrotask
  PROVE  Trail' = Trail
<1> DEFINE r == Head(microtasks)
           o == r.out
           later == Tail(microtasks)
           h == OutsOf(handed)
           m == OutsOf(later)
           R == OutsOf(replies)
<1>1. microtasks # <<>> /\ microtasks' = later /\ replies' = replies /\ sent' = sent /\ run' = run
  BY DEF RunMicrotask, SettleRequest, SettleInterrupt, bridgeVars
<1>2. r \in Reply /\ later \in Seq(Reply) /\ OutsOf(microtasks) = r.out \o OutsOf(later)
  BY <1>1, OutputTyped, OutsHead
<1>3. WellMade(r, sent, run, unclaimed)
  <2>1. 1 \in DOMAIN microtasks /\ microtasks[1] = r
    BY <1>1, OutputTyped
  <2> QED BY <2>1 DEF OutputInv, RepliesWellMade
<1>4. /\ Pieces = Joined(h, unclaimed, o \o m, R)
      /\ Pieces' = Joined(OutsOf(handed'), unclaimed', m, R)
  BY <1>1, <1>2 DEF Pieces, Joined
<1>5. h \in Seq(Piece) /\ unclaimed \in Seq(Piece) /\ R \in Seq(Piece) /\ handed \in Seq(Batch) /\ HasOutput(Batch)
  BY OutputTyped
<1>6. o \in Seq(Piece) /\ Kept(r) = unclaimed \o o
  BY <1>2, <1>3, KeptWhole
<1>7. m \in Seq(Piece)
  BY <1>2, OutputTyped, OutsInSeq
<1>8. r.ok \in BOOLEAN /\ r.run \in Nat
  BY <1>2 DEF Reply
<1>9. SettleInterrupt => unclaimed' = Kept(r) /\ handed' = handed
  BY DEF SettleInterrupt
<1>10. ~SettleInterrupt /\ ~r.ok => unclaimed' = unclaimed /\ handed' = handed
  BY <1>8 DEF RunMicrotask, SettleRequest
<1> DEFINE batch == [run |-> r.run, out |-> ClaimedWith(r)]
<1>11. ~SettleInterrupt /\ r.ok => unclaimed' = LeftBy(r)
                     /\ handed' = IF HandsOverOutput(sent[r.id]) THEN Append(handed, batch) ELSE handed
  BY <1>8 DEF RunMicrotask, SettleRequest
<1>12. batch \in Batch /\ batch.out = ClaimedWith(r)
  BY <1>2, <1>8, OutOfReply DEF Batch
<1> HIDE DEF r, later, batch
<1> HIDE DEF o, h, m, R
<1>13. Pieces = Joined(h, unclaimed \o o, m, R)
  BY <1>4, <1>5, <1>6, <1>7, Rejoined
<1>14. Pieces' = Pieces => Trail' = Trail
  BY <1>1 DEF Trail
<1>15. CASE SettleInterrupt
  BY <1>4, <1>6, <1>9, <1>13, <1>14, <1>15 DEF h
<1>16. CASE unclaimed' = unclaimed /\ handed' = handed /\ Len(o) = 0
  <2>1. unclaimed \o o = unclaimed
    BY <1>5, <1>6, <1>16, EmptyOutput
  <2> QED BY <1>4, <1>13, <1>14, <1>16, <2>1 DEF h
<1>17. CASE ~SettleInterrupt /\ r.ok /\ HandsOverOutput(sent[r.id])
  <2>1. OutsOf(handed') = h \o ClaimedWith(r)
    BY <1>5, <1>11, <1>12, <1>17, OutsAppend DEF h
  <2>2. unclaimed' = <<>>
    BY <1>11, <1>17 DEF LeftBy
  <2>3. CASE ~RestartsOutput(sent[r.id])
    <3>1. ClaimedWith(r) = unclaimed \o o
      BY <2>3 DEF ClaimedWith, o
    <3>2. Joined(h, unclaimed \o o, m, R) = Joined(h \o (unclaimed \o o), <<>>, m, R)
      BY <1>5, <1>6, <1>7, Rejoined
    <3> QED BY <1>4, <1>13, <1>14, <2>1, <2>2, <3>1, <3>2
  <2>4. CASE RestartsOutput(sent[r.id])
    <3>1. ClaimedWith(r) = o
      BY <2>4 DEF ClaimedWith, o
    <3>2. Len(o) = 0
      BY <1>3, <2>4 DEF WellMade, o
    <3>3. h \o o = h /\ unclaimed \o o = unclaimed
      BY <1>5, <1>6, <3>2, EmptyOutput
    <3>4. OfRun(unclaimed, run) = <<>>
      BY <1>2, <1>3, <1>17, <2>4, DroppedIsOld DEF Restarting, r
    <3>5. Pieces' = Joined(h, <<>>, m, R)
      BY <1>4, <2>1, <2>2, <3>1, <3>3
    <3>6. h \in Seq(Piece) /\ unclaimed \in Seq(Piece) /\ m \in Seq(Piece) /\ R \in Seq(Piece)
      BY <1>5, <1>7
    <3>7. OfRun(Joined(h, unclaimed, m, R), run) = OfRun(Joined(h, <<>>, m, R), run)
      BY <3>4, <3>6, OldMayGo
    <3> QED BY <1>1, <1>13, <3>3, <3>5, <3>7 DEF Trail
  <2> QED BY <2>3, <2>4
<1>18. CASE ~SettleInterrupt /\ r.ok /\ ~HandsOverOutput(sent[r.id])
  <2>1. Len(o) = 0
    BY <1>3, <1>18 DEF WellMade, o
  <2>2. ~RestartsOutput(sent[r.id])
    BY <1>18 DEF RestartsOutput, HandsOverOutput
  <2> QED BY <1>11, <1>16, <1>18, <2>1, <2>2 DEF LeftBy
<1>19. CASE ~SettleInterrupt /\ ~r.ok
  <2>1. Len(o) = 0
    BY <1>3, <1>19 DEF WellMade, o
  <2> QED BY <1>10, <1>16, <1>19, <2>1
<1> QED BY <1>8, <1>15, <1>17, <1>18, <1>19

\* One reply more from the bridge comes at the end of the trail.
LEMMA AnswerLengthensTrail ==
  ASSUME TypeOK, TypeOK', Bridge, NEW reply \in Reply, replies' = Append(replies, reply), run' = run
  PROVE  Trail' = Trail \o OfRun(reply.out, run)
<1> DEFINE h == OutsOf(handed)
           m == OutsOf(microtasks)
           R == OutsOf(replies)
           o == reply.out
           front == h \o unclaimed \o m
<1>1. handed' = handed /\ unclaimed' = unclaimed /\ microtasks' = microtasks
  BY DEF Bridge, clientVars
<1>2. h \in Seq(Piece) /\ unclaimed \in Seq(Piece) /\ m \in Seq(Piece) /\ R \in Seq(Piece) /\ replies \in Seq(Reply)
  BY OutputTyped
<1>3. OutsOf(replies') = R \o o /\ o \in Seq(Piece)
  BY <1>2, OutputTyped, OutsAppend DEF HasOutput
<1>4. Pieces = front \o R /\ Pieces' = front \o (R \o o)
  BY <1>1, <1>3 DEF Pieces
<1> HIDE DEF h, m, R, o
<1>5. front \in Seq(Piece)
  BY <1>2, ConcatProperties
<1> HIDE DEF front
<1> DEFINE all == front \o R
<1>6. all \in Seq(Piece)
  BY <1>2, <1>5, ConcatProperties
<1>7. all \o o = front \o (R \o o)
  BY <1>2, <1>3, <1>5, Associative
<1> HIDE DEF all
<1>8. OfRun(all \o o, run) = OfRun(all, run) \o OfRun(o, run)
  BY <1>3, <1>6, OfRunOfBoth
<1> QED BY <1>4, <1>7, <1>8 DEF Trail, all, o

-----------------------------------------------------------------------------
(* The trail of a new run is empty *)

\* The pieces of the runs up to r.
SoFar(r) == {p \in Piece : p.run <= r}

\* A sequence whose elements are known one by one.
LEMMA ElementsIn ==
  ASSUME NEW S, NEW M, NEW seq \in Seq(M), \A i \in DOMAIN seq : seq[i] \in S
  PROVE  seq \in Seq(S)
<1>1. Len(seq) \in Nat /\ seq = [i \in 1 .. Len(seq) |-> seq[i]] /\ DOMAIN seq = 1 .. Len(seq)
  OBVIOUS
<1> QED BY <1>1

LEMMA OutsIn ==
  ASSUME NEW S, NEW M, NEW seq \in Seq(M), \A i \in DOMAIN seq : seq[i].out \in Seq(S)
  PROVE  OutsOf(seq) \in Seq(S)
<1> DEFINE outs == [i \in DOMAIN seq |-> seq[i].out]
<1>1. DOMAIN seq = 1 .. Len(seq) /\ Len(seq) \in Nat
  OBVIOUS
<1>2. outs \in Seq(Seq(S))
  BY <1>1
<1> HIDE DEF outs
<1>3. FlattenSeq(outs) \in Seq(S)
  BY <1>2, FlattenInSeq
<1> QED BY <1>3 DEF OutsOf, outs

\* All output there is belongs to runs up to the current one.
LEMMA PiecesSoFar ==
  ASSUME TypeOK, OutputInv, Lasts
  PROVE  Pieces \in Seq(SoFar(run))
<1> DEFINE Old == SoFar(run)
<1>1. /\ handed \in Seq(Batch) /\ microtasks \in Seq(Reply) /\ replies \in Seq(Reply) /\ unclaimed \in Seq(Piece)
  BY DEF TypeOK
<1>2. \A S : \A s \in Seq(S) : \A i \in DOMAIN s : s[i] \in S
  OBVIOUS
<1>3. ASSUME NEW out \in Seq(Piece), \A k \in DOMAIN out : out[k].run <= run
      PROVE  out \in Seq(Old)
  <2>1. \A k \in DOMAIN out : out[k] \in Old
    BY <1>2, <1>3 DEF SoFar
  <2> HIDE DEF Old
  <2> QED BY <2>1, ElementsIn
<1>4. unclaimed \in Seq(Old)
  BY <1>1, <1>3 DEF OutputInv, RunsSoFar
<1>5. OutsOf(handed) \in Seq(Old)
  <2>1. \A i \in DOMAIN handed : handed[i] \in Batch
    BY <1>1, <1>2
  <2>2. \A i \in DOMAIN handed : handed[i].out \in Seq(Old)
    BY <1>3, <2>1 DEF Batch, OutputInv, RunsSoFar
  <2> HIDE DEF Old
  <2> QED BY <1>1, <2>2, OutsIn
<1>6. ASSUME NEW reply \in Reply, WellMade(reply, sent, run, unclaimed)
      PROVE  reply.out \in Seq(Old)
  <2>1. reply.out \in Seq(Piece)
    BY DEF Reply
  <2>2. \A k \in DOMAIN reply.out : reply.out[k].run <= run
    BY <1>6 DEF WellMade
  <2> QED BY <1>3, <2>1, <2>2
<1>7. OutsOf(microtasks) \in Seq(Old)
  <2>1. \A i \in DOMAIN microtasks : microtasks[i] \in Reply
    BY <1>1, <1>2
  <2>2. \A i \in DOMAIN microtasks : microtasks[i].out \in Seq(Old)
    BY <1>6, <2>1 DEF OutputInv, RepliesWellMade
  <2> HIDE DEF Old
  <2> QED BY <1>1, <2>2, OutsIn
<1>8. OutsOf(replies) \in Seq(Old)
  <2>1. \A i \in DOMAIN replies : replies[i] \in Reply
    BY <1>1, <1>2
  <2>2. \A i \in DOMAIN replies : replies[i].out \in Seq(Old)
    BY <1>6, <2>1 DEF OutputInv, RepliesWellMade
  <2> HIDE DEF Old
  <2> QED BY <1>1, <2>2, OutsIn
<1> DEFINE h == OutsOf(handed)
           m == OutsOf(microtasks)
           R == OutsOf(replies)
<1>9. h \in Seq(Old) /\ m \in Seq(Old) /\ R \in Seq(Old)
  BY <1>5, <1>7, <1>8
<1>10. Pieces = h \o unclaimed \o m \o R
  BY DEF Pieces
<1> HIDE DEF Old, h, m, R
<1>11. h \o unclaimed \o m \o R \in Seq(Old)
  BY <1>4, <1>9, ConcatProperties
<1> QED BY <1>10, <1>11 DEF Old

LEMMA NothingOfNextRun ==
  ASSUME TypeOK, OutputInv, Lasts
  PROVE  OfRun(Pieces, run + 1) = <<>>
<1>1. run \in Nat
  BY DEF TypeOK
<1>2. \A p \in SoFar(run) : p.run # run + 1
  BY <1>1 DEF SoFar, Piece
<1> QED BY <1>2, PiecesSoFar, OfRunOthers

-----------------------------------------------------------------------------
(* The trail is what the bridge has handed over *)

\* trail is the output of a run up to chunk upTo, whole and in order.
Unbroken(trail, upTo) ==
  /\ \A i \in 2 .. Len(trail) : trail[i].from = trail[i - 1].to
  /\ IF trail = <<>> THEN upTo = 0 ELSE trail[1].from = 0 /\ trail[Len(trail)].to = upTo

LEMMA ConservedIs == OutputConserved = (Lasts => Unbroken(Trail, taken))
  BY DEF OutputConserved, Lasts, Unbroken

\* One more piece that starts where the trail ends keeps it unbroken.
LEMMA LongerUnbroken ==
  ASSUME NEW trail \in Seq(Piece), NEW upTo \in Nat, Unbroken(trail, upTo), NEW next, next.from = upTo
  PROVE  Unbroken(trail \o <<next>>, next.to)
<1> DEFINE longer == Append(trail, next)
<1>1. /\ trail \o <<next>> = longer
      /\ Len(trail) \in Nat /\ Len(longer) = Len(trail) + 1 /\ longer[Len(trail) + 1] = next
      /\ \A i \in 1 .. Len(trail) : longer[i] = trail[i]
  OBVIOUS
<1>2. longer # <<>>
  BY <1>1
<1> HIDE DEF longer
<1>3. trail = <<>> <=> Len(trail) = 0
  OBVIOUS
<1>4. ASSUME NEW i \in 2 .. Len(longer) PROVE longer[i].from = longer[i - 1].to
  <2>1. CASE i = Len(trail) + 1
    <3>1. Len(trail) >= 1 /\ i - 1 = Len(trail) /\ i - 1 \in 1 .. Len(trail)
      BY <1>1, <2>1
    <3> QED BY <1>1, <1>3, <2>1, <3>1 DEF Unbroken
  <2>2. CASE i # Len(trail) + 1
    <3>1. i \in 2 .. Len(trail) /\ i \in 1 .. Len(trail) /\ i - 1 \in 1 .. Len(trail)
      BY <1>1, <2>2
    <3> QED BY <1>1, <3>1 DEF Unbroken
  <2> QED BY <2>1, <2>2
<1>5. longer[1].from = 0
  <2>1. CASE Len(trail) = 0
    BY <1>1, <1>3, <2>1 DEF Unbroken
  <2>2. CASE Len(trail) # 0
    BY <1>1, <1>3, <2>2 DEF Unbroken
  <2> QED BY <2>1, <2>2
<1> QED BY <1>1, <1>2, <1>4, <1>5 DEF Unbroken

\* A snapshot hands over what was written since the last; a load or a reset starts afresh.
LEMMA AnswersKeepConserved ==
  ASSUME TypeOK, TypeOK', OutputInv, Lasts, Unbroken(Trail, taken), Bridge
  PROVE  Unbroken(Trail', taken')
<1> DEFINE none == <<>>
<1>0. run \in Nat /\ taken \in Nat /\ written \in Nat /\ answered \in Nat
  BY DEF TypeOK
<1>1. Pieces \in Seq(Piece) /\ Trail \in Seq(Piece)
  <2>1. Pieces \in Seq(Piece)
    BY OutputTyped, JoinedInSeq, PiecesJoined
  <2>2. Trail \in Seq(RunIn(Piece, run))
    BY <2>1, OfRunInSeq DEF Trail
  <2>3. \A i \in DOMAIN Trail : Trail[i] \in Piece
    <3>1. \A S : \A s \in Seq(S) : \A i \in DOMAIN s : s[i] \in S
      OBVIOUS
    <3> QED BY <2>2, <3>1 DEF RunIn
  <2> QED BY <2>1, <2>2, <2>3, ElementsIn
<1>2. CASE WriteOutput
  <2>1. Pieces' = Pieces /\ run' = run /\ taken' = taken
    BY <1>2 DEF WriteOutput, Bridge, clientVars, Pieces, OutsOf
  <2> QED BY <2>1 DEF Trail
<1>3. ASSUME NEW ok \in BOOLEAN, NEW out, out = none, Answer(ok, run, out), run' = run, taken' = taken
      PROVE  Unbroken(Trail', taken')
  <2> DEFINE r == [id |-> answered + 1, ok |-> ok, run |-> run, out |-> out]
  <2>1. r \in Reply /\ replies' = Append(replies, r) /\ r.out = out
    BY <1>0, <1>3 DEF Answer, Reply
  <2> HIDE DEF r
  <2>2. Trail' = Trail \o OfRun(out, run)
    BY <1>3, <2>1, AnswerLengthensTrail
  <2>3. OfRun(out, run) = none
    BY <1>3, OfRunOfNothing
  <2>4. Trail \o none = Trail
    BY <1>1, ConcatEmptySeq
  <2> QED BY <1>3, <2>2, <2>3, <2>4
<1>4. CASE AnswerSnapshot
  <2>0. run' = run /\ taken' = written /\ Answer(TRUE, run, NewOutput)
    BY <1>4 DEF AnswerSnapshot
  <2>1. CASE taken = written
    <3>1. NewOutput = none /\ taken' = taken
      BY <2>0, <2>1 DEF NewOutput
    <3> QED BY <1>3, <2>0, <3>1
  <2>2. CASE taken # written
    <3> DEFINE p == [run |-> run, from |-> taken, to |-> written]
               out == <<p>>
    <3>1. NewOutput = out
      BY <2>2 DEF NewOutput
    <3>2. p \in Piece /\ p.run = run /\ p.from = taken /\ p.to = written
      BY <1>0 DEF Piece
    <3> HIDE DEF p
    <3>3. out \in Seq(Piece)
      BY <3>2
    <3>4. OfRun(out, run) = out
      BY <3>2, OfRunOne
    <3> DEFINE r == [id |-> answered + 1, ok |-> TRUE, run |-> run, out |-> NewOutput]
    <3>5. r \in Reply /\ replies' = Append(replies, r) /\ r.out = out
      BY <1>0, <2>0, <3>1, <3>3 DEF Answer, Reply
    <3> HIDE DEF r
    <3>6. Trail' = Trail \o OfRun(r.out, run)
      BY <2>0, <3>5, AnswerLengthensTrail
    <3>7. Unbroken(Trail \o <<p>>, p.to)
      BY <1>0, <1>1, <3>2, LongerUnbroken
    <3> QED BY <2>0, <3>2, <3>4, <3>5, <3>6, <3>7
  <2> QED BY <2>1, <2>2
<1>5. CASE AnswerRestart
  <2> DEFINE r == [id |-> answered + 1, ok |-> TRUE, run |-> run + 1, out |-> none]
  <2>1. /\ replies' = Append(replies, r) /\ run' = run + 1 /\ taken' = 0
        /\ handed' = handed /\ unclaimed' = unclaimed /\ microtasks' = microtasks
    BY <1>5 DEF AnswerRestart, Answer, Bridge, clientVars
  <2>2. r \in Reply /\ r.out = none
    BY <1>0 DEF Reply
  <2> HIDE DEF r
  <2>3. OutsOf(replies') = OutsOf(replies) \o none
    BY <2>1, <2>2, OutputTyped, OutsAppend
  <2>4. OutsOf(replies') = OutsOf(replies)
    BY <2>3, OutputTyped, ConcatEmptySeq
  <2>5. Pieces' = Pieces
    BY <2>1, <2>4 DEF Pieces
  <2>6. Trail' = none
    BY <2>1, <2>5, NothingOfNextRun DEF Trail
  <2>7. Unbroken(none, 0)
    BY DEF Unbroken
  <2> QED BY <2>1, <2>6, <2>7
<1>6. CASE AnswerWithoutOutput
  BY <1>3, <1>6 DEF AnswerWithoutOutput
<1>7. CASE AnswerError
  BY <1>3, <1>7 DEF AnswerError
<1> QED BY <1>2, <1>4, <1>5, <1>6, <1>7 DEF Bridge, BridgeNext

\* Every step keeps the trail whole.
LEMMA ConservedStep ==
  TypeOK /\ TypeOK' /\ InOrder /\ NoOvertaking /\ OutputInv /\ OutputConserved /\ [Next]_vars => OutputConserved'
<1> SUFFICES ASSUME TypeOK, TypeOK', InOrder, NoOvertaking, OutputInv, OutputConserved, [Next]_vars, Lasts'
             PROVE  Unbroken(Trail', taken')
  BY DEF OutputConserved, Lasts, Unbroken
<1>1. Lasts /\ Unbroken(Trail, taken)
  BY StaysLasting, ConservedIs
<1>2. ~Close /\ ~Disconnected /\ ~OwnerFails /\ ~ReceiveGarbage /\ \A id \in pending : ~InterruptTimesOut(id)
  BY DEF Lasts, Open, Close, Disconnected, OwnerFails, ReceiveGarbage, InterruptTimesOut, Fail
<1>3. ASSUME UNCHANGED <<run, taken, replies, microtasks, unclaimed, handed>> PROVE Unbroken(Trail', taken')
  BY <1>1, <1>3 DEF Trail, Pieces
<1>4. CASE UNCHANGED vars \/ (\E what \in Asked : Request(what)) \/ \E id \in pending : RequestTimesOut(id)
  BY <1>3, <1>4 DEF vars, bridgeVars, clientVars, Request, RequestTimesOut
<1>5. CASE ReceiveWaitedFor
  <2>1. Pieces' = Pieces /\ run' = run /\ taken' = taken
    BY <1>5, WaitedForKeepsTrail DEF ReceiveWaitedFor
  <2> QED BY <1>1, <2>1 DEF Trail
<1>6. CASE ReceiveLate
  <2>1. Pieces' = Pieces /\ run' = run /\ taken' = taken
    BY <1>1, <1>6, LateKeepsTrail DEF ReceiveLate
  <2> QED BY <1>1, <2>1 DEF Trail
<1>7. CASE RunMicrotask
  <2>1. Trail' = Trail /\ taken' = taken
    BY <1>1, <1>7, SettlingKeepsTrail DEF RunMicrotask, SettleRequest, SettleInterrupt, bridgeVars
  <2> QED BY <1>1, <2>1
<1>8. CASE Bridge
  BY <1>1, <1>8, AnswersKeepConserved
<1> QED BY <1>1, <1>2, <1>4, <1>5, <1>6, <1>7, <1>8, NoneUnknown DEF Next, TimeOut

\* Timeouts, pauses, late replies and errors neither lose nor repeat nor reorder
\* program output on its way to the callers, while the connection lasts.
THEOREM NoOutputLost == Spec => []OutputConserved
<1>1. Init => OutputInv
  <2> SUFFICES ASSUME Init PROVE OutputInv
    OBVIOUS
  <2>1. DOMAIN handed = {} /\ DOMAIN unclaimed = {} /\ DOMAIN microtasks = {} /\ DOMAIN replies = {} /\ Ids = {} /\ interrupts = {}
    BY DEF Init, BridgeInit, Ids
  <2> QED BY <2>1 DEF OutputInv, PausesOnly, AllAwaited, RunsSoFar, RepliesWellMade, RunsInOrder
<1>2. Init => OutputConserved
  <2> SUFFICES ASSUME Init PROVE OutputConserved
    OBVIOUS
  <2> DEFINE none == <<>>
  <2>1. handed = none /\ unclaimed = none /\ microtasks = none /\ replies = none /\ taken = 0
    BY DEF Init, BridgeInit
  <2>2. OutsOf(none) = none
    BY OutsEmpty
  <2>3. none \o none = none
    OBVIOUS
  <2>4. Pieces = none
    BY <2>1, <2>2, <2>3 DEF Pieces
  <2>5. Trail = none
    BY <2>4, OfRunOfNothing DEF Trail
  <2>6. Unbroken(none, 0)
    BY DEF Unbroken
  <2> QED BY <2>1, <2>5, <2>6, ConservedIs
<1>3. TypeOK /\ InOrder /\ NoOvertaking /\ OutputInv /\ [Next]_vars => OutputInv'
  BY OutputStep
<1>4. TypeOK /\ TypeOK' /\ InOrder /\ NoOvertaking /\ OutputInv /\ OutputConserved /\ [Next]_vars => OutputConserved'
  BY ConservedStep
<1> QED BY <1>1, <1>2, <1>3, <1>4, TypeCorrect, NeverOvertakes, PTL DEF Spec
=============================================================================
