-------------------------- MODULE ServerPartsProofs --------------------------
(***************************************************************************)
(* Proofs about the parts of the server (ServerParts): the client's roots, *)
(* the search for a desktop session, the output of a run and the stdio     *)
(* proxy.  The script of a do file, the encoder and decoder and the        *)
(* operands of rars_eval are in ScriptAndWordsProofs.                      *)
(***************************************************************************)
EXTENDS ServerParts, DataLemmas

-----------------------------------------------------------------------------
(* A step of the composition is a step of its part *)

LEMMA StepOfAPart ==
  ASSUME [PartsNext]_partsVars
  PROVE  /\ part' = part
         /\ part = "proxy" => Proxy!Next \/ UNCHANGED proxyVars
         /\ part = "live" => Live!Next \/ UNCHANGED liveVars
         /\ part = "output" => Output!Next \/ UNCHANGED outputVars
<1>1. CASE UNCHANGED partsVars
  BY <1>1 DEF partsVars, serverVars, bridgeVars
<1>2. CASE PartsNext
  BY <1>2 DEF PartsNext, Client, Vhdl, Evaluate, Assemble, Capture, Disassemble, serverVars, bridgeVars
<1> QED BY <1>1, <1>2

-----------------------------------------------------------------------------
(* The client's roots (WorkspaceRoots).  Three facts carry the proof:      *)
(* notifications arrive in order and are newer than what the server knows  *)
(* (Ordered); the read in use was begun at the last change known, and it   *)
(* is the only one that has not failed (InUse); a call knows what its read *)
(* knew (Shared).                                                          *)

Usable == {"asked", "resolving", "done"}

Newer ==
  \A i \in 1 .. Len(toServer) : toServer[i].type = "changed" =>
    toServer[i].read = NoRead /\ known < toServer[i].roots /\ toServer[i].roots <= version

Rising ==
  \A i, j \in 1 .. Len(toServer) :
    i < j /\ toServer[i].type = "changed" /\ toServer[j].type = "changed"
      => toServer[i].roots < toServer[j].roots

Ordered == Newer /\ Rising /\ known <= version

Awaited ==
  \A i \in 1 .. Len(toServer) : toServer[i].type # "changed" =>
    /\ toServer[i].read \in Reads
    /\ reads[toServer[i].read].state = "asked"
    /\ toServer[i].type = "answer" => toServer[i].roots >= reads[toServer[i].read].begun

OneAnswer ==
  \A i, j \in 1 .. Len(toServer) :
    i < j /\ toServer[i].type # "changed" => toServer[i].read # toServer[j].read

Answers == Awaited /\ OneAnswer

InUse ==
  /\ \A r \in Reads :
       /\ reads[r].state # "unused" => reads[r].by \in 1 .. provider /\ reads[r].begun <= known
       /\ reads[r].state \in {"resolving", "done"} => reads[r].roots >= reads[r].begun
       /\ reads[r].state \in Usable /\ reads[r].begun = known /\ reads[r].by = provider => provided = r
  /\ provided # NoRead => reads[provided].state \in Usable /\ reads[provided].begun = known /\ reads[provided].by = provider

Shared ==
  \A c \in Calls : calls[c].state # "unused" /\ calls[c].read # NoRead =>
    /\ reads[calls[c].read].state # "unused"
    /\ calls[c].since = reads[calls[c].read].begun /\ calls[c].by = reads[calls[c].read].by
    /\ calls[c].state = "done" => reads[calls[c].read].state = "done"

IInv == TypeOK /\ Ordered /\ Answers /\ InUse /\ Shared /\ AskedOnce

\* What a message is, and what is left of a sequence without its first.
LEMMA MessageTypes ==
  /\ \A v \in Nat : Changed(v) \in Messages /\ Changed(v).type = "changed"
                    /\ Changed(v).read = NoRead /\ Changed(v).roots = v
  /\ \A r \in Reads, v \in Nat : Answer(r, v) \in Messages /\ Answer(r, v).type = "answer"
                    /\ Answer(r, v).read = r /\ Answer(r, v).roots = v
  /\ \A r \in Reads : Refusal(r) \in Messages /\ Refusal(r).type = "refusal" /\ Refusal(r).read = r
BY DEF Changed, Answer, Refusal, Messages

LEMMA TailOf ==
  ASSUME NEW s \in Seq(Messages), s # <<>>
  PROVE  /\ Tail(s) \in Seq(Messages) /\ Len(Tail(s)) = Len(s) - 1 /\ Len(s) \in Nat \ {0}
         /\ \A i \in 1 .. Len(Tail(s)) : i + 1 \in 1 .. Len(s) /\ Tail(s)[i] = s[i + 1]
         /\ Head(s) = s[1] /\ 1 \in 1 .. Len(s)
OBVIOUS

LEMMA AppendOf ==
  ASSUME NEW s \in Seq(Messages), NEW m \in Messages
  PROVE  /\ Append(s, m) \in Seq(Messages) /\ Len(Append(s, m)) = Len(s) + 1 /\ Len(s) \in Nat
         /\ \A i \in 1 .. Len(Append(s, m)) :
              Append(s, m)[i] = IF i \in 1 .. Len(s) THEN s[i] ELSE m
OBVIOUS

LEMMA RootsOf ==
  ASSUME TypeOK, NEW i \in 1 .. Len(toServer)
  PROVE  toServer[i] \in Messages /\ toServer[i].roots \in Nat
<1>1. toServer[i] \in Messages
  BY DEF TypeOK
<1> QED
  BY <1>1 DEF Messages

LEMMA InitIInv == Init => IInv
<1> SUFFICES ASSUME Init PROVE IInv
  OBVIOUS
<1>1. /\ version = 0 /\ known = 0 /\ toServer \in Seq(Messages) /\ Len(toServer) = 0
      /\ provider = 0 /\ provided = NoRead
  BY DEF Init
<1>2. /\ reads \in [Reads -> [state : ReadStates, roots : Nat, begun : Nat, by : Nat]]
      /\ \A r \in Reads : reads[r].state = "unused"
  BY DEF Init, ReadStates
<1>3. /\ calls \in [Calls -> [state : CallStates, read : Reads \cup {NoRead}, since : Nat, by : Nat]]
      /\ \A c \in Calls : calls[c].state = "unused"
  BY DEF Init, CallStates
<1>4. TypeOK
  BY <1>1, <1>2, <1>3 DEF TypeOK
<1>5. Ordered /\ Answers
  BY <1>1 DEF Ordered, Newer, Rising, Answers, Awaited, OneAnswer
<1>6. InUse /\ Shared /\ AskedOnce
  BY <1>1, <1>2, <1>3 DEF InUse, Shared, AskedOnce, Usable
<1> QED
  BY <1>4, <1>5, <1>6 DEF IInv

LEMMA ChangesIInv == IInv /\ ClientChanges => IInv'
<1> SUFFICES ASSUME IInv, ClientChanges PROVE IInv'
  OBVIOUS
<1> DEFINE m == Changed(version + 1)
<1>1. m \in Messages /\ m.type = "changed" /\ m.read = NoRead /\ m.roots = version + 1
  BY MessageTypes DEF IInv, TypeOK
<1>2. /\ toServer' \in Seq(Messages) /\ Len(toServer') = Len(toServer) + 1 /\ Len(toServer) \in Nat
      /\ \A i \in 1 .. Len(toServer') : toServer'[i] = IF i \in 1 .. Len(toServer) THEN toServer[i] ELSE m
  BY <1>1, AppendOf DEF IInv, TypeOK, ClientChanges
<1>3. UNCHANGED <<provider, provided, reads, calls, known>> /\ version' = version + 1 /\ version \in Nat /\ known \in Nat
  BY DEF ClientChanges, IInv, TypeOK
<1> HIDE DEF m
<1>4. TypeOK'
  BY <1>2, <1>3 DEF IInv, TypeOK
<1>5. Ordered'
  <2>1. Newer'
    <3> SUFFICES ASSUME NEW i \in 1 .. Len(toServer'), toServer'[i].type = "changed"
                 PROVE  toServer'[i].read = NoRead /\ known < toServer'[i].roots
                        /\ toServer'[i].roots <= version + 1
      BY <1>3 DEF Newer
    <3>1. CASE i \in 1 .. Len(toServer)
      <4>1. toServer'[i] = toServer[i] /\ toServer[i].roots \in Nat
        BY <3>1, <1>2, RootsOf DEF IInv
      <4> QED
        BY <3>1, <4>1, <1>3 DEF IInv, Ordered, Newer
    <3>2. CASE i \notin 1 .. Len(toServer)
      BY <3>2, <1>1, <1>2, <1>3 DEF IInv, Ordered
    <3> QED
      BY <3>1, <3>2
  <2>2. Rising'
    <3> SUFFICES ASSUME NEW i \in 1 .. Len(toServer'), NEW j \in 1 .. Len(toServer'), i < j,
                        toServer'[i].type = "changed", toServer'[j].type = "changed"
                 PROVE  toServer'[i].roots < toServer'[j].roots
      BY DEF Rising
    <3>1. i \in 1 .. Len(toServer) /\ toServer'[i] = toServer[i] /\ toServer[i].roots \in Nat
      <4>1. i \in 1 .. Len(toServer) /\ toServer'[i] = toServer[i]
        BY <1>2
      <4> QED
        BY <4>1, RootsOf DEF IInv
    <3>2. CASE j \in 1 .. Len(toServer)
      BY <3>1, <3>2, <1>2 DEF IInv, Ordered, Rising
    <3>3. CASE j \notin 1 .. Len(toServer)
      BY <3>1, <3>3, <1>1, <1>2, <1>3 DEF IInv, Ordered, Newer
    <3> QED
      BY <3>2, <3>3
  <2> QED
    BY <2>1, <2>2, <1>3 DEF IInv, Ordered
<1>6. Answers'
  <2>1. Awaited'
    BY <1>1, <1>2, <1>3 DEF IInv, Answers, Awaited
  <2>2. OneAnswer'
    <3> SUFFICES ASSUME NEW i \in 1 .. Len(toServer'), NEW j \in 1 .. Len(toServer'), i < j,
                        toServer'[i].type # "changed"
                 PROVE  toServer'[i].read # toServer'[j].read
      BY DEF OneAnswer
    <3>1. i \in 1 .. Len(toServer) /\ toServer'[i] = toServer[i] /\ toServer[i].read \in Reads
      BY <1>1, <1>2 DEF IInv, Answers, Awaited
    <3>2. CASE j \in 1 .. Len(toServer)
      BY <3>1, <3>2, <1>2 DEF IInv, Answers, OneAnswer
    <3>3. CASE j \notin 1 .. Len(toServer)
      BY <3>1, <3>3, <1>1, <1>2, RootsAssumption
    <3> QED
      BY <3>2, <3>3
  <2> QED
    BY <2>1, <2>2 DEF Answers
<1>7. InUse' /\ Shared' /\ AskedOnce'
  BY <1>3 DEF IInv, InUse, Shared, AskedOnce
<1> QED
  BY <1>4, <1>5, <1>6, <1>7 DEF IInv

LEMMA AnswersIInv == ASSUME NEW r \in Reads PROVE IInv /\ ClientAnswers(r) => IInv'
<1> SUFFICES ASSUME IInv, ClientAnswers(r) PROVE IInv'
  OBVIOUS
<1>1. PICK m \in {Answer(r, version), Refusal(r)} : toServer' = Append(toServer, m)
  BY DEF ClientAnswers
<1>2. m \in Messages /\ m.type # "changed" /\ m.read = r /\ (m.type = "answer" => m.roots = version)
  BY <1>1, MessageTypes DEF IInv, TypeOK
<1>3. /\ toServer' \in Seq(Messages) /\ Len(toServer') = Len(toServer) + 1 /\ Len(toServer) \in Nat
      /\ \A i \in 1 .. Len(toServer') : toServer'[i] = IF i \in 1 .. Len(toServer) THEN toServer[i] ELSE m
  BY <1>1, <1>2, AppendOf DEF IInv, TypeOK
<1>4. UNCHANGED <<version, provider, provided, reads, calls, known>>
  BY DEF ClientAnswers
<1>5. reads[r].state = "asked" /\ \A i \in 1 .. Len(toServer) : toServer[i].read # r
  BY DEF ClientAnswers, IInv, TypeOK
<1>6. reads[r].begun <= version /\ reads[r].begun \in Nat
  BY <1>5 DEF IInv, InUse, Ordered, TypeOK
<1>7. TypeOK'
  BY <1>3, <1>4 DEF IInv, TypeOK
<1>8. Ordered'
  BY <1>2, <1>3, <1>4 DEF IInv, TypeOK, Ordered, Newer, Rising
<1>9. Answers'
  <2>1. Awaited'
    BY <1>2, <1>3, <1>4, <1>5, <1>6 DEF IInv, Answers, Awaited
  <2>2. OneAnswer'
    <3> SUFFICES ASSUME NEW i \in 1 .. Len(toServer'), NEW j \in 1 .. Len(toServer'), i < j,
                        toServer'[i].type # "changed"
                 PROVE  toServer'[i].read # toServer'[j].read
      BY DEF OneAnswer
    <3>1. i \in 1 .. Len(toServer) /\ toServer'[i] = toServer[i]
      BY <1>3
    <3>2. CASE j \in 1 .. Len(toServer)
      BY <3>1, <3>2, <1>3 DEF IInv, Answers, OneAnswer
    <3>3. CASE j \notin 1 .. Len(toServer)
      BY <3>1, <3>3, <1>2, <1>3, <1>5
    <3> QED
      BY <3>2, <3>3
  <2> QED
    BY <2>1, <2>2 DEF Answers
<1>10. InUse' /\ Shared' /\ AskedOnce'
  BY <1>4 DEF IInv, InUse, Shared, AskedOnce
<1> QED
  BY <1>7, <1>8, <1>9, <1>10 DEF IInv

LEMMA ProviderIInv == IInv /\ UseRootsProvider => IInv'
<1> SUFFICES ASSUME IInv, UseRootsProvider PROVE IInv'
  OBVIOUS
<1>1. /\ UNCHANGED <<version, toServer, reads, calls, known>>
      /\ provider' = provider + 1 /\ provided' = NoRead /\ provider \in Nat
  BY DEF UseRootsProvider, IInv, TypeOK
<1>2. TypeOK' /\ Shared' /\ AskedOnce'
  BY <1>1 DEF IInv, TypeOK, Shared, AskedOnce
<1>3. Ordered' /\ Answers'
  BY <1>1 DEF IInv, Ordered, Newer, Rising, Answers, Awaited, OneAnswer
<1>4. InUse'
  <2> SUFFICES ASSUME NEW r \in Reads, reads[r].state # "unused"
               PROVE  /\ reads[r].by \in 1 .. provider + 1 /\ reads[r].by # provider + 1 /\ reads[r].begun <= known
                      /\ reads[r].state \in {"resolving", "done"} => reads[r].roots >= reads[r].begun
    BY <1>1 DEF InUse, Usable
  <2>1. reads[r].by \in 1 .. provider
    BY DEF IInv, InUse
  <2> QED
    BY <1>1, <2>1 DEF IInv, InUse
<1> QED
  BY <1>2, <1>3, <1>4 DEF IInv

LEMMA ChangedIInv == IInv /\ RootsChanged => IInv'
<1> SUFFICES ASSUME IInv, RootsChanged PROVE IInv'
  OBVIOUS
<1>1. /\ toServer' \in Seq(Messages) /\ Len(toServer') = Len(toServer) - 1 /\ Len(toServer) \in Nat \ {0}
      /\ \A i \in 1 .. Len(toServer') : i + 1 \in 1 .. Len(toServer) /\ toServer'[i] = toServer[i + 1]
      /\ Head(toServer) = toServer[1] /\ 1 \in 1 .. Len(toServer) /\ toServer[1] \in Messages
  BY TailOf DEF IInv, TypeOK, RootsChanged
<1>2. /\ UNCHANGED <<version, provider, reads, calls>>
      /\ provided' = NoRead /\ known' = toServer[1].roots /\ toServer[1].type = "changed"
  BY <1>1 DEF RootsChanged, Forgot
<1>3. known < known' /\ known' <= version /\ known' \in Nat /\ known \in Nat /\ version \in Nat
  <2>1. toServer[1].roots \in Nat /\ known \in Nat /\ version \in Nat
    BY <1>1, RootsOf DEF IInv, TypeOK
  <2> QED
    BY <2>1, <1>1, <1>2 DEF IInv, Ordered, Newer
<1>4. TypeOK'
  BY <1>1, <1>2, <1>3 DEF IInv, TypeOK
<1>5. Ordered'
  <2>1. Newer'
    BY <1>1, <1>2 DEF IInv, Ordered, Newer, Rising
  <2>2. Rising'
    <3> SUFFICES ASSUME NEW i \in 1 .. Len(toServer'), NEW j \in 1 .. Len(toServer'), i < j,
                        toServer'[i].type = "changed", toServer'[j].type = "changed"
                 PROVE  toServer'[i].roots < toServer'[j].roots
      BY DEF Rising
    <3>1. /\ i + 1 \in 1 .. Len(toServer) /\ toServer'[i] = toServer[i + 1]
          /\ j + 1 \in 1 .. Len(toServer) /\ toServer'[j] = toServer[j + 1] /\ i + 1 < j + 1
      BY <1>1
    <3> QED
      BY <3>1 DEF IInv, Ordered, Rising
  <2> QED
    BY <2>1, <2>2, <1>2, <1>3 DEF Ordered
<1>6. Answers'
  <2>1. Awaited'
    BY <1>1, <1>2 DEF IInv, Answers, Awaited
  <2>2. OneAnswer'
    <3> SUFFICES ASSUME NEW i \in 1 .. Len(toServer'), NEW j \in 1 .. Len(toServer'), i < j,
                        toServer'[i].type # "changed"
                 PROVE  toServer'[i].read # toServer'[j].read
      BY DEF OneAnswer
    <3>1. /\ i + 1 \in 1 .. Len(toServer) /\ toServer'[i] = toServer[i + 1]
          /\ j + 1 \in 1 .. Len(toServer) /\ toServer'[j] = toServer[j + 1] /\ i + 1 < j + 1
      BY <1>1
    <3> QED
      BY <3>1 DEF IInv, Answers, OneAnswer
  <2> QED
    BY <2>1, <2>2 DEF Answers
<1>7. InUse'
  <2> SUFFICES ASSUME NEW r \in Reads, reads[r].state # "unused"
               PROVE  /\ reads[r].by \in 1 .. provider /\ reads[r].begun <= known' /\ reads[r].begun # known'
                      /\ reads[r].state \in {"resolving", "done"} => reads[r].roots >= reads[r].begun
    BY <1>2 DEF InUse, Usable
  <2>1. reads[r].by \in 1 .. provider /\ reads[r].begun <= known /\ reads[r].begun \in Nat
    BY DEF IInv, InUse, TypeOK
  <2> QED
    BY <2>1, <1>3 DEF IInv, InUse
<1>8. Shared' /\ AskedOnce'
  BY <1>2 DEF IInv, Shared, AskedOnce
<1> QED
  BY <1>4, <1>5, <1>6, <1>7, <1>8 DEF IInv

LEMMA AnsweredIInv == IInv /\ ReadAnswered => IInv'
<1> SUFFICES ASSUME IInv, ReadAnswered PROVE IInv'
  OBVIOUS
<1> DEFINE m == toServer[1]
<1>1. /\ toServer' \in Seq(Messages) /\ Len(toServer') = Len(toServer) - 1 /\ Len(toServer) \in Nat \ {0}
      /\ \A i \in 1 .. Len(toServer') : i + 1 \in 1 .. Len(toServer) /\ toServer'[i] = toServer[i + 1]
      /\ Head(toServer) = m /\ 1 \in 1 .. Len(toServer) /\ m \in Messages
  BY TailOf DEF IInv, TypeOK, ReadAnswered
<1>2. m.type # "changed" /\ m.read \in Reads /\ reads[m.read].state = "asked" /\ m.roots \in Nat
      /\ (m.type = "answer" => m.roots >= reads[m.read].begun)
  BY <1>1 DEF IInv, Answers, Awaited, ReadAnswered, Messages
<1>3. \A i \in 1 .. Len(toServer') : toServer'[i].read # m.read
  BY <1>1, <1>2 DEF IInv, Answers, OneAnswer
<1>4. UNCHANGED <<version, provider, calls, known>>
  BY DEF ReadAnswered
<1>5. \/ /\ m.type = "answer" /\ provided' = provided
         /\ reads' = [reads EXCEPT ![m.read].state = "resolving", ![m.read].roots = m.roots]
      \/ /\ reads' = [reads EXCEPT ![m.read].state = "failed"]
         /\ provided' = IF provided = m.read THEN NoRead ELSE provided
  BY <1>1 DEF ReadAnswered, ReadFails, AfterFailure
<1> HIDE DEF m
<1>6. /\ reads' \in [Reads -> [state : ReadStates, roots : Nat, begun : Nat, by : Nat]]
      /\ \A r \in Reads : r # m.read => reads'[r] = reads[r]
      /\ reads'[m.read].begun = reads[m.read].begun /\ reads'[m.read].by = reads[m.read].by
      /\ reads'[m.read].state \in {"resolving", "failed"}
      /\ reads'[m.read].state = "resolving" => m.type = "answer" /\ reads'[m.read].roots = m.roots /\ provided' = provided
      /\ reads'[m.read].state = "failed" => provided' = IF provided = m.read THEN NoRead ELSE provided
      /\ provided' \in Reads \cup {NoRead}
  <2>1. /\ reads \in [Reads -> [state : ReadStates, roots : Nat, begun : Nat, by : Nat]]
        /\ provided \in Reads \cup {NoRead}
    BY DEF IInv, TypeOK
  <2>2. CASE /\ m.type = "answer" /\ provided' = provided
             /\ reads' = [reads EXCEPT ![m.read].state = "resolving", ![m.read].roots = m.roots]
    BY <2>1, <2>2, <1>2 DEF ReadStates
  <2>3. CASE /\ reads' = [reads EXCEPT ![m.read].state = "failed"]
             /\ provided' = IF provided = m.read THEN NoRead ELSE provided
    BY <2>1, <2>3, <1>2 DEF ReadStates
  <2> QED
    BY <2>2, <2>3, <1>5
<1>7. TypeOK'
  BY <1>1, <1>4, <1>6 DEF IInv, TypeOK
<1>8. Ordered'
  <2>1. Newer'
    BY <1>1, <1>4 DEF IInv, Ordered, Newer
  <2>2. Rising'
    BY <1>1, <1>4 DEF IInv, Ordered, Rising
  <2> QED
    BY <2>1, <2>2, <1>4 DEF IInv, Ordered
<1>9. Answers'
  <2>1. Awaited'
    <3> SUFFICES ASSUME NEW i \in 1 .. Len(toServer'), toServer'[i].type # "changed"
                 PROVE  /\ toServer'[i].read \in Reads
                        /\ reads'[toServer'[i].read].state = "asked"
                        /\ toServer'[i].type = "answer" => toServer'[i].roots >= reads'[toServer'[i].read].begun
      BY DEF Awaited
    <3>1. /\ toServer'[i].read \in Reads /\ reads[toServer'[i].read].state = "asked"
          /\ toServer'[i].type = "answer" => toServer'[i].roots >= reads[toServer'[i].read].begun
      BY <1>1 DEF IInv, Answers, Awaited
    <3> QED
      BY <3>1, <1>3, <1>6
  <2>2. OneAnswer'
    <3> SUFFICES ASSUME NEW i \in 1 .. Len(toServer'), NEW j \in 1 .. Len(toServer'), i < j,
                        toServer'[i].type # "changed"
                 PROVE  toServer'[i].read # toServer'[j].read
      BY DEF OneAnswer
    <3>1. /\ i + 1 \in 1 .. Len(toServer) /\ toServer'[i] = toServer[i + 1]
          /\ j + 1 \in 1 .. Len(toServer) /\ toServer'[j] = toServer[j + 1] /\ i + 1 < j + 1
      BY <1>1
    <3> QED
      BY <3>1 DEF IInv, Answers, OneAnswer
  <2> QED
    BY <2>1, <2>2 DEF Answers
<1>10. InUse'
  BY <1>2, <1>4, <1>6, RootsAssumption DEF IInv, InUse, Usable, TypeOK
<1>11. Shared'
  BY <1>2, <1>4, <1>6 DEF IInv, Shared, TypeOK
<1>12. AskedOnce'
  <2> SUFFICES ASSUME NEW r \in Reads, NEW s \in Reads,
                      {reads'[r].state, reads'[s].state} \subseteq Usable, reads'[r].begun = reads'[s].begun,
                      reads'[r].by = reads'[s].by
               PROVE  r = s
    BY DEF AskedOnce, Usable
  <2>1. {reads[r].state, reads[s].state} \subseteq Usable /\ reads[r].begun = reads[s].begun /\ reads[r].by = reads[s].by
    BY <1>2, <1>6 DEF Usable
  <2> QED
    BY <2>1 DEF IInv, AskedOnce, Usable
<1> QED
  BY <1>7, <1>8, <1>9, <1>10, <1>11, <1>12 DEF IInv

LEMMA ResolvesIInv == ASSUME NEW r \in Reads PROVE IInv /\ ReadResolves(r) => IInv'
<1> SUFFICES ASSUME IInv, ReadResolves(r) PROVE IInv'
  OBVIOUS
<1>1. UNCHANGED <<version, toServer, provider, provided, calls, known>> /\ reads[r].state = "resolving"
  BY DEF ReadResolves
<1>2. /\ reads' \in [Reads -> [state : ReadStates, roots : Nat, begun : Nat, by : Nat]]
      /\ \A s \in Reads : s # r => reads'[s] = reads[s]
      /\ reads'[r].begun = reads[r].begun /\ reads'[r].by = reads[r].by /\ reads'[r].state = "done" /\ reads'[r].roots = reads[r].roots
  BY DEF ReadResolves, IInv, TypeOK, ReadStates
<1>3. TypeOK' /\ Ordered'
  BY <1>1, <1>2 DEF IInv, TypeOK, Ordered, Newer, Rising
<1>4. Answers'
  BY <1>1, <1>2 DEF IInv, Answers, Awaited, OneAnswer
<1>5. InUse'
  BY <1>1, <1>2 DEF IInv, InUse, Usable, TypeOK
<1>7. Shared'
  <2> SUFFICES ASSUME NEW c \in Calls, calls[c].state # "unused", calls[c].read # NoRead
               PROVE  /\ reads'[calls[c].read].state # "unused"
                      /\ calls[c].since = reads'[calls[c].read].begun /\ calls[c].by = reads'[calls[c].read].by
                      /\ calls[c].state = "done" => reads'[calls[c].read].state = "done"
    BY <1>1 DEF Shared
  <2>1. calls[c].read \in Reads
    BY DEF IInv, TypeOK
  <2> QED
    BY <1>2, <2>1 DEF IInv, Shared
<1>6. AskedOnce'
  BY <1>1, <1>2 DEF IInv, AskedOnce
<1> QED
  BY <1>3, <1>4, <1>5, <1>6, <1>7 DEF IInv

LEMMA BeginsIInv == ASSUME NEW c \in Calls PROVE IInv /\ CallBegins(c) => IInv'
<1> SUFFICES ASSUME IInv, CallBegins(c) PROVE IInv'
  OBVIOUS
<1>1. UNCHANGED <<version, toServer, provider, known>> /\ calls[c].state = "unused"
  BY DEF CallBegins
<1>2. Ordered'
  BY <1>1 DEF IInv, Ordered, Newer, Rising
<1>3. CASE /\ calls' = [calls EXCEPT ![c] = [Waiting(NoRead) EXCEPT !.state = "done"]]
           /\ UNCHANGED <<provided, reads>>
  <2>1. TypeOK' /\ Shared'
    BY <1>1, <1>3 DEF IInv, TypeOK, Shared, CallStates, Waiting
  <2>2. Answers' /\ InUse' /\ AskedOnce'
    BY <1>1, <1>3 DEF IInv, Answers, Awaited, OneAnswer, InUse, AskedOnce
  <2> QED
    BY <1>2, <2>1, <2>2 DEF IInv
<1>4. CASE /\ provided # NoRead
           /\ calls' = [calls EXCEPT ![c] = Waiting(provided)]
           /\ UNCHANGED <<provided, reads>>
  <2>1. provided \in Reads /\ reads[provided].state \in Usable /\ reads[provided].begun = known /\ reads[provided].by = provider
    BY <1>4 DEF IInv, InUse, TypeOK
  <2>2. TypeOK'
    BY <1>1, <1>4, <2>1 DEF IInv, TypeOK, CallStates, Usable, Waiting
  <2>3. Shared'
    BY <1>1, <1>4, <2>1 DEF IInv, Shared, TypeOK, Usable, Waiting
  <2> QED
    BY <1>1, <1>2, <1>4, <2>2, <2>3 DEF IInv, Answers, Awaited, OneAnswer, InUse, AskedOnce
<1>5. ASSUME provider # 0, provided = NoRead, NEW r \in Reads, reads[r].state = "unused",
             reads' = [reads EXCEPT ![r] = Asked], provided' = r,
             calls' = [calls EXCEPT ![c] = Waiting(r)]
      PROVE IInv'
  <2>1. /\ reads' \in [Reads -> [state : ReadStates, roots : Nat, begun : Nat, by : Nat]]
        /\ \A s \in Reads : s # r => reads'[s] = reads[s]
        /\ reads'[r].begun = known /\ reads'[r].by = provider /\ reads'[r].state = "asked"
    BY <1>5 DEF IInv, TypeOK, ReadStates, Asked
  <2>2. /\ calls' \in [Calls -> [state : CallStates, read : Reads \cup {NoRead}, since : Nat, by : Nat]]
        /\ \A d \in Calls : d # c => calls'[d] = calls[d]
        /\ calls'[c] = Waiting(r)
    BY <1>5 DEF IInv, TypeOK, CallStates, Waiting
  <2>3. TypeOK'
    <3>1. \A d \in Calls : calls'[d].state = "waiting" => calls'[d].read # NoRead /\ reads'[calls'[d].read].state # "unused"
      <4> SUFFICES ASSUME NEW d \in Calls, calls'[d].state = "waiting"
                   PROVE  calls'[d].read # NoRead /\ reads'[calls'[d].read].state # "unused"
        OBVIOUS
      <4>1. CASE d = c
        BY <2>1, <2>2, <4>1, RootsAssumption DEF Waiting
      <4>2. CASE d # c
        <5>1. calls'[d] = calls[d] /\ calls[d].read \in Reads /\ reads[calls[d].read].state # "unused"
          BY <2>2, <4>2 DEF IInv, TypeOK
        <5> QED
          BY <1>5, <2>1, <5>1, RootsAssumption
      <4> QED
        BY <4>1, <4>2
    <3> QED
      BY <1>1, <1>5, <2>1, <2>2, <3>1 DEF IInv, TypeOK
  <2>4. Answers'
    BY <1>1, <1>5, <2>1 DEF IInv, Answers, Awaited, OneAnswer
  <2>5. InUse'
    <3>1. r # NoRead /\ known \in Nat /\ provider \in 1 .. provider
      BY <1>5, RootsAssumption DEF IInv, TypeOK
    <3>2. \A s \in Reads : reads[s].state \in Usable => ~(reads[s].begun = known /\ reads[s].by = provider)
      BY <1>5, RootsAssumption DEF IInv, InUse
    <3> QED
      BY <1>1, <1>5, <2>1, <3>1, <3>2 DEF IInv, InUse, Usable
  <2>6. Shared'
    BY <1>1, <1>5, <2>1, <2>2 DEF IInv, Shared, TypeOK, Waiting
  <2>7. AskedOnce'
    <3>1. \A s \in Reads : reads[s].state \in Usable => ~(reads[s].begun = known /\ reads[s].by = provider)
      BY <1>5, RootsAssumption DEF IInv, InUse
    <3> QED
      BY <2>1, <3>1 DEF IInv, AskedOnce, Usable
  <2> QED
    BY <1>2, <2>3, <2>4, <2>5, <2>6, <2>7 DEF IInv
<1> QED
  BY <1>3, <1>4, <1>5 DEF CallBegins

LEMMA EndsIInv == ASSUME NEW c \in Calls PROVE IInv /\ CallEnds(c) => IInv'
<1> SUFFICES ASSUME IInv, CallEnds(c) PROVE IInv'
  OBVIOUS
<1>1. UNCHANGED <<version, toServer, provider, provided, reads, known>> /\ calls[c].state = "waiting"
  BY DEF CallEnds
<1>2. calls[c].read \in Reads /\ reads[calls[c].read].state \in {"done", "failed"}
  BY DEF CallEnds, IInv, TypeOK
<1>3. /\ calls' \in [Calls -> [state : CallStates, read : Reads \cup {NoRead}, since : Nat, by : Nat]]
      /\ \A d \in Calls : d # c => calls'[d] = calls[d]
      /\ calls'[c].read = calls[c].read /\ calls'[c].since = calls[c].since /\ calls'[c].by = calls[c].by
      /\ calls'[c].state = reads[calls[c].read].state
  BY <1>2 DEF CallEnds, IInv, TypeOK, CallStates
<1>4. TypeOK'
  BY <1>1, <1>2, <1>3 DEF IInv, TypeOK
<1>5. Shared'
  <2>1. SUFFICES ASSUME NEW d \in Calls, calls'[d].state # "unused", calls'[d].read # NoRead
                 PROVE /\ reads[calls'[d].read].state # "unused"
                       /\ calls'[d].since = reads[calls'[d].read].begun
                       /\ calls'[d].by = reads[calls'[d].read].by
                       /\ calls'[d].state = "done" => reads[calls'[d].read].state = "done"
    BY <1>1 DEF Shared
  <2>2. Shared
    BY DEF IInv
  <2>3. CASE d = c
    <3>1. /\ reads[calls[c].read].state # "unused"
          /\ calls[c].since = reads[calls[c].read].begun /\ calls[c].by = reads[calls[c].read].by
      BY <1>1, <1>3, <2>1, <2>2, <2>3 DEF Shared
    <3> QED
      BY <1>3, <2>3, <3>1
  <2>4. CASE d # c
    BY <1>3, <2>1, <2>2, <2>4 DEF Shared
  <2> QED
    BY <2>3, <2>4
<1> QED
  BY <1>1, <1>4, <1>5 DEF IInv, Ordered, Newer, Rising, Answers, Awaited, OneAnswer, InUse, AskedOnce

LEMMA NextIInv == IInv /\ [Next]_vars => IInv'
<1> SUFFICES ASSUME IInv, [Next]_vars PROVE IInv'
  OBVIOUS
<1>1. CASE UNCHANGED vars
  <2>1. UNCHANGED <<version, toServer, provider, provided, reads, calls, known>>
    BY <1>1 DEF vars
  <2>2. TypeOK' /\ Ordered' /\ Answers'
    BY <2>1 DEF IInv, TypeOK, Ordered, Newer, Rising, Answers, Awaited, OneAnswer
  <2>3. InUse' /\ Shared' /\ AskedOnce'
    BY <2>1 DEF IInv, InUse, Shared, AskedOnce
  <2> QED
    BY <2>2, <2>3 DEF IInv
<1> QED
  BY <1>1, ChangesIInv, AnswersIInv, ProviderIInv, ChangedIInv, AnsweredIInv, ResolvesIInv,
     BeginsIInv, EndsIInv DEF Next

\* The roots take their own steps whichever part a behaviour is of.
LEMMA RootsStep == [PartsNext]_partsVars => [Next]_vars
BY DEF PartsNext, Client, Vhdl, Evaluate, Assemble, Capture, Disassemble, partsVars, serverVars, bridgeVars, rootsVars

\* What the workspace says of an answer: it is reused, asked for again after a failure or a
\* change, and never older than what the server had been told of.
THEOREM RootsShared == PartsSpec => [](TypeOK /\ RootsFresh /\ AskedOnce /\ FailedIsAskedAgain)
<1>1. IInv => TypeOK /\ RootsFresh /\ AskedOnce /\ FailedIsAskedAgain
  <2> SUFFICES ASSUME IInv PROVE RootsFresh /\ FailedIsAskedAgain
    BY DEF IInv
  <2>1. RootsFresh
    BY DEF IInv, RootsFresh, Shared, InUse, TypeOK
  <2>2. FailedIsAskedAgain
    BY DEF IInv, FailedIsAskedAgain, InUse, Usable
  <2> QED
    BY <2>1, <2>2
<1>2. PartsInit => IInv
  BY InitIInv DEF PartsInit
<1>3. IInv /\ [PartsNext]_partsVars => IInv'
  BY NextIInv, RootsStep
<1> QED
  BY <1>1, <1>2, <1>3, PTL DEF PartsSpec

\* Calls that come together share one question to the client, between two changes.
THEOREM ClientAskedOnce == PartsSpec => []AskedOnce
  BY RootsShared, PTL

-----------------------------------------------------------------------------
(* The desktop session (LiveConnect) *)

DesktopStates == {"unused", "making token", "token written", "starting", "listening", "announcing", "running", "ended"}
\* Where the token and the port of a desktop session do not change any more.
Launched == {"listening", "announcing", "running", "ended"}
CallStatesOfLive == {"unused", "reading", "connecting", "greeting", "session", "invalid", "stale", "unreachable",
                     "incompatible", "unauthorized", "no answer"}

LiveTyped ==
  /\ desktops \in [Desktops -> [state : DesktopStates, token : Desktops \cup {None}, port : Ports \cup {None}]]
  /\ tokenFile \in Desktops \cup {None} /\ portFile \in Desktops \cup {None}
  /\ connects \in [Connects -> [state : CallStatesOfLive, token : Desktops \cup {None}, port : Ports \cup {None},
                                socket : Desktops \cup {None}, disturbed : BOOLEAN, writer : Desktops \cup {None}]]

OneListens ==
  \A d, e \in Desktops :
    /\ {desktops[d].state, desktops[e].state} \subseteq {"listening", "announcing", "running"}
    /\ desktops[d].port = desktops[e].port
    => d = e
PortWritten == portFile # None => desktops[portFile].state \in {"running", "ended"}

\* What a call has read is of the desktop session that wrote it.
ReadFromWriter(call) ==
  /\ call.port # None => /\ call.writer # None /\ desktops[call.writer].state \in {"running", "ended"}
                         /\ desktops[call.writer].port = call.port
  /\ call.state = "unused" => call.token = None /\ call.port = None
  /\ call.state \in {"connecting", "greeting"} => call.token # None /\ call.port # None
  /\ call.state = "stale" => call.writer # None /\ desktops[call.writer].state = "ended"
Connected(call) ==
  /\ call.state \in {"greeting", "session"} => call.socket # None /\ desktops[call.socket].state \in Launched
  /\ call.state = "session" => call.socket \notin Incompatible /\ desktops[call.socket].token = call.token
  /\ call.state \notin {"greeting", "session"} => call.socket = None
\* Nothing has changed since the call began, when the files were of a session that runs.
Undisturbed(call) ==
  /\ call.state \in {"reading", "connecting", "greeting"} /\ ~call.disturbed =>
       /\ Live!Settled
       /\ call.token # None => call.token = tokenFile
       /\ call.port # None => call.port = desktops[portFile].port
       /\ call.state = "greeting" => call.socket = portFile
  /\ call.state \in {"invalid", "stale", "unauthorized", "incompatible"} => call.disturbed

LiveInv ==
  /\ LiveTyped /\ OneListens /\ PortWritten
  /\ \A c \in Connects : ReadFromWriter(connects[c]) /\ Connected(connects[c]) /\ Undisturbed(connects[c])

LEMMA LiveInitially == Live!LiveAssumption /\ Live!Init => LiveInv
  BY DEF Live!Init, Live!LiveAssumption, LiveInv, LiveTyped, OneListens, PortWritten, ReadFromWriter, Connected, Undisturbed,
         DesktopStates, CallStatesOfLive

\* A desktop session does a step, and every call that is trying may notice.
Moved(d) ==
  /\ \A e \in Desktops \ {d} : desktops'[e] = desktops[e]
  /\ desktops[d].state \in Launched =>
       desktops'[d].state \in Launched /\ desktops'[d].token = desktops[d].token /\ desktops'[d].port = desktops[d].port
  /\ desktops[d].state \in {"running", "ended"} => desktops'[d].state \in {"running", "ended"}
  /\ desktops[d].state = "ended" => desktops'[d].state = "ended"

LEMMA CallsNotice ==
  ASSUME LiveInv, LiveTyped', NEW d \in Desktops, Moved(d), Live!Disturbs
  PROVE  \A c \in Connects : ReadFromWriter(connects[c])' /\ Connected(connects[c])' /\ Undisturbed(connects[c])'
<1> SUFFICES ASSUME NEW c \in Connects
             PROVE  ReadFromWriter(connects[c])' /\ Connected(connects[c])' /\ Undisturbed(connects[c])'
  OBVIOUS
<1>1. /\ ReadFromWriter(connects[c]) /\ Connected(connects[c]) /\ Undisturbed(connects[c])
      /\ connects[c] \in [state : CallStatesOfLive, token : Desktops \cup {None}, port : Ports \cup {None},
                          socket : Desktops \cup {None}, disturbed : BOOLEAN, writer : Desktops \cup {None}]
  BY DEF LiveInv, LiveTyped
<1>2. /\ connects'[c].state = connects[c].state /\ connects'[c].token = connects[c].token
      /\ connects'[c].port = connects[c].port /\ connects'[c].socket = connects[c].socket
      /\ connects'[c].writer = connects[c].writer
      /\ connects'[c].disturbed = (connects[c].disturbed \/ connects[c].state \in {"reading", "connecting", "greeting"})
  BY <1>1 DEF Live!Disturbs, Live!Trying
<1>3. \A e \in Desktops :
        /\ desktops[e].state \in Launched =>
             desktops'[e].state \in Launched /\ desktops'[e].token = desktops[e].token /\ desktops'[e].port = desktops[e].port
        /\ desktops[e].state \in {"running", "ended"} => desktops'[e].state \in {"running", "ended"}
        /\ desktops[e].state = "ended" => desktops'[e].state = "ended"
  BY DEF Moved
<1>4. ReadFromWriter(connects[c])'
  BY <1>1, <1>2, <1>3 DEF ReadFromWriter, Launched
<1>5. Connected(connects[c])'
  BY <1>1, <1>2, <1>3 DEF Connected
<1>6. Undisturbed(connects[c])'
  BY <1>1, <1>2 DEF Undisturbed
<1> QED BY <1>4, <1>5, <1>6

LEMMA LauncherStep ==
  ASSUME Live!LiveAssumption, LiveInv, NEW d \in Desktops,
         \/ Live!EmptyToken(d) \/ Live!WriteToken(d) \/ Live!RemovePort(d) \/ Live!Listen(d)
         \/ Live!EmptyPort(d) \/ Live!WritePort(d) \/ Live!DesktopEnds(d)
  PROVE  LiveInv'
<1>0. /\ desktops \in [Desktops -> [state : DesktopStates, token : Desktops \cup {None}, port : Ports \cup {None}]]
      /\ OneListens /\ PortWritten /\ LiveTyped
  BY DEF LiveInv, LiveTyped
<1>1. Live!Disturbs
  BY DEF Live!EmptyToken, Live!WriteToken, Live!RemovePort, Live!Listen, Live!EmptyPort, Live!WritePort, Live!DesktopEnds
<1>2. connects' \in [Connects -> [state : CallStatesOfLive, token : Desktops \cup {None}, port : Ports \cup {None},
                                  socket : Desktops \cup {None}, disturbed : BOOLEAN, writer : Desktops \cup {None}]]
  BY <1>0, <1>1 DEF Live!Disturbs, LiveTyped
<1> DEFINE From == desktops[d].state
           Goes(to) == desktops' = [desktops EXCEPT ![d].state = to]
           Before == {"unused", "making token", "token written", "starting"}
<1>3. ASSUME NEW to \in DesktopStates, Goes(to),
             \/ From \in Before \ {"starting"} /\ to \in Before
             \/ From \in Launched /\ to \in Launched /\ From # "ended" /\ (From = "running" => to = "ended")
      PROVE  /\ Moved(d) /\ OneListens'
             /\ desktops' \in [Desktops -> [state : DesktopStates, token : Desktops \cup {None}, port : Ports \cup {None}]]
             /\ desktops'[d].state = to /\ \A e \in Desktops \ {d} : desktops'[e] = desktops[e]
  <2>1. /\ desktops'[d].state = to /\ desktops'[d].token = desktops[d].token /\ desktops'[d].port = desktops[d].port
        /\ \A e \in Desktops \ {d} : desktops'[e] = desktops[e]
        /\ desktops' \in [Desktops -> [state : DesktopStates, token : Desktops \cup {None}, port : Ports \cup {None}]]
    BY <1>0, <1>3
  <2>2. ASSUME NEW e \in Desktops, desktops'[e].state \in {"listening", "announcing", "running"}
        PROVE  desktops[e].state \in {"listening", "announcing", "running"} /\ desktops'[e].port = desktops[e].port
    BY <1>3, <2>1, <2>2 DEF Launched
  <2>3. OneListens'
    BY <1>0, <2>2 DEF OneListens
  <2> QED BY <1>3, <2>1, <2>3 DEF Moved, Launched
<1>4. CASE Live!EmptyToken(d)
  <2>1. Goes("making token") /\ From = "unused" /\ tokenFile' = None /\ portFile' = portFile
    BY <1>4 DEF Live!EmptyToken, Live!Becomes
  <2>2. Moved(d) /\ OneListens' /\ LiveTyped' /\ PortWritten'
    BY <1>0, <1>2, <1>3, <2>1 DEF LiveTyped, PortWritten, DesktopStates
  <2> QED BY <1>1, <2>2, CallsNotice DEF LiveInv
<1>5. CASE Live!WriteToken(d)
  <2>1. Goes("token written") /\ From = "making token" /\ tokenFile' = d /\ portFile' = portFile
    BY <1>5 DEF Live!WriteToken, Live!Becomes
  <2>2. Moved(d) /\ OneListens' /\ LiveTyped' /\ PortWritten'
    BY <1>0, <1>2, <1>3, <2>1 DEF LiveTyped, PortWritten, DesktopStates
  <2> QED BY <1>1, <2>2, CallsNotice DEF LiveInv
<1>6. CASE Live!RemovePort(d)
  <2>1. /\ From = "token written" /\ portFile' = None /\ tokenFile' = tokenFile
        /\ desktops' = [desktops EXCEPT ![d].state = "starting", ![d].token = tokenFile]
    BY <1>6 DEF Live!RemovePort
  <2>0. tokenFile \in Desktops \cup {None} /\ "starting" \in DesktopStates
    BY <1>0 DEF LiveTyped, DesktopStates
  <2>2. /\ desktops'[d].state = "starting" /\ \A e \in Desktops \ {d} : desktops'[e] = desktops[e]
        /\ desktops' \in [Desktops -> [state : DesktopStates, token : Desktops \cup {None}, port : Ports \cup {None}]]
    BY <1>0, <2>0, <2>1
  <2>4. OneListens'
    BY <1>0, <2>2 DEF OneListens
  <2>5. Moved(d)
    BY <2>1, <2>2 DEF Moved, Launched
  <2>6. LiveTyped' /\ PortWritten'
    BY <1>0, <1>2, <2>1, <2>2 DEF LiveTyped, PortWritten
  <2>3. Moved(d) /\ OneListens' /\ LiveTyped' /\ PortWritten'
    BY <2>4, <2>5, <2>6
  <2> QED BY <1>1, <2>3, CallsNotice DEF LiveInv
<1>7. CASE Live!Listen(d)
  <2>1. PICK p \in Ports : Live!Listening(p) = {} /\ desktops' = [desktops EXCEPT ![d].state = "listening", ![d].port = p]
    BY <1>7 DEF Live!Listen
  <2>2. /\ desktops'[d].state = "listening" /\ desktops'[d].port = p /\ \A e \in Desktops \ {d} : desktops'[e] = desktops[e]
        /\ desktops' \in [Desktops -> [state : DesktopStates, token : Desktops \cup {None}, port : Ports \cup {None}]]
    BY <1>0, <2>1 DEF DesktopStates
  <2>3. From = "starting" /\ portFile' = portFile /\ tokenFile' = tokenFile
    BY <1>7 DEF Live!Listen
  <2>4. \A e \in Desktops \ {d} : desktops[e].state \in {"listening", "announcing", "running"} => desktops[e].port # p
    BY <2>1 DEF Live!Listening
  <2>5. OneListens'
    BY <1>0, <2>2, <2>4 DEF OneListens
  <2>6. Moved(d) /\ LiveTyped' /\ PortWritten'
    BY <1>0, <1>2, <2>2, <2>3 DEF LiveTyped, PortWritten, Moved, Launched
  <2> QED BY <1>1, <2>5, <2>6, CallsNotice DEF LiveInv
<1>8. CASE Live!EmptyPort(d)
  <2>1. Goes("announcing") /\ From = "listening" /\ tokenFile' = tokenFile /\ portFile' = None
    BY <1>8 DEF Live!EmptyPort, Live!Becomes
  <2>2. Moved(d) /\ OneListens' /\ LiveTyped' /\ PortWritten'
    BY <1>0, <1>2, <1>3, <2>1 DEF LiveTyped, PortWritten, DesktopStates, Launched
  <2> QED BY <1>1, <2>2, CallsNotice DEF LiveInv
<1>9. CASE Live!WritePort(d)
  <2>1. Goes("running") /\ From = "announcing" /\ tokenFile' = tokenFile /\ portFile' = d
    BY <1>9 DEF Live!WritePort, Live!Becomes
  <2>2. Moved(d) /\ OneListens' /\ LiveTyped' /\ PortWritten'
    BY <1>0, <1>2, <1>3, <2>1 DEF LiveTyped, PortWritten, DesktopStates, Launched
  <2> QED BY <1>1, <2>2, CallsNotice DEF LiveInv
<1>10. CASE Live!DesktopEnds(d)
  <2>1. Goes("ended") /\ From \in {"listening", "announcing", "running"} /\ tokenFile' = tokenFile /\ portFile' = portFile
    BY <1>10 DEF Live!DesktopEnds, Live!Becomes
  <2>2. Moved(d) /\ OneListens' /\ LiveTyped' /\ PortWritten'
    BY <1>0, <1>2, <1>3, <2>1 DEF LiveTyped, PortWritten, DesktopStates, Launched
  <2> QED BY <1>1, <2>2, CallsNotice DEF LiveInv
<1> QED BY <1>4, <1>5, <1>6, <1>7, <1>8, <1>9, <1>10

\* A call of rars_live_connect does a step; nothing else changes.
CallOk(call) == ReadFromWriter(call) /\ Connected(call) /\ Undisturbed(call)
LiveCalls == [state : CallStatesOfLive, token : Desktops \cup {None}, port : Ports \cup {None},
          socket : Desktops \cup {None}, disturbed : BOOLEAN, writer : Desktops \cup {None}]

LEMMA CallStep ==
  ASSUME Live!LiveAssumption, LiveInv, NEW c \in Connects, Live!Begin(c) \/ Live!ConnectSteps(c)
  PROVE  LiveInv'
<1> DEFINE call == connects[c]
<1>1. call \in LiveCalls /\ CallOk(call) /\ connects \in [Connects -> LiveCalls]
  BY DEF LiveInv, LiveTyped, CallOk, LiveCalls
<1>2. /\ tokenFile \in Desktops \cup {None} /\ portFile \in Desktops \cup {None} /\ None \notin Desktops /\ None \notin Ports
      /\ \A d \in Desktops : /\ desktops[d].state \in DesktopStates
                            /\ desktops[d].token \in Desktops \cup {None} /\ desktops[d].port \in Ports \cup {None}
      /\ OneListens /\ PortWritten
  BY DEF LiveInv, LiveTyped, Live!LiveAssumption
<1>3. UNCHANGED <<desktops, tokenFile, portFile>>
  BY DEF Live!Begin, Live!ConnectSteps, Live!ReadToken, Live!ReadPort, Live!Discovered, Live!Connect, Live!Hello
<1>4. ASSUME NEW new \in LiveCalls, connects' = [connects EXCEPT ![c] = new], CallOk(new)
      PROVE  LiveInv'
  <2>1. connects' \in [Connects -> LiveCalls] /\ \A x \in Connects : connects'[x] = IF x = c THEN new ELSE connects[x]
    BY <1>1, <1>4
  <2>2. \A x \in Connects : CallOk(connects'[x])
    BY <1>4, <2>1 DEF LiveInv, CallOk
  <2>3. ASSUME NEW x \in Connects
        PROVE  ReadFromWriter(connects[x])' /\ Connected(connects[x])' /\ Undisturbed(connects[x])'
    <3>1. ReadFromWriter(connects[x])'
      BY <1>3, <2>2 DEF CallOk, ReadFromWriter
    <3>2. Connected(connects[x])'
      BY <1>3, <2>2 DEF CallOk, Connected
    <3>3. Undisturbed(connects[x])'
      BY <1>3, <2>2 DEF CallOk, Undisturbed, Live!Settled
    <3> QED BY <3>1, <3>2, <3>3
  <2>4. LiveTyped' /\ OneListens' /\ PortWritten'
    BY <1>2, <1>3, <2>1 DEF LiveInv, LiveTyped, LiveCalls, OneListens, PortWritten
  <2> QED BY <2>3, <2>4 DEF LiveInv
<1>5. CASE Live!Begin(c)
  <2> DEFINE new == [call EXCEPT !.state = "reading", !.disturbed = ~Live!Settled]
  <2>1. connects' = [connects EXCEPT ![c] = new] /\ call.state = "unused"
    BY <1>5 DEF Live!Begin
  <2>2. Live!Settled \in BOOLEAN
    BY DEF Live!Settled
  <2>3. new \in LiveCalls
    BY <1>1, <2>2 DEF LiveCalls, CallStatesOfLive
  <2>4. /\ new.state = "reading" /\ new.token = None /\ new.port = None /\ new.socket = None
        /\ new.disturbed = ~Live!Settled
    BY <1>1, <2>1 DEF LiveCalls, CallOk, ReadFromWriter, Connected
  <2> HIDE DEF new
  <2>5. CallOk(new)
    BY <2>4 DEF CallOk, ReadFromWriter, Connected, Undisturbed
  <2> QED BY <1>4, <2>1, <2>3, <2>5
<1>6. ASSUME NEW why \in {"invalid", "stale", "unreachable", "incompatible", "unauthorized", "no answer"},
             Live!Fails(c, why), call.state \in {"reading", "connecting", "greeting"},
             why \in {"invalid", "stale", "unauthorized", "incompatible"} => call.disturbed,
             why = "stale" => call.writer # None /\ desktops[call.writer].state = "ended"
      PROVE  LiveInv'
  <2> DEFINE new == [call EXCEPT !.state = why, !.socket = None]
  <2>1. connects' = [connects EXCEPT ![c] = new]
    BY <1>6 DEF Live!Fails
  <2>2. new \in LiveCalls
    BY <1>1, <1>6 DEF LiveCalls, CallStatesOfLive
  <2>3. /\ new.state = why /\ new.socket = None /\ new.token = call.token /\ new.port = call.port
        /\ new.disturbed = call.disturbed /\ new.writer = call.writer
    BY <1>1 DEF LiveCalls
  <2> HIDE DEF new
  <2>4. CallOk(new)
    BY <1>1, <1>6, <2>3 DEF CallOk, ReadFromWriter, Connected, Undisturbed
  <2> QED BY <1>4, <2>1, <2>2, <2>4
<1>7. CASE Live!ReadToken(c)
  <2>1. call.state = "reading" /\ call.token = None
    BY <1>7 DEF Live!ReadToken
  <2>2. CASE tokenFile = None
    <3>1. Live!Fails(c, "invalid") /\ call.disturbed
      BY <1>1, <1>7, <2>1, <2>2 DEF Live!ReadToken, CallOk, Undisturbed, Live!Settled, LiveCalls
    <3> QED BY <1>6, <2>1, <3>1
  <2>3. CASE tokenFile # None
    <3> DEFINE new == [call EXCEPT !.token = tokenFile]
    <3>1. connects' = [connects EXCEPT ![c] = new]
      BY <1>7, <2>3 DEF Live!ReadToken
    <3>2. new \in LiveCalls
      BY <1>1, <1>2 DEF LiveCalls
    <3>3. /\ new.state = "reading" /\ new.token = tokenFile /\ new.port = call.port /\ new.socket = call.socket
          /\ new.disturbed = call.disturbed /\ new.writer = call.writer
      BY <1>1, <2>1 DEF LiveCalls
    <3> HIDE DEF new
    <3>4. CallOk(new)
      BY <1>1, <2>1, <3>3 DEF CallOk, ReadFromWriter, Connected, Undisturbed
    <3> QED BY <1>4, <3>1, <3>2, <3>4
  <2> QED BY <2>2, <2>3
<1>8. CASE Live!ReadPort(c)
  <2>1. call.state = "reading" /\ call.port = None
    BY <1>8 DEF Live!ReadPort
  <2>2. CASE portFile = None
    <3>1. Live!Fails(c, "invalid") /\ call.disturbed
      BY <1>1, <1>8, <2>1, <2>2 DEF Live!ReadPort, CallOk, Undisturbed, Live!Settled, LiveCalls
    <3> QED BY <1>6, <2>1, <3>1
  <2>3. CASE portFile # None
    <3> DEFINE new == [call EXCEPT !.port = desktops[portFile].port, !.writer = portFile]
    <3>1. connects' = [connects EXCEPT ![c] = new]
      BY <1>8, <2>3 DEF Live!ReadPort
    <3>2. new \in LiveCalls
      BY <1>1, <1>2, <2>3 DEF LiveCalls
    <3>3. /\ new.state = "reading" /\ new.token = call.token /\ new.port = desktops[portFile].port /\ new.socket = call.socket
          /\ new.disturbed = call.disturbed /\ new.writer = portFile
      BY <1>1, <2>1 DEF LiveCalls
    <3> HIDE DEF new
    <3>4. desktops[portFile].state \in {"running", "ended"}
      BY <1>2, <2>3 DEF PortWritten
    <3>5. CallOk(new)
      BY <1>1, <2>1, <2>3, <3>3, <3>4 DEF CallOk, ReadFromWriter, Connected, Undisturbed
    <3> QED BY <1>4, <3>1, <3>2, <3>5
  <2> QED BY <2>2, <2>3
<1>9. CASE Live!Discovered(c)
  <2> DEFINE new == [call EXCEPT !.state = "connecting"]
  <2>1. connects' = [connects EXCEPT ![c] = new] /\ call.state = "reading" /\ call.token # None /\ call.port # None
    BY <1>9 DEF Live!Discovered
  <2>2. new \in LiveCalls
    BY <1>1 DEF LiveCalls, CallStatesOfLive
  <2>3. /\ new.state = "connecting" /\ new.token = call.token /\ new.port = call.port /\ new.socket = call.socket
        /\ new.disturbed = call.disturbed /\ new.writer = call.writer
    BY <1>1 DEF LiveCalls
  <2> HIDE DEF new
  <2>4. CallOk(new)
    BY <1>1, <2>1, <2>3 DEF CallOk, ReadFromWriter, Connected, Undisturbed
  <2> QED BY <1>4, <2>1, <2>2, <2>4
<1>10. CASE Live!Connect(c)
  <2>1. call.state = "connecting" /\ call.port # None /\ call.token # None
    BY <1>1, <1>10 DEF Live!Connect, CallOk, ReadFromWriter
  <2>2. \A d \in Desktops : d \in Live!Listening(call.port)
                           <=> desktops[d].port = call.port /\ desktops[d].state \in {"listening", "announcing", "running"}
    BY DEF Live!Listening
  <2>3. /\ call.writer \in Desktops /\ desktops[call.writer].state \in {"running", "ended"}
        /\ desktops[call.writer].port = call.port
    BY <1>1, <2>1 DEF CallOk, ReadFromWriter, LiveCalls
  \* Nobody listens at the port: whoever wrote it has ended.
  <2>4. Live!Listening(call.port) = {} => desktops[call.writer].state = "ended" /\ call.disturbed
    <3> SUFFICES ASSUME Live!Listening(call.port) = {}
                 PROVE  desktops[call.writer].state = "ended" /\ call.disturbed
      OBVIOUS
    <3>1. desktops[call.writer].state = "ended"
      BY <2>2, <2>3
    <3>2. ASSUME ~call.disturbed PROVE FALSE
      <4>1. Live!Settled /\ call.port = desktops[portFile].port
        BY <1>1, <2>1, <3>2 DEF CallOk, Undisturbed
      <4>2. portFile \in Desktops /\ desktops[portFile].state = "running"
        BY <1>2, <4>1 DEF Live!Settled
      <4> QED BY <2>2, <4>1, <4>2
    <3> QED BY <1>1, <3>1, <3>2 DEF LiveCalls
  <2>5. CASE \E d \in Live!Listening(call.port) : connects' = [connects EXCEPT ![c].state = "greeting", ![c].socket = d]
    <3>1. PICK d \in Live!Listening(call.port) : connects' = [connects EXCEPT ![c].state = "greeting", ![c].socket = d]
      BY <2>5
    <3>2. d \in Desktops /\ desktops[d].port = call.port /\ desktops[d].state \in {"listening", "announcing", "running"}
      BY DEF Live!Listening
    <3> DEFINE new == [call EXCEPT !.state = "greeting", !.socket = d]
    <3>3. connects' = [connects EXCEPT ![c] = new]
      BY <3>1
    <3>4. new \in LiveCalls
      BY <1>1, <3>2 DEF LiveCalls, CallStatesOfLive
    <3>5. /\ new.state = "greeting" /\ new.token = call.token /\ new.port = call.port /\ new.socket = d
          /\ new.disturbed = call.disturbed /\ new.writer = call.writer
      BY <1>1 DEF LiveCalls
    <3> HIDE DEF new
    \* Where the files are settled, it is their session that listens at the port.
    <3>6. ~call.disturbed => d = portFile
      <4> SUFFICES ASSUME ~call.disturbed PROVE d = portFile
        OBVIOUS
      <4>1. Live!Settled /\ call.port = desktops[portFile].port
        BY <1>1, <2>1 DEF CallOk, Undisturbed
      <4>2. portFile \in Desktops /\ desktops[portFile].state = "running"
        BY <1>2, <4>1 DEF Live!Settled
      <4> QED BY <1>2, <3>2, <4>1, <4>2 DEF OneListens
    <3>7. ReadFromWriter(new) /\ Connected(new)
      BY <1>1, <1>2, <2>1, <3>2, <3>5 DEF CallOk, ReadFromWriter, Connected, Launched
    <3>8. Undisturbed(new)
      BY <1>1, <2>1, <3>5, <3>6 DEF CallOk, Undisturbed
    <3> QED BY <1>4, <3>3, <3>4, <3>7, <3>8 DEF CallOk
  <2>6. CASE Live!Listening(call.port) = {} /\ Live!Fails(c, "stale")
    <3>1. call.writer # None
      BY <1>2, <2>3
    <3> QED BY <1>6, <2>1, <2>4, <2>6, <3>1
  <2>7. CASE Live!Fails(c, IF Live!RefusalIsStale(c) THEN "stale" ELSE "unreachable")
    <3>1. CASE Live!RefusalIsStale(c)
      <4>1. Live!Fails(c, "stale") /\ Live!Listening(call.port) = {}
        BY <2>7, <3>1 DEF Live!RefusalIsStale
      <4> QED BY <2>6, <4>1
    <3>2. CASE ~Live!RefusalIsStale(c)
      <4>1. Live!Fails(c, "unreachable")
        BY <2>7, <3>2
      <4> QED BY <1>6, <2>1, <4>1
    <3> QED BY <3>1, <3>2
  <2> QED BY <1>10, <2>5, <2>6, <2>7 DEF Live!Connect
<1>11. CASE Live!Hello(c)
  <2> DEFINE d == call.socket
  <2>1. call.state = "greeting" /\ call.token # None /\ d \in Desktops
    BY <1>1, <1>11 DEF Live!Hello, CallOk, ReadFromWriter, Connected, LiveCalls
  <2>2. ~call.disturbed => /\ d \notin Incompatible /\ desktops[d].token = call.token
    BY <1>1, <2>1 DEF CallOk, Undisturbed, Live!Settled
  <2>3. call.disturbed \in BOOLEAN
    BY <1>1 DEF LiveCalls
  <2>4. CASE /\ desktops[d].state # "ended" /\ desktops[d].token = call.token
             /\ IF Live!AnswersAsLive(c) THEN connects' = [connects EXCEPT ![c].state = "session"]
                ELSE Live!Fails(c, "incompatible")
    <3>1. CASE Live!AnswersAsLive(c)
      <4> DEFINE new == [call EXCEPT !.state = "session"]
      <4>1. connects' = [connects EXCEPT ![c] = new]
        BY <2>4, <3>1
      <4>2. new \in LiveCalls
        BY <1>1 DEF LiveCalls, CallStatesOfLive
      <4>3. /\ new.state = "session" /\ new.token = call.token /\ new.port = call.port /\ new.socket = d
            /\ new.disturbed = call.disturbed /\ new.writer = call.writer
        BY <1>1 DEF LiveCalls
      <4>4. d \notin Incompatible
        BY <3>1 DEF Live!AnswersAsLive
      <4> HIDE DEF new
      <4>5. CallOk(new)
        BY <1>1, <2>1, <2>4, <4>3, <4>4 DEF CallOk, ReadFromWriter, Connected, Undisturbed
      <4> QED BY <1>4, <4>1, <4>2, <4>5
    <3>2. CASE ~Live!AnswersAsLive(c)
      <4>1. call.disturbed
        BY <2>2, <2>3, <3>2 DEF Live!AnswersAsLive
      <4> QED BY <1>6, <2>1, <2>4, <3>2, <4>1
    <3> QED BY <3>1, <3>2
  <2>5. CASE desktops[d].token # call.token /\ Live!Fails(c, "unauthorized")
    BY <1>6, <2>1, <2>2, <2>3, <2>5
  <2>6. CASE Live!Fails(c, "no answer")
    BY <1>6, <2>1, <2>6
  <2> QED BY <1>11, <2>4, <2>5, <2>6 DEF Live!Hello
<1> QED BY <1>5, <1>7, <1>8, <1>9, <1>10, <1>11 DEF Live!ConnectSteps

LEMMA LiveStep ==
  ASSUME Live!LiveAssumption, LiveInv, Live!Next \/ UNCHANGED liveVars
  PROVE  LiveInv'
<1>1. CASE UNCHANGED liveVars
  BY <1>1 DEF liveVars, LiveInv, LiveTyped, OneListens, PortWritten, ReadFromWriter, Connected, Undisturbed, Live!Settled
<1>2. CASE Live!Next
  BY <1>2, LauncherStep, CallStep DEF Live!Next
<1> QED BY <1>1, <1>2

(***************************************************************************)
(* Though the launcher may be started again while a desktop session runs,  *)
(* and the files are read at any moment, a live session is with a desktop  *)
(* session of this protocol and mode that has the token of the files, a    *)
(* call says the desktop has ended only when the one that wrote the port   *)
(* has, and none fails over files that do not change (discoverLiveSession, *)
(* LiveClient.connect).                                                    *)
(***************************************************************************)
THEOREM DesktopFound == PartsSpec => []FindsTheDesktop
<1> DEFINE Inv == part = "live" => LiveInv
<1>1. Live!LiveAssumption
  BY PartsAssumption
<1>2. PartsInit => Inv
  BY <1>1, LiveInitially DEF PartsInit
<1>3. Inv /\ [PartsNext]_partsVars => Inv'
  BY <1>1, StepOfAPart, LiveStep
<1>4. Inv => FindsTheDesktop
  <2> SUFFICES ASSUME LiveInv, NEW c \in Connects
               PROVE  /\ connects[c].state = "session" =>
                            connects[c].socket \in Desktops \ Incompatible
                            /\ desktops[connects[c].socket].token = connects[c].token
                      /\ connects[c].state \notin {"greeting", "session"} => connects[c].socket = None
                      /\ connects[c].state = "stale" => desktops[connects[c].writer].state = "ended"
                      /\ connects[c].state \in {"invalid", "stale", "unauthorized", "incompatible"} => connects[c].disturbed
    BY DEF FindsTheDesktop, Live!SessionIsLive, Live!StaleHasEnded
  <2>1. connects[c] \in LiveCalls /\ CallOk(connects[c])
    BY DEF LiveInv, LiveTyped, CallOk, LiveCalls
  <2> QED BY <2>1 DEF CallOk, ReadFromWriter, Connected, Undisturbed, LiveCalls
<1> HIDE DEF Inv
<1> QED BY <1>2, <1>3, <1>4, PTL DEF PartsSpec

-----------------------------------------------------------------------------
(* The output of one run (ProgramOutput) *)

\* The first n bytes of w end in no character that the next byte goes on with.
Whole(w, n) == n = 0 \/ w[n] # "lead" \/ (n < Len(w) /\ w[n + 1] # "tail")
CharsOf(w) == [i \in DOMAIN w |-> Output!CharAt(w, i)]

LEMMA CharsAre ==
  ASSUME NEW w \in Seq(Output!Bytes)
  PROVE  CharsOf(w) \in Seq(Seq(Output!Chars)) /\ Len(CharsOf(w)) = Len(w) /\ DOMAIN CharsOf(w) = 1 .. Len(w)
<1>1. DOMAIN w = 1 .. Len(w) /\ Len(w) \in Nat /\ \A i \in 1 .. Len(w) : w[i] \in Output!Bytes
  OBVIOUS
<1>2. /\ <<"narrow">> \in Seq(Output!Chars) /\ <<"wide">> \in Seq(Output!Chars) /\ <<"replacement">> \in Seq(Output!Chars)
      /\ <<>> \in Seq(Output!Chars)
  BY DEF Output!Chars
<1>3. ASSUME NEW i \in 1 .. Len(w) PROVE Output!CharAt(w, i) \in Seq(Output!Chars)
  <2>1. w[i] = "one" \/ w[i] = "lead" \/ w[i] = "tail"
    BY <1>1 DEF Output!Bytes
  <2>2. CASE w[i] = "one"
    BY <1>2, <2>2 DEF Output!CharAt
  <2>3. CASE w[i] = "lead"
    BY <1>2, <2>3 DEF Output!CharAt
  <2>4. CASE w[i] = "tail"
    BY <1>2, <2>4 DEF Output!CharAt
  <2> QED BY <2>1, <2>2, <2>3, <2>4
<1> QED BY <1>1, <1>3 DEF CharsOf

LEMMA CharsSplit ==
  ASSUME NEW w \in Seq(Output!Bytes), NEW n \in 0 .. Len(w), n = Len(w) \/ Whole(w, n)
  PROVE  CharsOf(w) = CharsOf(Segment(w, 0, n)) \o CharsOf(Segment(w, n, Len(w)))
<1> DEFINE a == Segment(w, 0, n)
           b == Segment(w, n, Len(w))
           N == Len(w)
<1>1. N \in Nat /\ n \in Nat /\ n <= N /\ \A i \in 1 .. N : w[i] \in Output!Bytes
  OBVIOUS
<1>2. a \in Seq(Output!Bytes) /\ Len(a) = n /\ \A i \in 1 .. n : a[i] = w[i]
  <2>1. IsSegment(a, Output!Bytes, w, 0, n)
    BY <1>1, SegmentIs
  <2> HIDE DEF a
  <2>2. n - 0 = n /\ \A i \in 1 .. n : 0 + i = i
    BY <1>1
  <2> QED BY <1>1, <2>1, <2>2 DEF IsSegment
<1>3. b \in Seq(Output!Bytes) /\ Len(b) = N - n /\ \A i \in 1 .. N - n : b[i] = w[n + i]
  <2>1. IsSegment(b, Output!Bytes, w, n, N)
    BY <1>1, SegmentIs
  <2> HIDE DEF b
  <2> QED BY <2>1 DEF IsSegment
<1> HIDE DEF a, b, N
<1>4. /\ CharsOf(w) \in Seq(Seq(Output!Chars)) /\ Len(CharsOf(w)) = N /\ DOMAIN CharsOf(w) = 1 .. N
      /\ CharsOf(a) \in Seq(Seq(Output!Chars)) /\ Len(CharsOf(a)) = n /\ DOMAIN CharsOf(a) = 1 .. n
      /\ CharsOf(b) \in Seq(Seq(Output!Chars)) /\ Len(CharsOf(b)) = N - n /\ DOMAIN CharsOf(b) = 1 .. N - n
  BY <1>2, <1>3, CharsAre DEF N
<1>5. ASSUME NEW i \in 1 .. n PROVE CharsOf(w)[i] = CharsOf(a)[i]
  <2>1. CharsOf(w)[i] = Output!CharAt(w, i) /\ CharsOf(a)[i] = Output!CharAt(a, i)
    BY <1>1, <1>4 DEF CharsOf
  <2>2. a[i] = w[i] /\ (i > 1 => i - 1 \in 1 .. n /\ a[i - 1] = w[i - 1])
    BY <1>1, <1>2
  <2>3. w[i] = "lead" => (i < Len(a) /\ a[i + 1] = "tail" <=> i < N /\ w[i + 1] = "tail")
    <3>1. CASE i < n
      BY <1>1, <1>2, <3>1
    <3>2. CASE i = n
      BY <1>1, <1>2, <3>2 DEF Whole, N
    <3> QED BY <1>1, <3>1, <3>2
  <2>4. Output!CharAt(w, i) = Output!CharAt(a, i)
    <3>1. w[i] = "one" \/ w[i] = "lead" \/ w[i] = "tail"
      BY <1>1 DEF Output!Bytes
    <3>2. CASE w[i] = "one"
      BY <2>2, <3>2 DEF Output!CharAt
    <3>3. CASE w[i] = "lead"
      BY <2>2, <2>3, <3>3 DEF Output!CharAt, N
    <3>4. CASE w[i] = "tail"
      BY <2>2, <3>4 DEF Output!CharAt
    <3> QED BY <3>1, <3>2, <3>3, <3>4
  <2> QED BY <2>1, <2>4
<1>6. ASSUME NEW i \in 1 .. N - n PROVE CharsOf(w)[n + i] = CharsOf(b)[i]
  <2>0. n + i \in 1 .. N /\ i \in Nat
    BY <1>1
  <2>1. CharsOf(w)[n + i] = Output!CharAt(w, n + i) /\ CharsOf(b)[i] = Output!CharAt(b, i)
    BY <1>1, <1>4, <2>0 DEF CharsOf
  <2>2. b[i] = w[n + i]
    BY <1>3
  <2>3. i < Len(b) /\ b[i + 1] = "tail" <=> n + i < N /\ w[(n + i) + 1] = "tail"
    <3>1. i < Len(b) <=> n + i < N
      BY <1>1, <1>3
    <3>2. i < Len(b) => b[i + 1] = w[n + (i + 1)] /\ n + (i + 1) = (n + i) + 1
      BY <1>1, <1>3
    <3> QED BY <3>1, <3>2
  <2>4. w[n + i] = "tail" => (i > 1 /\ b[i - 1] = "lead" <=> n + i > 1 /\ w[(n + i) - 1] = "lead")
    <3>1. CASE i > 1
      <4>1. i - 1 \in 1 .. N - n /\ n + (i - 1) = (n + i) - 1 /\ n + i > 1
        BY <1>1, <3>1
      <4> QED BY <1>3, <3>1, <4>1
    <3>2. CASE i = 1
      <4>1. (n + i) - 1 = n /\ n + i = n + 1 /\ n < N /\ ~(i > 1)
        BY <1>1, <3>2
      <4>2. w[n + 1] = "tail" => n = 0 \/ w[n] # "lead"
        BY <4>1 DEF Whole, N
      <4>3. n + i > 1 => n # 0
        BY <1>1, <3>2
      <4> QED BY <4>1, <4>2, <4>3
    <3> QED BY <1>1, <3>1, <3>2
  <2>5. Output!CharAt(w, n + i) = Output!CharAt(b, i)
    <3>1. w[n + i] = "one" \/ w[n + i] = "lead" \/ w[n + i] = "tail"
      BY <1>1, <2>0 DEF Output!Bytes
    <3>2. CASE w[n + i] = "one"
      BY <2>2, <3>2 DEF Output!CharAt
    <3>3. CASE w[n + i] = "lead"
      BY <2>2, <2>3, <3>3 DEF Output!CharAt, N
    <3>4. CASE w[n + i] = "tail"
      BY <2>2, <2>4, <3>4 DEF Output!CharAt
    <3> QED BY <3>1, <3>2, <3>3, <3>4
  <2> QED BY <2>1, <2>5
<1>7. n + (N - n) = N
  BY <1>1
<1> DEFINE cw == CharsOf(w)
           ca == CharsOf(a)
           cb == CharsOf(b)
<1>8. /\ cw \in Seq(Seq(Output!Chars)) /\ ca \in Seq(Seq(Output!Chars)) /\ cb \in Seq(Seq(Output!Chars))
      /\ Len(cw) = Len(ca) + Len(cb) /\ (\A i \in 1 .. Len(ca) : cw[i] = ca[i])
      /\ \A i \in 1 .. Len(cb) : cw[Len(ca) + i] = cb[i]
  BY <1>4, <1>5, <1>6, <1>7
<1> HIDE DEF cw, ca, cb
<1>9. cw = ca \o cb
  BY <1>8, IsConcat
<1> QED BY <1>9 DEF cw, ca, cb, a, b, N

LEMMA DecodedIs ==
  ASSUME NEW w
  PROVE  Output!Decoded(w) = FlattenSeq(CharsOf(w))
<1> DEFINE t == CharsOf(w)
<1>1. Output!FlattenSeq(t) = FlattenSeq(t)
  <2> HIDE DEF t
  <2> QED BY DEF Output!FlattenSeq, FlattenSeq
<1>2. Output!Decoded(w) = Output!FlattenSeq(t)
  BY DEF Output!Decoded, CharsOf
<1> QED BY <1>1, <1>2

\* Decoding in two parts is decoding at once where no character is split.
LEMMA DecodedSplits ==
  ASSUME NEW w \in Seq(Output!Bytes), NEW n \in 0 .. Len(w), n = Len(w) \/ Whole(w, n)
  PROVE  Output!Decoded(w) = Output!Decoded(Segment(w, 0, n)) \o Output!Decoded(Segment(w, n, Len(w)))
<1> DEFINE a == Segment(w, 0, n)
           b == Segment(w, n, Len(w))
<1>1. a \in Seq(Output!Bytes) /\ b \in Seq(Output!Bytes)
  <2>1. n \in Nat /\ 0 <= n /\ n <= Len(w) /\ Len(w) \in Nat
    OBVIOUS
  <2>2. IsSegment(a, Output!Bytes, w, 0, n) /\ IsSegment(b, Output!Bytes, w, n, Len(w))
    BY <2>1, SegmentIs
  <2> HIDE DEF a, b
  <2> QED BY <2>2 DEF IsSegment
<1>2. CharsOf(w) = CharsOf(a) \o CharsOf(b)
  BY CharsSplit
<1> HIDE DEF a, b
<1>3. CharsOf(a) \in Seq(Seq(Output!Chars)) /\ CharsOf(b) \in Seq(Seq(Output!Chars))
  BY <1>1, CharsAre
<1>4. FlattenSeq(CharsOf(a) \o CharsOf(b)) = FlattenSeq(CharsOf(a)) \o FlattenSeq(CharsOf(b))
  BY <1>3, FlattenConcat
<1>5. /\ Output!Decoded(w) = FlattenSeq(CharsOf(w)) /\ Output!Decoded(a) = FlattenSeq(CharsOf(a))
      /\ Output!Decoded(b) = FlattenSeq(CharsOf(b))
  BY DecodedIs
<1> QED BY <1>2, <1>4, <1>5 DEF a, b

\* What a stream's takes have handed over, and what waits for the next one.
Passed(s) ==
  /\ buffer[s] = Segment(wrote[s], takenBytes[s], Len(wrote[s]))
  /\ run # "resumed" =>
       /\ output[s] = Output!Decoded(Segment(wrote[s], 0, takenBytes[s]))
       /\ Whole(wrote[s], takenBytes[s]) \/ (takenBytes[s] = Len(wrote[s]) /\ (run = "ended" \/ kept = Limit))
Counted ==
  /\ kept <= total
  /\ truncated => kept = Limit /\ total > Limit
  /\ ~truncated => kept = total
OutputTyped ==
  /\ buffer \in [Output!Streams -> Seq(Output!Bytes)] /\ wrote \in [Output!Streams -> Seq(Output!Bytes)]
  /\ kept \in Nat /\ kept <= Limit /\ total \in Nat
  /\ truncated \in BOOLEAN
  /\ takenBytes \in [Output!Streams -> Nat]
  /\ DOMAIN output = Output!Streams
  /\ run \in {"running", "ended", "resumed"}
OutputInv ==
  /\ OutputTyped /\ Counted
  /\ Len(wrote["stdout"]) + Len(wrote["stderr"]) = kept
  /\ \A s \in Output!Streams : takenBytes[s] <= Len(wrote[s]) /\ Passed(s)

LEMMA OutputInitially == Output!OutputAssumption /\ Output!Init => OutputInv
<1> SUFFICES ASSUME Output!OutputAssumption, Output!Init PROVE OutputInv
  OBVIOUS
<1> DEFINE none == <<>>
<1>1. none \in Seq(Output!Bytes) /\ Len(none) = 0
  OBVIOUS
<1>2. /\ \A s \in Output!Streams : buffer[s] = none /\ wrote[s] = none /\ takenBytes[s] = 0 /\ output[s] = none
      /\ buffer = [s \in Output!Streams |-> none] /\ wrote = [s \in Output!Streams |-> none]
      /\ takenBytes = [s \in Output!Streams |-> 0] /\ DOMAIN output = Output!Streams
      /\ kept = 0 /\ total = 0 /\ truncated = FALSE /\ run = "running"
  BY DEF Output!Init
<1>3. Segment(none, 0, 0) = none
  BY <1>1 DEF Segment
<1>4. Output!Decoded(none) = none
  <2>1. CharsOf(none) \in Seq(Seq(Output!Chars)) /\ Len(CharsOf(none)) = 0
    BY <1>1, CharsAre
  <2>2. CharsOf(none) = <<>>
    BY <2>1, EmptySeq
  <2> QED BY <2>2, DecodedIs, FlattenEmpty
<1>5. "stdout" \in Output!Streams /\ "stderr" \in Output!Streams
  BY DEF Output!Streams
<1>6. OutputTyped
  <2> HIDE DEF none
  <2>1. buffer \in [Output!Streams -> Seq(Output!Bytes)] /\ wrote \in [Output!Streams -> Seq(Output!Bytes)]
    BY <1>1, <1>2
  <2>2. takenBytes \in [Output!Streams -> Nat] /\ kept \in Nat /\ kept <= Limit /\ total \in Nat
    BY <1>2 DEF Output!OutputAssumption
  <2> QED BY <1>2, <2>1, <2>2 DEF OutputTyped
<1> HIDE DEF none
<1>7. Counted
  BY <1>2 DEF Counted
<1>8. ASSUME NEW s \in Output!Streams PROVE takenBytes[s] <= Len(wrote[s]) /\ Passed(s)
  BY <1>1, <1>2, <1>3, <1>4 DEF Passed, Whole
<1> QED BY <1>1, <1>2, <1>5, <1>6, <1>7, <1>8 DEF OutputInv

\* Writing to s: what fits follows what the stream and its buffer have.
LEMMA WriteKeeps ==
  ASSUME Output!OutputAssumption, OutputInv, NEW s \in Output!Streams, NEW bytes \in Seq(Output!Bytes), bytes # <<>>,
         Output!Write(s, bytes)
  PROVE  OutputInv'
<1> DEFINE size == Len(bytes)
           fits == IF size < Limit - kept THEN size ELSE Limit - kept
           fitting == Segment(bytes, 0, fits)
           old == wrote[s]
           new == old \o fitting
<1>1. /\ wrote \in [Output!Streams -> Seq(Output!Bytes)] /\ buffer \in [Output!Streams -> Seq(Output!Bytes)]
      /\ kept \in Nat /\ kept <= Limit /\ total \in Nat /\ Limit \in Nat /\ truncated \in BOOLEAN
      /\ takenBytes \in [Output!Streams -> Nat] /\ run \in {"running", "ended", "resumed"} /\ DOMAIN output = Output!Streams
  BY DEF OutputInv, OutputTyped, Output!OutputAssumption
<1>2. size \in Nat /\ size # 0
  <2>1. size \in Nat /\ (size = 0 => bytes = <<>>)
    BY EmptySeq
  <2> QED BY <2>1
<1>3. /\ fits \in Nat /\ fits <= size /\ kept + fits <= Limit
      /\ (fits < size => kept + fits = Limit)
      /\ (kept = Limit => fits = 0)
  BY <1>1, <1>2
<1> HIDE DEF fits
<1>4. fitting \in Seq(Output!Bytes) /\ Len(fitting) = fits
  <2>1. IsSegment(fitting, Output!Bytes, bytes, 0, fits)
    BY <1>2, <1>3, SegmentIs
  <2>2. fits - 0 = fits
    BY <1>3
  <2> HIDE DEF fitting
  <2> QED BY <2>1, <2>2 DEF IsSegment
<1>5. fitting = SubSeq(bytes, 1, IF Len(bytes) < Output!Room(s) THEN Len(bytes) ELSE Output!Room(s))
  BY DEF fits, Segment, Output!Room
<1> HIDE DEF fitting, size
<1>6. /\ buffer' = [buffer EXCEPT ![s] = @ \o fitting] /\ wrote' = [wrote EXCEPT ![s] = @ \o fitting]
      /\ kept' = kept + fits /\ truncated' = (truncated \/ fits < size)
      /\ total' = total + size /\ run' = (IF run = "ended" THEN "resumed" ELSE run)
      /\ UNCHANGED <<takenBytes, output>>
  BY <1>4, <1>5 DEF Output!Write, size
<1>7. old \in Seq(Output!Bytes) /\ new \in Seq(Output!Bytes) /\ Len(old) \in Nat /\ Len(new) = Len(old) + fits
      /\ \A i \in 1 .. Len(old) : new[i] = old[i]
  <2>1. old \in Seq(Output!Bytes)
    BY <1>1
  <2> HIDE DEF old
  <2> QED BY <1>4, <2>1
<1> HIDE DEF new
<1>8. wrote'[s] = new /\ \A t \in Output!Streams \ {s} : wrote'[t] = wrote[t] /\ buffer'[t] = buffer[t]
  BY <1>1, <1>6 DEF new
<1>9. buffer'[s] = buffer[s] \o fitting
  BY <1>1, <1>6
<1>10. OutputTyped'
  <2>1. buffer[s] \o fitting \in Seq(Output!Bytes) /\ wrote[s] \o fitting \in Seq(Output!Bytes)
    BY <1>1, <1>4
  <2>2. buffer' \in [Output!Streams -> Seq(Output!Bytes)] /\ wrote' \in [Output!Streams -> Seq(Output!Bytes)]
    BY <1>1, <1>6, <2>1
  <2>3. kept' \in Nat /\ kept' <= Limit /\ total' \in Nat /\ truncated' \in BOOLEAN /\ run' \in {"running", "ended", "resumed"}
    BY <1>1, <1>2, <1>3, <1>6
  <2> QED BY <1>1, <1>6, <2>2, <2>3 DEF OutputTyped
<1>11. Counted'
  <2>1. kept <= total /\ (truncated => kept = Limit /\ total > Limit) /\ (~truncated => kept = total)
    BY DEF OutputInv, Counted
  <2>2. kept' <= total' /\ (truncated' => kept' = Limit /\ total' > Limit) /\ (~truncated' => kept' = total')
    <3>0. kept' = kept + fits /\ total' = total + size
      BY <1>6
    <3>1. CASE truncated
      <4>1. truncated' /\ kept = Limit /\ total > Limit
        BY <1>6, <2>1, <3>1
      <4>2. kept' = Limit /\ total' > Limit /\ kept' <= total'
        BY <1>1, <1>2, <1>3, <3>0, <4>1
      <4> QED BY <4>1, <4>2
    <3>2. CASE ~truncated /\ fits < size
      <4>1. truncated' /\ kept = total
        BY <1>6, <2>1, <3>2
      <4>2. kept' = Limit /\ total' > Limit /\ kept' <= total'
        BY <1>1, <1>2, <1>3, <3>0, <3>2, <4>1
      <4> QED BY <4>1, <4>2
    <3>3. CASE ~truncated /\ ~(fits < size)
      <4>1. ~truncated' /\ kept = total
        BY <1>6, <2>1, <3>3
      <4>2. kept' = total' /\ kept' <= total'
        BY <1>1, <1>2, <1>3, <3>0, <3>3, <4>1
      <4> QED BY <4>1, <4>2
    <3> QED BY <3>1, <3>2, <3>3
  <2> QED BY <2>2 DEF Counted
<1>12. Len(wrote'["stdout"]) + Len(wrote'["stderr"]) = kept'
  <2>0. kept' = kept + fits
    BY <1>6
  <2>1. Len(wrote["stdout"]) + Len(wrote["stderr"]) = kept /\ Len(wrote["stdout"]) \in Nat /\ Len(wrote["stderr"]) \in Nat
    BY <1>1 DEF OutputInv, Output!Streams
  <2>2. CASE s = "stdout"
    <3>1. Len(wrote'["stderr"]) = Len(wrote["stderr"])
      BY <1>8, <2>2 DEF Output!Streams
    <3>2. Len(wrote'["stdout"]) = Len(wrote["stdout"]) + fits
      BY <1>7, <1>8, <2>2
    <3>3. kept \in Nat /\ fits \in Nat
      BY <1>1, <1>3
    <3> DEFINE a == Len(wrote["stdout"])
               b == Len(wrote["stderr"])
               c == Len(wrote'["stdout"])
               d == Len(wrote'["stderr"])
    <3>4. a + b = kept /\ a \in Nat /\ b \in Nat /\ ((c = a /\ d = b + fits) \/ (c = a + fits /\ d = b))
      BY <2>1, <3>1, <3>2
    <3> HIDE DEF a, b, c, d
    <3>5. c + d = kept + fits
      BY <3>3, <3>4
    <3> QED BY <2>0, <3>5 DEF c, d
  <2>3. CASE s = "stderr"
    <3>1. Len(wrote'["stdout"]) = Len(wrote["stdout"])
      BY <1>8, <2>3 DEF Output!Streams
    <3>2. Len(wrote'["stderr"]) = Len(wrote["stderr"]) + fits
      BY <1>7, <1>8, <2>3
    <3>3. kept \in Nat /\ fits \in Nat
      BY <1>1, <1>3
    <3> DEFINE a == Len(wrote["stdout"])
               b == Len(wrote["stderr"])
               c == Len(wrote'["stdout"])
               d == Len(wrote'["stderr"])
    <3>4. a + b = kept /\ a \in Nat /\ b \in Nat /\ ((c = a /\ d = b + fits) \/ (c = a + fits /\ d = b))
      BY <2>1, <3>1, <3>2
    <3> HIDE DEF a, b, c, d
    <3>5. c + d = kept + fits
      BY <3>3, <3>4
    <3> QED BY <2>0, <3>5 DEF c, d
  <2> QED BY <2>2, <2>3 DEF Output!Streams
<1> DEFINE n == takenBytes[s]
<1>13. n \in Nat /\ n <= Len(old) /\ Passed(s) /\ n <= Len(new)
  BY <1>1, <1>3, <1>7 DEF OutputInv
<1>14. Segment(new, 0, n) = Segment(old, 0, n) /\ Segment(new, n, Len(new)) = Segment(old, n, Len(old)) \o fitting
  BY <1>4, <1>7, <1>13, SegmentOfConcat DEF new
<1> HIDE DEF n
<1>15. Passed(s)'
  <2>1. buffer'[s] = Segment(wrote'[s], n, Len(wrote'[s])) /\ takenBytes'[s] = n /\ output'[s] = output[s]
    BY <1>6, <1>8, <1>9, <1>13, <1>14 DEF Passed, n
  <2>2. ASSUME run' # "resumed" PROVE run = "running" /\ run' = "running"
    BY <1>1, <1>6, <2>2
  <2>3. ASSUME run' # "resumed" PROVE output'[s] = Output!Decoded(Segment(wrote'[s], 0, n))
    BY <1>8, <1>13, <1>14, <2>1, <2>2, <2>3 DEF Passed, n
  <2>4. ASSUME run' # "resumed"
        PROVE  Whole(wrote'[s], n) \/ (n = Len(wrote'[s]) /\ kept' = Limit)
    <3>1. Whole(old, n) \/ (n = Len(old) /\ kept = Limit)
      BY <1>13, <2>2, <2>4 DEF Passed, n
    <3>2. CASE Whole(old, n)
      <4> HIDE DEF old
      <4>1. \/ n = 0 \/ old[n] # "lead"
            \/ (n < Len(old) /\ old[n + 1] # "tail")
        BY <3>2 DEF Whole
      <4>2. n # 0 => new[n] = old[n]
        BY <1>7, <1>13
      <4>3. n < Len(old) => n < Len(new) /\ new[n + 1] = old[n + 1]
        BY <1>3, <1>7, <1>13
      <4> QED BY <1>8, <4>1, <4>2, <4>3 DEF Whole
    <3>3. CASE n = Len(old) /\ kept = Limit
      BY <1>1, <1>3, <1>6, <1>7, <1>8, <3>3
    <3> QED BY <3>1, <3>2, <3>3
  <2> QED BY <2>1, <2>3, <2>4 DEF Passed
<1>16. ASSUME NEW t \in Output!Streams, t # s PROVE Passed(t)'
  <2>1. wrote'[t] = wrote[t] /\ buffer'[t] = buffer[t] /\ takenBytes'[t] = takenBytes[t] /\ output'[t] = output[t] /\ Passed(t)
    BY <1>6, <1>8, <1>16 DEF OutputInv
  <2>2. (run' # "resumed" => run # "resumed" /\ run' = run) /\ (kept = Limit => kept' = Limit)
    BY <1>1, <1>3, <1>6
  <2> QED BY <2>1, <2>2 DEF Passed
<1>17. \A t \in Output!Streams : takenBytes'[t] <= Len(wrote'[t])
  BY <1>6, <1>8, <1>13 DEF OutputInv, n
<1> QED BY <1>10, <1>11, <1>12, <1>15, <1>16, <1>17 DEF OutputInv

\* Taking from a stream: what is used follows what was taken, and no character is split.
LEMMA TakeKeeps ==
  ASSUME Output!OutputAssumption, OutputInv, NEW ended \in BOOLEAN, Output!Take(ended)
  PROVE  OutputInv'
<1> DEFINE finished == Output!Finished(ended)
           used(s) == Output!Used(buffer[s], finished)
           chunk(s) == SubSeq(buffer[s], 1, used(s))
<1>1. /\ wrote \in [Output!Streams -> Seq(Output!Bytes)] /\ buffer \in [Output!Streams -> Seq(Output!Bytes)]
      /\ takenBytes \in [Output!Streams -> Nat] /\ run \in {"running", "ended", "resumed"} /\ kept \in Nat
      /\ DOMAIN output = Output!Streams
  BY DEF OutputInv, OutputTyped
<1>2. /\ \A s \in Output!Streams :
           /\ output'[s] = output[s] \o Output!Decoded(chunk(s))
           /\ takenBytes'[s] = takenBytes[s] + used(s)
           /\ buffer'[s] = SubSeq(buffer[s], used(s) + 1, Len(buffer[s]))
      /\ run' = (IF ended /\ run # "resumed" THEN "ended" ELSE run)
      /\ UNCHANGED <<kept, truncated, wrote, total>>
      /\ DOMAIN output' = Output!Streams /\ DOMAIN takenBytes' = Output!Streams /\ DOMAIN buffer' = Output!Streams
      /\ takenBytes' = [s \in Output!Streams |-> takenBytes[s] + used(s)]
      /\ buffer' = [s \in Output!Streams |-> SubSeq(buffer[s], used(s) + 1, Len(buffer[s]))]
  BY DEF Output!Take
<1>3. finished = (ended \/ kept = Limit)
  BY DEF Output!Finished
<1>4. ASSUME NEW s \in Output!Streams
      PROVE  /\ used(s) \in Nat /\ used(s) <= Len(buffer[s]) /\ Len(buffer[s]) \in Nat
             /\ (finished => used(s) = Len(buffer[s]))
             /\ (~finished /\ used(s) # 0 /\ buffer[s][used(s)] = "lead" => used(s) < Len(buffer[s]))
             /\ (used(s) < Len(buffer[s]) => buffer[s][used(s) + 1] = "lead")
  <2> DEFINE b == buffer[s]
             N == Len(b)
  <2>1. b \in Seq(Output!Bytes) /\ N \in Nat /\ (b = <<>> <=> N = 0)
    <3>1. b \in Seq(Output!Bytes)
      BY <1>1
    <3> QED BY <3>1, EmptySeq
  <2>2. used(s) = IF ~finished /\ b # <<>> /\ b[N] = "lead" THEN N - 1 ELSE N
    BY DEF Output!Used, Output!Last
  <2> HIDE DEF used, finished, N
  <2>3. CASE ~finished /\ b # <<>> /\ b[N] = "lead"
    <3>1. used(s) = N - 1 /\ N # 0
      BY <2>1, <2>2, <2>3
    <3>2. used(s) \in Nat /\ used(s) < N /\ used(s) + 1 = N
      BY <2>1, <3>1
    <3> QED BY <2>1, <2>3, <3>2 DEF N
  <2>4. CASE ~(~finished /\ b # <<>> /\ b[N] = "lead")
    <3>1. used(s) = N
      BY <2>2, <2>4
    <3> QED BY <2>1, <2>4, <3>1 DEF N
  <2> QED BY <2>3, <2>4
<1> HIDE DEF finished, used
<1>5. ASSUME NEW s \in Output!Streams
      PROVE  /\ takenBytes'[s] \in Nat /\ takenBytes'[s] <= Len(wrote'[s]) /\ buffer'[s] \in Seq(Output!Bytes) /\ Passed(s)'
  <2> DEFINE w == wrote[s]
             n == takenBytes[s]
             m == n + used(s)
             N == Len(w)
             b == buffer[s]
  <2>1. w \in Seq(Output!Bytes) /\ n \in Nat /\ n <= N /\ N \in Nat /\ b = Segment(w, n, N) /\ Passed(s)
        /\ takenBytes'[s] = m /\ wrote'[s] = w
    BY <1>1, <1>2 DEF OutputInv, Passed
  <2>2. Len(b) = N - n /\ b \in Seq(Output!Bytes) /\ \A i \in 1 .. N - n : b[i] = w[n + i]
    <3>1. IsSegment(Segment(w, n, N), Output!Bytes, w, n, N)
      BY <2>1, SegmentIs
    <3> QED BY <2>1, <3>1 DEF IsSegment
  <2>3. used(s) \in Nat /\ m \in Nat /\ n <= m /\ m <= N /\ used(s) <= N - n /\ m - n = used(s) /\ n + (N - n) = N
    BY <1>4, <2>1, <2>2
  <2>4. chunk(s) = Segment(w, n, m) /\ buffer'[s] = Segment(w, m, N)
    <3>1. Segment(Segment(w, n, N), 0, used(s)) = Segment(w, n + 0, n + used(s))
      BY <2>1, <2>3, SegmentOfSegment
    <3>2. Segment(Segment(w, n, N), used(s), N - n) = Segment(w, n + used(s), n + (N - n))
      <4>1. N - n \in Nat /\ used(s) <= N - n /\ N <= Len(w)
        BY <2>1, <2>3
      <4> QED BY <2>1, <2>3, <4>1, SegmentOfSegment
    <3>3. chunk(s) = Segment(b, 0, used(s)) /\ n + 0 = n
      BY <2>1 DEF Segment
    <3>4. buffer'[s] = Segment(b, used(s), N - n)
      <4>1. buffer'[s] = SubSeq(b, used(s) + 1, Len(b))
        BY <1>2
      <4> QED BY <2>2, <4>1 DEF Segment
    <3> QED BY <2>1, <2>3, <3>1, <3>2, <3>3, <3>4
  <2>5. buffer'[s] \in Seq(Output!Bytes)
    <3>1. IsSegment(Segment(w, m, N), Output!Bytes, w, m, N)
      BY <2>1, <2>3, SegmentIs
    <3> QED BY <2>4, <3>1 DEF IsSegment
  <2> HIDE DEF m, w, b, N, n, chunk
  \* One step of the argument for a stream whose takes were not disturbed by a program that went on.
  <2>6. ASSUME run' # "resumed"
        PROVE  /\ output'[s] = Output!Decoded(Segment(w, 0, m))
               /\ Whole(w, m) \/ (m = N /\ (run' = "ended" \/ kept' = Limit))
    <3>1. run # "resumed" /\ (run = "ended" => run' = "ended") /\ (ended => run' = "ended") /\ kept' = kept
      BY <1>2, <2>6
    <3>2. output[s] = Output!Decoded(Segment(w, 0, n)) /\ (Whole(w, n) \/ (n = N /\ (run = "ended" \/ kept = Limit)))
      BY <2>1, <3>1 DEF Passed, w, n, N
    <3>3. Output!Decoded(Segment(w, 0, m)) = Output!Decoded(Segment(w, 0, n)) \o Output!Decoded(Segment(w, n, m))
      <4> DEFINE v == Segment(w, 0, m)
      <4>1. v \in Seq(Output!Bytes) /\ Len(v) = m /\ \A i \in 1 .. m : v[i] = w[i]
        <5>1. IsSegment(v, Output!Bytes, w, 0, m)
          BY <2>1, <2>3, SegmentIs DEF N
        <5>2. m - 0 = m /\ \A i \in 1 .. m : 0 + i = i
          BY <2>3
        <5> HIDE DEF v
        <5> QED BY <5>1, <5>2 DEF IsSegment
      <4>2. Segment(v, 0, n) = Segment(w, 0 + 0, 0 + n) /\ Segment(v, n, m) = Segment(w, 0 + n, 0 + m)
        <5>1. 0 <= n /\ n <= m - 0 /\ m <= m - 0 /\ 0 <= m /\ m <= Len(w)
          BY <2>1, <2>3 DEF N
        <5> QED BY <2>1, <2>3, <5>1, SegmentOfSegment
      <4>3. 0 + n = n /\ 0 + m = m /\ 0 + 0 = 0
        BY <2>1, <2>3
      <4> HIDE DEF v
      <4>4. n = m \/ Whole(v, n)
        <5>1. CASE Whole(w, n)
          BY <2>1, <2>3, <4>1, <5>1 DEF Whole
        <5>2. CASE n = N
          BY <2>1, <2>3, <5>2
        <5> QED BY <3>2, <5>1, <5>2
      <4>5. n \in 0 .. Len(v)
        BY <2>1, <2>3, <4>1
      <4>6. Output!Decoded(v) = Output!Decoded(Segment(v, 0, n)) \o Output!Decoded(Segment(v, n, Len(v)))
        BY <4>1, <4>4, <4>5, DecodedSplits
      <4> QED BY <4>1, <4>2, <4>3, <4>6 DEF v
    <3>4. output'[s] = output[s] \o Output!Decoded(Segment(w, n, m))
      BY <1>2, <2>4
    <3>5. CASE finished
      <4>1. used(s) = Len(b) /\ m = N
        BY <1>4, <2>1, <2>2, <2>3, <3>5 DEF b, m
      <4> QED BY <1>3, <3>1, <3>2, <3>3, <3>4, <3>5, <4>1
    <3>6. CASE ~finished
      <4>1. CASE used(s) = 0
        <5>1. m = n
          BY <2>1, <4>1 DEF m
        <5> QED BY <3>1, <3>2, <3>3, <3>4, <5>1
      <4>2. CASE used(s) # 0 /\ b[used(s)] # "lead"
        <5>1. b[used(s)] = w[m]
          BY <2>2, <2>3, <4>2 DEF m
        <5> QED BY <3>2, <3>3, <3>4, <4>2, <5>1 DEF Whole
      <4>3. CASE used(s) # 0 /\ b[used(s)] = "lead"
        <5>1. used(s) < Len(b) /\ b[used(s) + 1] = "lead"
          BY <1>4, <3>6, <4>3 DEF b
        <5>2. used(s) + 1 \in 1 .. N - n /\ n + (used(s) + 1) = m + 1 /\ m < N
          <6>1. used(s) + 1 \in Nat /\ used(s) + 1 <= N - n /\ used(s) + 1 >= 1
            BY <2>2, <2>3, <5>1
          <6>2. m = n + used(s)
            BY DEF m
          <6> QED BY <2>1, <2>3, <6>1, <6>2
        <5>3. w[m + 1] = "lead"
          BY <2>2, <5>1, <5>2
        <5> QED BY <3>2, <3>3, <3>4, <5>2, <5>3 DEF Whole, N
      <4> QED BY <4>1, <4>2, <4>3
    <3> QED BY <3>5, <3>6
  <2> QED BY <2>1, <2>3, <2>4, <2>5, <2>6 DEF Passed, w, n, N
<1>6. OutputTyped'
  <2>1. takenBytes' \in [Output!Streams -> Nat]
    BY <1>2, <1>5
  <2>2. buffer' \in [Output!Streams -> Seq(Output!Bytes)]
    BY <1>2, <1>5
  <2>3. run' \in {"running", "ended", "resumed"}
    BY <1>1, <1>2
  <2>4. OutputTyped
    BY DEF OutputInv
  <2> QED BY <1>2, <2>1, <2>2, <2>3, <2>4 DEF OutputTyped
<1>7. Counted' /\ Len(wrote'["stdout"]) + Len(wrote'["stderr"]) = kept'
  BY <1>2 DEF OutputInv, Counted
<1> QED BY <1>5, <1>6, <1>7 DEF OutputInv

LEMMA OutputStep ==
  ASSUME Output!OutputAssumption, OutputInv, Output!Next \/ UNCHANGED outputVars
  PROVE  OutputInv'
<1>1. CASE UNCHANGED outputVars
  <2>1. /\ buffer' = buffer /\ kept' = kept /\ truncated' = truncated /\ takenBytes' = takenBytes /\ output' = output
        /\ wrote' = wrote /\ total' = total /\ run' = run
    BY <1>1 DEF outputVars
  <2> QED BY <2>1 DEF OutputInv, OutputTyped, Counted, Passed
<1>2. ASSUME NEW s \in Output!Streams, NEW bytes \in Output!BoundedSeq(Output!Bytes, MaxChunk), bytes # <<>>,
             Output!Write(s, bytes)
      PROVE  OutputInv'
  <2>1. bytes \in Seq(Output!Bytes)
    BY DEF Output!BoundedSeq, Output!SeqOf
  <2> QED BY <1>2, <2>1, WriteKeeps
<1>3. ASSUME NEW ended \in BOOLEAN, Output!Take(ended) PROVE OutputInv'
  BY <1>3, TakeKeeps
<1> QED BY <1>1, <1>2, <1>3 DEF Output!Next

(***************************************************************************)
(* However writes and takes of a run's output interleave, the text handed  *)
(* over and the text that waits are what one take at the end would give,   *)
(* stdout and stderr keep to the limit together, and "truncated" is said   *)
(* exactly when something was dropped (ProgramOutput.java).                *)
(***************************************************************************)
THEOREM OutputIsKept == PartsSpec => []OutputKept
<1> DEFINE Inv == part = "output" => OutputInv
<1>1. Output!OutputAssumption
  BY PartsAssumption
<1>2. PartsInit => Inv
  BY <1>1, OutputInitially DEF PartsInit
<1>3. Inv /\ [PartsNext]_partsVars => Inv'
  BY <1>1, StepOfAPart, OutputStep
<1>4. Inv => OutputKept
  <2> SUFFICES ASSUME OutputInv PROVE Output!TakesDoNotSplit /\ Output!LimitIsShared
    BY DEF OutputKept
  <2>1. /\ wrote \in [Output!Streams -> Seq(Output!Bytes)] /\ takenBytes \in [Output!Streams -> Nat]
        /\ kept \in Nat /\ kept <= Limit /\ total \in Nat /\ Limit \in Nat /\ truncated \in BOOLEAN
        /\ Len(wrote["stdout"]) + Len(wrote["stderr"]) = kept /\ Counted
    BY <1>1 DEF OutputInv, OutputTyped, Output!OutputAssumption
  <2>2. ASSUME NEW s \in Output!Streams
        PROVE  /\ takenBytes[s] + Len(buffer[s]) = Len(wrote[s])
               /\ run # "resumed" => output[s] \o Output!Decoded(buffer[s]) = Output!Decoded(wrote[s])
    <3> DEFINE w == wrote[s]
               n == takenBytes[s]
               N == Len(w)
    <3>1. w \in Seq(Output!Bytes) /\ n \in Nat /\ N \in Nat /\ n <= N /\ Passed(s) /\ buffer[s] = Segment(w, n, N)
      BY <2>1 DEF OutputInv, Passed
    <3>2. Len(Segment(w, n, N)) = N - n
      <4>1. IsSegment(Segment(w, n, N), Output!Bytes, w, n, N)
        BY <3>1, SegmentIs
      <4> QED BY <4>1 DEF IsSegment
    <3>3. n + (N - n) = N
      BY <3>1
    <3>4. ASSUME run # "resumed" PROVE output[s] \o Output!Decoded(buffer[s]) = Output!Decoded(w)
      <4>1. n = N \/ Whole(w, n)
        BY <3>1, <3>4 DEF Passed
      <4>2. n \in 0 .. N
        BY <3>1
      <4>3. Output!Decoded(w) = Output!Decoded(Segment(w, 0, n)) \o Output!Decoded(Segment(w, n, N))
        BY <3>1, <4>1, <4>2, DecodedSplits
      <4> QED BY <3>1, <3>4, <4>3 DEF Passed
    <3> QED BY <3>1, <3>2, <3>3, <3>4
  <2>3. Output!TakesDoNotSplit
    BY <2>2 DEF Output!TakesDoNotSplit
  <2>4. truncated <=> total > Limit
    <3>1. CASE truncated
      BY <2>1, <3>1 DEF Counted
    <3>2. CASE ~truncated
      <4>1. total = kept
        BY <2>1, <3>2 DEF Counted
      <4>2. ~(total > Limit)
        BY <2>1, <4>1
      <4> QED BY <3>2, <4>2
    <3> QED BY <3>1, <3>2
  <2> QED BY <2>1, <2>2, <2>3, <2>4 DEF Output!LimitIsShared
<1> HIDE DEF Inv
<1> QED BY <1>2, <1>3, <1>4, PTL DEF PartsSpec

-----------------------------------------------------------------------------
(* The stdio proxy (StdioProxy) *)

Told == [for : Nat, is : {"progress", "result", "refusal", "error"}]
Line(ls, i) == [id |-> i, kind |-> ls[i]]
\* answers are those to the first n of the lines ls, for which hs was heard, and w is what they make.
OwedFor(kind, answer, i) ==
  IF answer # None /\ answer.end = "whole" THEN answer.messages
  ELSE IF kind \in {"request", "response"} THEN <<Proxy!Error(i)>> ELSE <<>>
Answering(answers, ls, hs, n, w) ==
  /\ answers \in Seq(Seq(Told)) /\ Len(answers) = n
  /\ \A i \in 1 .. n : answers[i] = OwedFor(ls[i], hs[i], i)
  /\ w = FlattenSeq(answers)
ToldInOrder(ls, hs, n, w) == \E answers : Answering(answers, ls, hs, n, w)

ProxyTyped ==
  /\ lines \in Seq(Proxy!Kinds) /\ Len(lines) <= MaxRead
  /\ phase \in {"reading", "closing", "closed", "crashed"}
  /\ line # None => line = Line(lines, Len(lines)) /\ Len(lines) # 0 /\ phase = "reading"
  /\ body # None => line # None /\ line.kind # "malformed" /\ body \in Proxy!Answers(line)
\* The lines that were handled.
HandledCount == IF line = None THEN Len(lines) ELSE Len(lines) - 1
Bodies == {None} \cup UNION {Proxy!Answers(l) : l \in [id : Nat, kind : Proxy!Kinds]}
\* StdioProxy's Answered and LeftByTheServer, of any history.
AnsweredIn(w, i) == \E p \in DOMAIN w : w[p].for = i /\ w[p].is \in {"result", "error"}
LeftIn(hs, i) == hs[i].end = "whole" /\ \A p \in DOMAIN hs[i].messages : hs[i].messages[p].is # "result"
Served(ls, hs, w, i) == ls[i] = "request" => AnsweredIn(w, i) \/ LeftIn(hs, i)
\* What was heard for each of them, and that no request was left without an answer but by the server.
HeardInv ==
  /\ DOMAIN heard = 1 .. HandledCount /\ heard \in Seq(Bodies)
  /\ \A i \in 1 .. HandledCount : Served(lines, heard, written, i)
ProxyInv ==
  /\ ProxyTyped /\ HeardInv
  /\ ToldInOrder(lines, heard, HandledCount, written)
  /\ IF phase = "closed" THEN opened = None ELSE opened = sessionId

LEMMA ProxyFlattens ==
  ASSUME NEW t
  PROVE  Proxy!FlattenSeq(t) = FlattenSeq(t)
BY DEF Proxy!FlattenSeq, FlattenSeq

LEMMA ProxyInitially == Proxy!ProxyAssumption /\ Proxy!Init => ProxyInv
<1> SUFFICES ASSUME Proxy!ProxyAssumption, Proxy!Init PROVE ProxyInv
  OBVIOUS
<1> DEFINE none == <<>>
<1>1. none \in Seq(Proxy!Kinds) /\ none \in Seq(Seq(Told)) /\ none \in Seq(Bodies) /\ Len(none) = 0 /\ none = FlattenSeq(none)
      /\ DOMAIN none = 1 .. 0
  BY FlattenEmpty
<1>2. /\ lines = none /\ written = none /\ heard = none /\ line = None /\ body = None
      /\ sessionId = None /\ opened = None /\ phase = "reading"
  BY DEF Proxy!Init
<1> HIDE DEF none
<1>3. HandledCount = 0
  BY <1>1, <1>2 DEF HandledCount
<1>4. Answering(none, lines, heard, 0, written)
  BY <1>1, <1>2 DEF Answering
<1>5. ProxyTyped
  BY <1>1, <1>2 DEF ProxyTyped, Proxy!ProxyAssumption
<1>6. HeardInv
  BY <1>1, <1>2, <1>3 DEF HeardInv
<1> QED BY <1>2, <1>3, <1>4, <1>5, <1>6 DEF ProxyInv, ToldInOrder

\* A message written stays, so that a line that was answered is.
LEMMA AnsweredStays ==
  ASSUME NEW n \in Nat, NEW w \in Seq(Told), NEW piece \in Seq(Told), NEW ls, NEW hs, NEW hs2,
         \A i \in 1 .. n : hs2[i] = hs[i],
         \A i \in 1 .. n : Served(ls, hs, w, i)
  PROVE  \A i \in 1 .. n : Served(ls, hs2, w \o piece, i)
<1> SUFFICES ASSUME NEW i \in 1 .. n, ls[i] = "request" PROVE AnsweredIn(w \o piece, i) \/ LeftIn(hs2, i)
  BY DEF Served
<1>1. CASE AnsweredIn(w, i)
  <2>1. PICK p \in DOMAIN w : w[p].for = i /\ w[p].is \in {"result", "error"}
    BY <1>1 DEF AnsweredIn
  <2>2. p \in DOMAIN (w \o piece) /\ (w \o piece)[p] = w[p]
    BY <2>1
  <2> QED BY <2>1, <2>2 DEF AnsweredIn
<1>2. CASE LeftIn(hs, i)
  BY <1>2 DEF LeftIn
<1> QED BY <1>1, <1>2 DEF Served

LEMMA ReadLineKeeps ==
  ASSUME Proxy!ProxyAssumption, ProxyInv, Proxy!ReadLine
  PROVE  ProxyInv'
<1>1. lines \in Seq(Proxy!Kinds) /\ Len(lines) \in Nat /\ Len(lines) < MaxRead /\ line = None /\ body = None /\ phase = "reading"
      /\ MaxRead \in Nat
  BY DEF ProxyInv, ProxyTyped, Proxy!ReadLine, Proxy!ProxyAssumption
<1> DEFINE n == Len(lines)
<1>2. PICK kind \in Proxy!Kinds : lines' = Append(lines, kind) /\ line' = [id |-> n + 1, kind |-> kind]
  BY DEF Proxy!ReadLine
<1>3. UNCHANGED <<body, heard, written, sessionId, opened, phase>>
  BY DEF Proxy!ReadLine
<1>4. lines' \in Seq(Proxy!Kinds) /\ Len(lines') = n + 1 /\ lines'[n + 1] = kind /\ \A i \in 1 .. n : lines'[i] = lines[i]
  BY <1>1, <1>2
<1> HIDE DEF n
<1>5. n \in Nat /\ n < MaxRead
  BY <1>1 DEF n
<1>6. None # [id |-> n + 1, kind |-> kind]
  <2>1. n + 1 \in 1 .. MaxRead
    BY <1>1, <1>5
  <2> QED BY <2>1 DEF Proxy!ProxyAssumption
<1>7. ProxyTyped'
  BY <1>1, <1>2, <1>3, <1>4, <1>5 DEF ProxyTyped, Line
<1>8. HandledCount' = n /\ HandledCount = n
  <2>1. HandledCount' = (n + 1) - 1
    BY <1>2, <1>4, <1>6 DEF HandledCount
  <2>2. HandledCount = n
    BY <1>1 DEF HandledCount, n
  <2> QED BY <1>5, <2>1, <2>2
<1>9. PICK answers : Answering(answers, lines, heard, n, written)
  BY <1>8 DEF ProxyInv, ToldInOrder
<1>10. Answering(answers, lines', heard', n, written')
  BY <1>3, <1>4, <1>9 DEF Answering
<1>11. ToldInOrder(lines', heard', HandledCount', written')
  BY <1>8, <1>10 DEF ToldInOrder
<1>12. IF phase' = "closed" THEN opened' = None ELSE opened' = sessionId'
  BY <1>3 DEF ProxyInv
<1>13. HeardInv'
  <2>1. \A i \in 1 .. n : Served(lines, heard, written, i)
    BY <1>8 DEF ProxyInv, HeardInv
  <2>2. \A i \in 1 .. n : Served(lines', heard', written', i)
    BY <1>3, <1>4, <2>1 DEF Served
  <2> QED BY <1>3, <1>8, <2>2 DEF ProxyInv, HeardInv
<1> QED BY <1>7, <1>11, <1>12, <1>13 DEF ProxyInv

LEMMA PostKeeps ==
  ASSUME Proxy!ProxyAssumption, ProxyInv, Proxy!Post
  PROVE  ProxyInv'
<1>1. /\ line # None /\ line.kind # "malformed" /\ UNCHANGED <<lines, line, heard, written, phase>> /\ phase = "reading"
      /\ opened = sessionId
  BY DEF Proxy!Post, ProxyInv, ProxyTyped
<1>2. PICK answer \in Proxy!Answers(line), given \in Sessions \cup {None} :
        /\ body' = answer
        /\ opened' = IF given = None THEN opened ELSE given
        /\ sessionId' = Proxy!SessionAfter(given)
  BY DEF Proxy!Post
<1>3. opened' = sessionId'
  BY <1>1, <1>2 DEF Proxy!SessionAfter
<1>4. ProxyTyped'
  BY <1>1, <1>2 DEF ProxyInv, ProxyTyped, Proxy!Answers, Proxy!Messages, Proxy!Reply, Proxy!Progress, Proxy!Refusal
<1>5. HandledCount' = HandledCount
  BY <1>1 DEF HandledCount
<1>6. ToldInOrder(lines', heard', HandledCount', written')
  BY <1>1, <1>5 DEF ProxyInv
<1>7. HeardInv'
  BY <1>1, <1>5 DEF ProxyInv, HeardInv
<1> QED BY <1>1, <1>3, <1>4, <1>6, <1>7 DEF ProxyInv

\* What the server may send for a line is a sequence of messages for it.
LEMMA MessagesTold ==
  ASSUME NEW l \in [id : Nat, kind : Proxy!Kinds], NEW messages \in Proxy!Messages(l)
  PROVE  /\ messages \in Seq(Told)
         /\ \A p \in DOMAIN messages : messages[p].for = l.id
<1> DEFINE id == l.id
           none == <<>>
           refusal == <<Proxy!Refusal(id)>>
           progress == <<Proxy!Progress(id)>>
           reply == <<Proxy!Reply(id)>>
           both == <<Proxy!Progress(id), Proxy!Reply(id)>>
<1>1. id \in Nat
  OBVIOUS
<1>2. /\ Proxy!Refusal(id) \in Told /\ Proxy!Refusal(id).for = id
      /\ Proxy!Progress(id) \in Told /\ Proxy!Progress(id).for = id
      /\ Proxy!Reply(id) \in Told /\ Proxy!Reply(id).for = id
  BY <1>1 DEF Told, Proxy!Refusal, Proxy!Progress, Proxy!Reply
<1>3. messages \in {none, refusal, progress, reply, both}
  BY DEF Proxy!Messages
<1> HIDE DEF id
<1>4. CASE messages = none
  BY <1>4
<1>5. CASE messages \in {refusal, progress, reply}
  <2>1. PICK m \in Told : m.for = id /\ messages = <<m>>
    BY <1>2, <1>5
  <2>2. messages \in Seq(Told) /\ DOMAIN messages = {1} /\ messages[1].for = id
    BY <2>1
  <2> QED BY <2>2 DEF id
<1>6. CASE messages = both
  <2>1. messages \in Seq(Told) /\ DOMAIN messages = {1, 2} /\ messages[1].for = id /\ messages[2].for = id
    BY <1>2, <1>6
  <2> QED BY <2>1 DEF id
<1> QED BY <1>3, <1>4, <1>5, <1>6

\* What is written of an answer, and of one that failed, is what the client is owed for its line.
LEMMA WrittenIsOwed ==
  ASSUME Proxy!ProxyAssumption, ProxyInv, Proxy!WriteAnswer
  PROVE  /\ written \in Seq(Told)
         /\ \E piece \in Seq(Told) : piece = OwedFor(line.kind, body, line.id) /\ written' = written \o piece
<1> DEFINE id == line.id
           kind == line.kind
           none == <<>>
<1>1. line # None /\ lines \in Seq(Proxy!Kinds) /\ Len(lines) # 0 /\ line = [id |-> Len(lines), kind |-> lines[Len(lines)]]
  BY DEF ProxyInv, ProxyTyped, Proxy!WriteAnswer, Line
<1>2. Len(lines) \in Nat /\ Len(lines) \in 1 .. Len(lines)
  BY <1>1
<1>3. id \in Nat /\ kind \in Proxy!Kinds /\ line = [id |-> id, kind |-> kind]
  <2>1. lines[Len(lines)] \in Proxy!Kinds
    BY <1>1, <1>2
  <2>2. id = Len(lines) /\ kind = lines[Len(lines)]
    BY <1>1
  <2> QED BY <1>1, <1>2, <2>1, <2>2
<1>4. <<Proxy!Error(id)>> \in Seq(Told)
  <2>1. Proxy!Error(id) \in Told
    BY <1>3 DEF Told, Proxy!Error
  <2> QED BY <2>1
<1>5. none \in Seq(Told) /\ none \o none = none
  OBVIOUS
<1> DEFINE told == IF body = None THEN none ELSE Proxy!WrittenOf(body)
           failed == IF Proxy!Failed /\ Proxy!HasId(line) THEN <<Proxy!Error(id)>> ELSE none
           owed == OwedFor(kind, body, id)
<1>6. written' = (written \o told) \o failed
  BY DEF Proxy!WriteAnswer
<1>7. \/ body = None /\ kind = "malformed"
      \/ body # None /\ kind # "malformed" /\ body \in Proxy!Answers(line)
  BY DEF ProxyInv, ProxyTyped, Proxy!WriteAnswer, Proxy!Settled
<1>8. told \in Seq(Told) /\ failed \in Seq(Told) /\ told \o failed = owed
  <2>1. CASE body # None /\ body.end = "whole"
    <3>1. told = body.messages /\ failed = none /\ owed = body.messages
      BY <1>7, <2>1 DEF Proxy!WrittenOf, Proxy!Failed, OwedFor
    <3>2. body.messages \in Seq(Told)
      <4>1. body.messages \in Proxy!Messages(line) /\ line \in [id : Nat, kind : Proxy!Kinds]
        BY <1>3, <1>7, <2>1 DEF Proxy!Answers
      <4> QED BY <4>1, MessagesTold
    <3> HIDE DEF told, failed, owed
    <3>3. told \o failed = told
      BY <3>1, <3>2, ConcatEmptySeq DEF none
    <3> QED BY <1>5, <3>1, <3>2, <3>3
  <2>2. CASE ~(body # None /\ body.end = "whole")
    <3>1. told = none
      BY <2>2 DEF Proxy!WrittenOf
    <3>2. failed = owed
      BY <1>7, <2>2 DEF Proxy!Failed, Proxy!HasId, OwedFor
    <3>3. failed \in Seq(Told)
      BY <1>4, <1>5
    <3> HIDE DEF told, failed, owed
    <3>4. told \o failed = failed
      BY <3>1, <3>3, ConcatEmptySeq DEF none
    <3> QED BY <1>5, <3>1, <3>2, <3>3, <3>4
  <2> QED BY <2>1, <2>2
<1>9. written \in Seq(Told)
  <2>1. PICK answers : Answering(answers, lines, heard, HandledCount, written)
    BY DEF ProxyInv, ToldInOrder
  <2> QED BY <2>1, FlattenInSeq DEF Answering
<1> HIDE DEF told, failed, owed
<1>10. (written \o told) \o failed = written \o (told \o failed) /\ told \o failed \in Seq(Told)
  <2>1. told \in Seq(Told) /\ failed \in Seq(Told)
    BY <1>8
  <2> QED BY <1>9, <2>1
<1> QED BY <1>6, <1>8, <1>9, <1>10 DEF owed

\* The line that is handled is answered by what is written, or was left by the server.
LEMMA AnsweredByThePiece ==
  ASSUME NEW n \in Nat, NEW w \in Seq(Told), NEW piece \in Seq(Told), NEW hs,
         hs[n] # None, hs[n] \in Proxy!Answers([id |-> n, kind |-> "request"]),
         piece = OwedFor("request", hs[n], n)
  PROVE  AnsweredIn(w \o piece, n) \/ LeftIn(hs, n)
<1> DEFINE l == [id |-> n, kind |-> "request"]
           answer == hs[n]
<1>0. l \in [id : Nat, kind : Proxy!Kinds] /\ l.id = n
  BY DEF Proxy!Kinds
<1>1. \A p \in DOMAIN piece : (piece[p].for = n /\ piece[p].is \in {"result", "error"}) => AnsweredIn(w \o piece, n)
  <2> SUFFICES ASSUME NEW p \in DOMAIN piece, piece[p].for = n /\ piece[p].is \in {"result", "error"}
               PROVE  AnsweredIn(w \o piece, n)
    OBVIOUS
  <2>1. Len(w) + p \in DOMAIN (w \o piece) /\ (w \o piece)[Len(w) + p] = piece[p]
    OBVIOUS
  <2> QED BY <2>1 DEF AnsweredIn
<1>2. CASE answer.end # "whole"
  <2>1. piece = <<Proxy!Error(n)>>
    BY <1>2 DEF OwedFor
  <2>2. 1 \in DOMAIN piece /\ piece[1] = Proxy!Error(n)
    BY <2>1
  <2>3. piece[1].for = n /\ piece[1].is = "error"
    BY <2>2 DEF Proxy!Error
  <2> QED BY <1>1, <2>2, <2>3
<1>3. CASE answer.end = "whole"
  <2>1. piece = answer.messages /\ answer.messages \in Proxy!Messages(l)
    BY <1>3 DEF OwedFor, Proxy!Answers
  <2>2. \A p \in DOMAIN piece : piece[p].for = n
    BY <1>0, <2>1, MessagesTold
  <2>3. CASE \E p \in DOMAIN piece : piece[p].is = "result"
    BY <1>1, <2>2, <2>3
  <2>4. CASE \A p \in DOMAIN piece : piece[p].is # "result"
    BY <1>3, <2>1, <2>4 DEF LeftIn
  <2> QED BY <2>3, <2>4
<1> QED BY <1>2, <1>3

LEMMA WriteAnswerKeeps ==
  ASSUME Proxy!ProxyAssumption, ProxyInv, Proxy!WriteAnswer
  PROVE  ProxyInv'
<1>1. /\ line # None /\ lines \in Seq(Proxy!Kinds) /\ Len(lines) # 0 /\ Len(lines) \in Nat
      /\ line.id = Len(lines) /\ line.kind = lines[Len(lines)] /\ phase = "reading" /\ opened = sessionId
      /\ line = [id |-> Len(lines), kind |-> lines[Len(lines)]]
  BY DEF ProxyInv, ProxyTyped, Proxy!WriteAnswer, Line
<1>2. /\ line' = None /\ body' = None /\ heard' = Append(heard, body) /\ UNCHANGED <<lines, sessionId, opened>>
      /\ phase' \in {"reading", "crashed"}
  BY <1>1 DEF Proxy!WriteAnswer
<1> DEFINE n == Len(lines) - 1
<1>3. n \in Nat /\ n + 1 = Len(lines) /\ HandledCount = n /\ HandledCount' = n + 1
  <2>1. Len(lines) \in Nat /\ Len(lines) # 0
    BY <1>1
  <2>2. n \in Nat /\ n + 1 = Len(lines)
    BY <2>1
  <2>3. HandledCount = n /\ HandledCount' = Len(lines)
    BY <1>1, <1>2 DEF HandledCount
  <2> QED BY <2>2, <2>3
<1>4. PICK piece \in Seq(Told) : piece = OwedFor(line.kind, body, line.id) /\ written' = written \o piece
  BY WrittenIsOwed
<1>5. PICK answers : Answering(answers, lines, heard, n, written)
  BY <1>3 DEF ProxyInv, ToldInOrder
<1>6. heard \in Seq(Bodies) /\ Len(heard) = n /\ body \in Bodies
  <2>1. heard \in Seq(Bodies) /\ DOMAIN heard = 1 .. n
    BY <1>3 DEF ProxyInv, HeardInv
  <2>2. line \in [id : Nat, kind : Proxy!Kinds]
    BY <1>1
  <2>3. body \in Bodies
    <3>1. body = None \/ body \in Proxy!Answers(line)
      BY DEF ProxyInv, ProxyTyped
    <3>2. CASE body \in Proxy!Answers(line)
      BY <2>2, <3>2, Zenon DEF Bodies
    <3> QED BY <3>1, <3>2 DEF Bodies
  <2> HIDE DEF n
  <2>4. Len(heard) = n
    BY <1>3, <2>1
  <2> QED BY <2>1, <2>3, <2>4
<1> HIDE DEF n
<1>7. heard' \in Seq(Bodies) /\ DOMAIN heard' = 1 .. n + 1 /\ heard'[n + 1] = body /\ \A i \in 1 .. n : heard'[i] = heard[i]
  BY <1>2, <1>3, <1>6
<1> DEFINE more == Append(answers, piece)
<1>8. more \in Seq(Seq(Told)) /\ Len(more) = n + 1 /\ more[n + 1] = piece /\ \A i \in 1 .. n : more[i] = answers[i]
  BY <1>3, <1>4, <1>5 DEF Answering
<1>9. written' = FlattenSeq(more)
  BY <1>4, <1>5, FlattenAppend DEF Answering
<1> HIDE DEF more
<1>10. \A i \in 1 .. n + 1 : more[i] = OwedFor(lines[i], heard'[i], i)
  <2>1. \A i \in 1 .. n : more[i] = OwedFor(lines[i], heard'[i], i)
    BY <1>5, <1>7, <1>8 DEF Answering
  <2>2. more[n + 1] = OwedFor(lines[n + 1], heard'[n + 1], n + 1)
    BY <1>1, <1>3, <1>4, <1>7, <1>8
  <2> QED BY <1>3, <2>1, <2>2
<1>11. Answering(more, lines', heard', n + 1, written')
  BY <1>2, <1>8, <1>9, <1>10 DEF Answering
<1>12. ToldInOrder(lines', heard', HandledCount', written')
  BY <1>3, <1>11 DEF ToldInOrder
<1>13. ProxyTyped'
  BY <1>2 DEF ProxyInv, ProxyTyped
<1>14. HeardInv'
  <2>1. \A i \in 1 .. n : Served(lines, heard, written, i)
    BY <1>3 DEF ProxyInv, HeardInv
  <2>2. written \in Seq(Told) /\ written' = written \o piece /\ lines' = lines
    BY <1>2, <1>4, WrittenIsOwed
  <2>3. \A i \in 1 .. n : Served(lines', heard', written', i)
    BY <1>3, <1>4, <1>7, <2>1, <2>2, AnsweredStays
  <2>4. Served(lines', heard', written', n + 1)
    <3> SUFFICES ASSUME lines[n + 1] = "request" PROVE AnsweredIn(written', n + 1) \/ LeftIn(heard', n + 1)
      BY <2>2 DEF Served
    <3>1. line = [id |-> n + 1, kind |-> "request"] /\ line.kind = "request" /\ line.id = n + 1 /\ n + 1 \in Nat
      BY <1>1, <1>3
    <3>2. body # None /\ body \in Proxy!Answers([id |-> n + 1, kind |-> "request"])
      BY <3>1 DEF ProxyInv, ProxyTyped, Proxy!WriteAnswer, Proxy!Settled
    <3>3. heard'[n + 1] = body /\ piece = OwedFor("request", body, n + 1) /\ piece \in Seq(Told)
      BY <1>4, <1>7, <3>1
    <3> QED BY <2>2, <3>1, <3>2, <3>3, AnsweredByThePiece
  <2>5. \A i \in 1 .. n + 1 : Served(lines', heard', written', i)
    BY <1>3, <2>3, <2>4
  <2> QED BY <1>3, <1>7, <2>5 DEF HeardInv
<1> QED BY <1>1, <1>2, <1>12, <1>13, <1>14 DEF ProxyInv

LEMMA ProxyStep ==
  ASSUME Proxy!ProxyAssumption, ProxyInv, Proxy!Next \/ UNCHANGED proxyVars
  PROVE  ProxyInv'
<1>1. ASSUME UNCHANGED <<lines, line, body, heard, written>>, phase' \in {"reading", "closing", "closed", "crashed"},
             phase' # "reading" => line = None,
             IF phase' = "closed" THEN opened' = None ELSE opened' = sessionId'
      PROVE  ProxyInv'
  <2>1. ProxyTyped'
    BY <1>1 DEF ProxyInv, ProxyTyped
  <2>2. HandledCount' = HandledCount
    BY <1>1 DEF HandledCount
  <2>3. ToldInOrder(lines', heard', HandledCount', written')
    BY <1>1, <2>2 DEF ProxyInv
  <2>4. HeardInv'
    BY <1>1, <2>2 DEF ProxyInv, HeardInv
  <2> QED BY <1>1, <2>1, <2>3, <2>4 DEF ProxyInv
<1>2. CASE UNCHANGED proxyVars
  BY <1>1, <1>2 DEF proxyVars, ProxyInv, ProxyTyped
<1>3. CASE Proxy!InputEnds
  BY <1>1, <1>3 DEF Proxy!InputEnds, ProxyInv, ProxyTyped
<1>4. CASE Proxy!Close
  <2>1. phase = "closing" /\ phase' = "closed" /\ opened' = (IF opened = sessionId THEN None ELSE opened)
        /\ UNCHANGED <<lines, line, body, heard, written, sessionId>>
    BY <1>4 DEF Proxy!Close
  <2>2. opened = sessionId /\ line = None
    BY <2>1 DEF ProxyInv, ProxyTyped
  <2> QED BY <1>1, <2>1, <2>2
<1> QED BY <1>2, <1>3, <1>4, ReadLineKeeps, PostKeeps, WriteAnswerKeeps DEF Proxy!Next

(***************************************************************************)
(* The lines of a stdio client are answered in order, each with all that   *)
(* the server sent for it or with one error alone, no request is left      *)
(* without either but by the server, and a proxy that is done leaves no    *)
(* session there (proxyStdio).                                             *)
(***************************************************************************)
THEOREM LinesAnswered == PartsSpec => []AnsweredOnceInOrder
<1> DEFINE Inv == part = "proxy" => ProxyInv
<1>1. Proxy!ProxyAssumption
  BY PartsAssumption
<1>2. PartsInit => Inv
  BY <1>1, ProxyInitially DEF PartsInit
<1>3. Inv /\ [PartsNext]_partsVars => Inv'
  BY <1>1, StepOfAPart, ProxyStep
<1>4. Inv => AnsweredOnceInOrder
  <2> SUFFICES ASSUME ProxyInv PROVE Proxy!AnsweredOnceInOrder /\ Proxy!SessionEnded
    BY DEF AnsweredOnceInOrder
  <2> DEFINE n == HandledCount
  <2>1. PICK answers : Answering(answers, lines, heard, n, written)
    BY DEF ProxyInv, ToldInOrder
  <2>2. Proxy!Handled = 1 .. n
    BY DEF ProxyInv, HeardInv, Proxy!Handled
  <2> HIDE DEF n
  <2>3. \A i \in 1 .. n : Proxy!Owed(i) = OwedFor(lines[i], heard[i], i)
    BY DEF Proxy!Owed, OwedFor
  <2>4. answers = [i \in 1 .. n |-> Proxy!Owed(i)]
    BY <2>1, <2>3 DEF Answering
  <2>5. written = Proxy!FlattenSeq([i \in Proxy!Handled |-> Proxy!Owed(i)])
    BY <2>1, <2>2, <2>4, ProxyFlattens DEF Answering
  <2>6. \A i \in Proxy!Handled : lines[i] = "request" => Proxy!Answered(i) \/ Proxy!LeftByTheServer(i)
    BY <2>2 DEF ProxyInv, HeardInv, Served, AnsweredIn, LeftIn, Proxy!Answered, Proxy!LeftByTheServer, n
  <2> QED BY <2>5, <2>6 DEF ProxyInv, Proxy!AnsweredOnceInOrder, Proxy!SessionEnded
<1> HIDE DEF Inv
<1> QED BY <1>2, <1>3, <1>4, PTL DEF PartsSpec
=============================================================================
