------------------------ MODULE ScriptAndWordsProofs ------------------------
(***************************************************************************)
(* Proofs about two kinds of parts of the server and the bridge            *)
(* (ServerParts): the script of a do file, and the instructions and words  *)
(* that are encoded, decoded and computed with (the encoder, the decoder   *)
(* and the operands of rars_eval).                                         *)
(***************************************************************************)
EXTENDS ServerParts, DataLemmas, FiniteSetTheorems

-----------------------------------------------------------------------------
(* A step of the composition is a step of its part *)

LEMMA StepOfTheScript ==
  ASSUME [PartsNext]_partsVars
  PROVE  /\ part' = part
         /\ part = "script" => Script!Next \/ UNCHANGED <<scriptVars, errors>>
         /\ part # "script" => UNCHANGED scriptVars
<1>1. CASE UNCHANGED partsVars
  BY <1>1 DEF partsVars, serverVars
<1>2. CASE PartsNext
  BY <1>2 DEF PartsNext, Client, Vhdl, Evaluate, Assemble, Capture, Disassemble, serverVars, bridgeVars
<1> QED BY <1>1, <1>2

LEMMA StepOfTheEncoder ==
  ASSUME [PartsNext]_partsVars
  PROVE  /\ part' = part
         /\ part = "encode" => Encode!Next \/ UNCHANGED <<encodeVars, errors>>
BY DEF PartsNext, Client, Vhdl, Assemble, Evaluate, Capture, Disassemble, partsVars, bridgeVars, encodeVars

-----------------------------------------------------------------------------
(* The script of a do file (DoFileScript) *)

Frames == [file : Files, line : Nat \ {0}, callerOnerror : Script!Onerrors]
Places == [file : Files, line : Nat, step : Nat]
StepRecords == [command : {"vcom", "onerror", "quit", "cd", "do"}, folder : Script!Folders \cup {"none"}]
Errors == {"none", "tcl", "reported", "quit", "fatal"}

ScriptTyped ==
  /\ script \in [Files -> Seq(Script!Commands)]
  /\ stack \in Seq(Frames) /\ onerror \in Script!Onerrors
  /\ steps \in Seq(StepRecords) /\ errors \in Seq(Places)
  /\ raised \in Errors /\ stopped \in BOOLEAN
\* value is what the last of the first n files that set onerror set it to.
LastSet(own, n, value) ==
  \/ value = "stop" /\ \A k \in 1 .. n : own[k] = "none"
  \/ \E k \in 1 .. n : own[k] = value /\ value # "none" /\ \A j \in k + 1 .. n : own[j] = "none"
OnerrorFollowed ==
  /\ depth = Len(stack)
  /\ ownOnerror \in Seq(Script!Onerrors \cup {"none"}) /\ Len(ownOnerror) = Len(stack)
  /\ stack # <<>> => LastSet(ownOnerror, Len(stack), onerror)
  /\ \A k \in 1 .. Len(stack) : LastSet(ownOnerror, k - 1, stack[k].callerOnerror)
\* folder is where the last of the first n steps that moved went.
LastMove(recorded, n, folder) ==
  \/ folder = "start" /\ \A k \in 1 .. n : recorded[k].folder = "none"
  \/ \E k \in 1 .. n : recorded[k].folder = folder /\ folder # "none" /\ \A j \in k + 1 .. n : recorded[j].folder = "none"
MovesFollowed ==
  /\ wasIn \in Seq(Script!Folders) /\ Len(wasIn) = Len(steps) /\ cwd \in Script!Folders
  /\ \A k \in 1 .. Len(steps) : steps[k].folder # "none" => steps[k].command = "cd"
  /\ \A k \in 1 .. Len(steps) : LastMove(steps, k, wasIn[k])
  /\ LastMove(steps, Len(steps), cwd)
\* The error on its way up, if it was not reported yet, is the last that happened, and happened here.
ErrorsFollowed ==
  /\ raised = "tcl" => stack # <<>> /\ happened = Append(errors, Script!Here)
  /\ raised # "tcl" => happened = errors
\* Nobody goes on: the error passes every file that still runs.
StopFollowed == stopped => raised = "reported" /\ (stack # <<>> => Script!NobodyContinues)

ScriptInv == ScriptTyped /\ OnerrorFollowed /\ MovesFollowed /\ ErrorsFollowed /\ StopFollowed

LEMMA ScriptInitially == Script!ScriptAssumption /\ Script!Init /\ stopped = FALSE => ScriptInv
<1> SUFFICES ASSUME Script!ScriptAssumption, Script!Init PROVE ScriptInv
  BY DEF Script!Init
<1> DEFINE none == <<>>
           frame == [file |-> "main", line |-> 1, callerOnerror |-> "stop"]
<1>1. none \in Seq(StepRecords) /\ none \in Seq(Places) /\ none \in Seq(Script!Folders) /\ Len(none) = 0
      /\ none \in Seq(Script!Commands)
  OBVIOUS
<1>2. frame \in Frames
  BY DEF Frames, Script!Onerrors, Script!ScriptAssumption
<1>3. /\ script = [f \in Files |-> none] /\ stack = <<frame>> /\ onerror = "stop" /\ depth = 1 /\ cwd = "start"
      /\ steps = none /\ errors = none /\ raised = "none" /\ ownOnerror = <<"none">> /\ wasIn = none /\ happened = none
      /\ stopped = FALSE
  BY DEF Script!Init
<1> HIDE DEF none, frame
<1>4. stack \in Seq(Frames) /\ Len(stack) = 1 /\ stack[1] = frame /\ script \in [Files -> Seq(Script!Commands)]
  BY <1>1, <1>2, <1>3
<1>5. ScriptTyped
  BY <1>1, <1>3, <1>4 DEF ScriptTyped, Script!Onerrors, Errors
<1>6. OnerrorFollowed
  <2>1. ownOnerror \in Seq(Script!Onerrors \cup {"none"}) /\ Len(ownOnerror) = 1 /\ ownOnerror[1] = "none"
    BY <1>3
  <2>2. LastSet(ownOnerror, 1, "stop") /\ LastSet(ownOnerror, 0, "stop")
    BY <2>1 DEF LastSet
  <2>3. stack[1].callerOnerror = "stop"
    BY <1>4 DEF frame
  <2> QED BY <1>3, <1>4, <2>1, <2>2, <2>3 DEF OnerrorFollowed
<1>7. MovesFollowed
  BY <1>1, <1>3 DEF MovesFollowed, LastMove, Script!Folders
<1>8. ErrorsFollowed /\ StopFollowed
  BY <1>3 DEF ErrorsFollowed, StopFollowed
<1> QED BY <1>5, <1>6, <1>7, <1>8 DEF ScriptInv

\* The command at the line of the file on top.
LEMMA CommandIs ==
  ASSUME ScriptTyped, stack # <<>>
  PROVE  /\ Len(stack) \in Nat /\ Len(stack) # 0 /\ Script!Top = stack[Len(stack)] /\ Script!Top \in Frames
         /\ Script!Known => Script!Command \in Script!Commands
<1>1. stack \in Seq(Frames) /\ Len(stack) \in Nat /\ Len(stack) # 0
  BY EmptySeq DEF ScriptTyped
<1>2. Script!Top = stack[Len(stack)]
  BY DEF Script!Top, Script!Last
<1>3. stack[Len(stack)] \in Frames
  BY <1>1
<1>4. ASSUME Script!Known PROVE Script!Command \in Script!Commands
  <2> DEFINE t == Script!Top
  <2>1. t.file \in Files /\ t.line \in Nat \ {0}
    BY <1>2, <1>3 DEF Frames
  <2>2. script[t.file] \in Seq(Script!Commands) /\ t.line \in 1 .. Len(script[t.file])
    BY <1>4, <2>1 DEF ScriptTyped, Script!Known
  <2> HIDE DEF t
  <2>3. script[t.file][t.line] \in Script!Commands
    BY <2>2
  <2> QED BY <2>3 DEF Script!Command, t
<1> QED BY <1>1, <1>2, <1>3, <1>4

LEMMA CommandTo ==
  ASSUME Script!Command \in Script!Commands
  PROVE  /\ Script!Command.name = "do" => Script!Command.to \in Files
         /\ Script!Command.name = "onerror" => Script!Command.to \in Script!Onerrors
         /\ Script!Command.caught \in BOOLEAN
<1> DEFINE c == Script!Command
<1>1. CASE c \in Script!Op(Script!Plain, {"none"}, {FALSE})
  <2>1. c.name \in Script!Plain /\ c.caught = FALSE
    BY <1>1 DEF Script!Op
  <2> QED BY <2>1 DEF Script!Plain
<1>2. CASE c \in Script!Op({"onerror"}, Script!Onerrors, {FALSE})
  BY <1>2 DEF Script!Op
<1>3. CASE c \in Script!Op({"do"}, Files, BOOLEAN)
  BY <1>3 DEF Script!Op
<1>4. CASE c \in Script!Op({"quit"}, {"none"}, {TRUE})
  BY <1>4 DEF Script!Op
<1> QED BY <1>1, <1>2, <1>3, <1>4 DEF Script!Commands

-----------------------------------------------------------------------------
(* The ways the stack moves *)

Stays == UNCHANGED <<stack, onerror, depth, ownOnerror>>
GoesOn == stack # <<>> /\ Script!NextLine /\ UNCHANGED <<onerror, depth, ownOnerror>>
SetsOnerror ==
  /\ stack # <<>> /\ Script!Command \in Script!Commands /\ Script!Command.name = "onerror" /\ Script!NextLine
  /\ onerror' = Script!Command.to /\ ownOnerror' = [ownOnerror EXCEPT ![Len(stack)] = Script!Command.to]
  /\ UNCHANGED depth
Enters == stack # <<>> /\ (\E f \in Files : Script!Push(f)) /\ UNCHANGED onerror
Leaves == stack # <<>> /\ \E error \in Errors : Script!Pop(error)

LEMMA StackMoves ==
  ASSUME ScriptInv, Script!Next
  PROVE  Stays \/ GoesOn \/ SetsOnerror \/ Enters \/ Leaves
<1> USE DEF Script!Runs
<1>1. ScriptTyped
  BY DEF ScriptInv
<1>2. CASE Script!ReadCommand \/ Script!TclError \/ Script!RunnerStops \/ Script!MainEnds
  BY <1>2 DEF Script!ReadCommand, Script!TclError, Script!RunnerStops, Script!MainEnds, Script!Raise, Script!Continues, Stays
<1>3. CASE Script!Record
  BY <1>3 DEF Script!Record, Script!Continues, GoesOn
<1>4. CASE Script!OnerrorCommand
  BY <1>1, <1>4, CommandIs DEF Script!OnerrorCommand, SetsOnerror
<1>5. CASE Script!Quit
  BY <1>5 DEF Script!Quit, Script!Raise, Script!Continues, Stays, GoesOn
<1>6. CASE Script!Cd
  BY <1>6 DEF Script!Cd, Script!Raise, Script!Continues, Stays, GoesOn
<1>7. CASE Script!Include
  <2>1. stack # <<>> /\ Script!Command \in Script!Commands /\ Script!Command.name = "do" /\ UNCHANGED onerror
    BY <1>1, <1>7, CommandIs DEF Script!Include
  <2>2. Script!Command.to \in Files
    BY <2>1, CommandTo
  <2>3. CASE Script!Push(Script!Command.to)
    BY <2>1, <2>2, <2>3 DEF Enters
  <2>4. CASE Script!IncludeFails("tcl") \/ Script!IncludeFails("fatal")
    BY <2>1, <2>4 DEF Script!IncludeFails, Script!Raise, Stays, GoesOn
  <2> QED BY <1>7, <2>3, <2>4 DEF Script!Include
<1>8. CASE Script!FileEnds
  BY <1>8 DEF Script!FileEnds, Leaves, Errors
<1>9. CASE Script!HandleError
  BY <1>9 DEF Script!HandleError, Script!Continues, Leaves, GoesOn, Errors
<1> QED BY <1>2, <1>3, <1>4, <1>5, <1>6, <1>7, <1>8, <1>9 DEF Script!Next

\* The line of the file on top moves on; the frames stay.
LEMMA LineMoves ==
  ASSUME ScriptTyped, stack # <<>>, Script!NextLine
  PROVE  /\ stack' \in Seq(Frames) /\ Len(stack') = Len(stack) /\ stack' # <<>>
         /\ \A k \in 1 .. Len(stack) : stack'[k].callerOnerror = stack[k].callerOnerror /\ stack'[k].file = stack[k].file
<1> DEFINE n == Len(stack)
           frame == [stack[n] EXCEPT !.line = @ + 1]
<1>1. stack \in Seq(Frames) /\ n \in Nat /\ n # 0 /\ stack[n] \in Frames
  BY CommandIs DEF ScriptTyped
<1>2. frame \in Frames /\ frame.callerOnerror = stack[n].callerOnerror /\ frame.file = stack[n].file
  BY <1>1 DEF Frames
<1>3. stack' = [stack EXCEPT ![n] = frame]
  BY DEF Script!NextLine
<1> HIDE DEF frame, n
<1>4. stack' \in Seq(Frames) /\ Len(stack') = Len(stack) /\ stack'[n] = frame
      /\ \A k \in 1 .. Len(stack) : k # n => stack'[k] = stack[k]
  BY <1>1, <1>2, <1>3 DEF n
<1>5. stack' # <<>>
  BY <1>1, <1>4, EmptySeq DEF n
<1> QED BY <1>2, <1>4, <1>5

\* The file on top ends.
LEMMA FrameLeaves ==
  ASSUME ScriptTyped, stack # <<>>, NEW error, Script!Pop(error)
  PROVE  /\ stack' \in Seq(Frames) /\ Len(stack') = Len(stack) - 1
         /\ \A k \in 1 .. Len(stack') : stack'[k].callerOnerror = stack[k].callerOnerror /\ stack'[k].file = stack[k].file
<1> DEFINE n == Len(stack)
           below == SubSeq(stack, 1, n - 1)
           frame == [below[n - 1] EXCEPT !.line = @ + 1]
<1>1. stack \in Seq(Frames) /\ n \in Nat /\ n # 0
  BY CommandIs DEF ScriptTyped
<1>2. n - 1 \in Nat /\ below \in Seq(Frames) /\ Len(below) = n - 1 /\ \A k \in 1 .. n - 1 : below[k] = stack[k]
  <2>1. below = Segment(stack, 0, n - 1)
    BY DEF Segment
  <2>2. n - 1 \in Nat /\ 0 <= n - 1 /\ n - 1 <= Len(stack)
    BY <1>1
  <2> HIDE DEF n
  <2>3. IsSegment(below, Frames, stack, 0, n - 1)
    BY <1>1, <2>1, <2>2, SegmentIs
  <2> HIDE DEF below
  <2>4. (n - 1) - 0 = n - 1 /\ \A k \in 1 .. n - 1 : 0 + k = k
    BY <2>2
  <2> QED BY <2>2, <2>3, <2>4 DEF IsSegment
<1>3. stack' = below \/ (below # <<>> /\ stack' = [below EXCEPT ![n - 1] = frame])
  <2>1. stack' = below \/ (below # <<>> /\ stack' = [below EXCEPT ![Len(below)].line = @ + 1])
    BY DEF Script!Pop
  <2> QED BY <1>2, <2>1
<1> HIDE DEF below, n
<1>4. CASE stack' = below
  BY <1>2, <1>4 DEF n
<1>5. CASE below # <<>> /\ stack' = [below EXCEPT ![n - 1] = frame]
  <2>1. n - 1 # 0 /\ n - 1 \in 1 .. n - 1
    BY <1>2, <1>5, EmptySeq
  <2>2. below[n - 1] \in Frames
    BY <1>2, <2>1
  <2>3. frame \in Frames /\ frame.callerOnerror = below[n - 1].callerOnerror /\ frame.file = below[n - 1].file
    BY <2>2 DEF Frames
  <2> HIDE DEF frame
  <2>4. stack' \in Seq(Frames) /\ Len(stack') = n - 1 /\ stack'[n - 1] = frame
        /\ \A k \in 1 .. n - 1 : k # n - 1 => stack'[k] = below[k]
    BY <1>2, <1>5, <2>1, <2>3
  <2> QED BY <1>2, <2>3, <2>4 DEF n
<1> QED BY <1>3, <1>4, <1>5

LEMMA LastSetSame ==
  ASSUME NEW own, NEW other, NEW n \in Nat, NEW value, \A k \in 1 .. n : other[k] = own[k], LastSet(own, n, value)
  PROVE  LastSet(other, n, value)
BY DEF LastSet

LEMMA OnerrorKeeps ==
  ASSUME ScriptTyped, OnerrorFollowed, Stays \/ GoesOn \/ SetsOnerror \/ Enters \/ Leaves
  PROVE  OnerrorFollowed' /\ stack' \in Seq(Frames) /\ onerror' \in Script!Onerrors
<1> DEFINE n == Len(stack)
<1>1. /\ depth = n /\ ownOnerror \in Seq(Script!Onerrors \cup {"none"}) /\ Len(ownOnerror) = n
      /\ (stack # <<>> => LastSet(ownOnerror, n, onerror))
      /\ \A k \in 1 .. n : LastSet(ownOnerror, k - 1, stack[k].callerOnerror)
  BY DEF OnerrorFollowed
<1>2. stack \in Seq(Frames) /\ n \in Nat /\ onerror \in Script!Onerrors /\ (stack # <<>> => n # 0)
  BY EmptySeq DEF ScriptTyped
<1>3. CASE Stays
  BY <1>1, <1>2, <1>3 DEF Stays, OnerrorFollowed
<1>4. CASE GoesOn
  <2>1. UNCHANGED <<onerror, depth, ownOnerror>> /\ stack' \in Seq(Frames) /\ Len(stack') = n /\ stack' # <<>> /\ stack # <<>>
        /\ \A k \in 1 .. n : stack'[k].callerOnerror = stack[k].callerOnerror
    BY <1>4, LineMoves DEF GoesOn
  <2> HIDE DEF n
  <2> QED BY <1>1, <1>2, <2>1 DEF OnerrorFollowed
<1>5. CASE SetsOnerror
  <2> DEFINE to == Script!Command.to
  <2>1. to \in Script!Onerrors /\ onerror' = to /\ ownOnerror' = [ownOnerror EXCEPT ![n] = to] /\ depth' = depth
    BY <1>5, CommandTo DEF SetsOnerror
  <2>2. stack' \in Seq(Frames) /\ Len(stack') = n /\ stack' # <<>> /\ stack # <<>>
        /\ \A k \in 1 .. n : stack'[k].callerOnerror = stack[k].callerOnerror
    BY <1>5, LineMoves DEF SetsOnerror
  <2> HIDE DEF to, n
  <2>3. /\ ownOnerror' \in Seq(Script!Onerrors \cup {"none"}) /\ Len(ownOnerror') = n
        /\ ownOnerror'[n] = to /\ \A k \in 1 .. n : k # n => ownOnerror'[k] = ownOnerror[k]
    BY <1>1, <1>2, <2>1, <2>2
  <2>4. LastSet(ownOnerror', n, to)
    <3>1. n \in 1 .. n /\ to # "none" /\ \A j \in n + 1 .. n : FALSE
      BY <1>2, <2>1, <2>2 DEF Script!Onerrors
    <3> QED BY <2>3, <3>1 DEF LastSet
  <2>5. ASSUME NEW k \in 1 .. n PROVE LastSet(ownOnerror', k - 1, stack'[k].callerOnerror)
    <3>1. k - 1 \in Nat /\ \A j \in 1 .. k - 1 : j \in 1 .. n /\ j # n
      BY <1>2
    <3>2. \A j \in 1 .. k - 1 : ownOnerror'[j] = ownOnerror[j]
      BY <2>3, <3>1
    <3>3. LastSet(ownOnerror, k - 1, stack[k].callerOnerror)
      BY <1>1
    <3>4. LastSet(ownOnerror', k - 1, stack[k].callerOnerror)
      BY <3>1, <3>2, <3>3, LastSetSame
    <3> QED BY <2>2, <3>4
  <2> QED BY <1>1, <2>1, <2>2, <2>3, <2>4, <2>5 DEF OnerrorFollowed
<1>6. CASE Enters
  <2>1. PICK f \in Files : Script!Push(f)
    BY <1>6 DEF Enters
  <2> DEFINE frame == [file |-> f, line |-> 1, callerOnerror |-> onerror]
  <2>2. /\ stack' = Append(stack, frame) /\ depth' = depth + 1 /\ ownOnerror' = Append(ownOnerror, "none")
        /\ onerror' = onerror /\ stack # <<>>
    BY <1>6, <2>1 DEF Enters, Script!Push
  <2>3. frame \in Frames /\ frame.callerOnerror = onerror
    BY <1>2 DEF Frames
  <2> HIDE DEF frame, n
  <2>4. stack' \in Seq(Frames) /\ Len(stack') = n + 1 /\ stack'[n + 1] = frame /\ \A k \in 1 .. n : stack'[k] = stack[k]
    BY <1>2, <2>2, <2>3 DEF n
  <2>5. /\ ownOnerror' \in Seq(Script!Onerrors \cup {"none"}) /\ Len(ownOnerror') = n + 1
        /\ ownOnerror'[n + 1] = "none" /\ \A k \in 1 .. n : ownOnerror'[k] = ownOnerror[k]
    BY <1>1, <2>2
  <2>6. LastSet(ownOnerror', n, onerror)
    BY <1>1, <1>2, <2>2, <2>5, LastSetSame
  <2>7. LastSet(ownOnerror', n + 1, onerror)
    <3>1. CASE onerror = "stop" /\ \A k \in 1 .. n : ownOnerror'[k] = "none"
      <4>1. \A k \in 1 .. n + 1 : k \in 1 .. n \/ k = n + 1
        BY <1>2
      <4> QED BY <2>5, <3>1, <4>1 DEF LastSet
    <3>2. ASSUME NEW k \in 1 .. n, ownOnerror'[k] = onerror, onerror # "none", \A j \in k + 1 .. n : ownOnerror'[j] = "none"
          PROVE  LastSet(ownOnerror', n + 1, onerror)
      <4>1. k \in 1 .. n + 1 /\ \A j \in k + 1 .. n + 1 : j \in k + 1 .. n \/ j = n + 1
        BY <1>2
      <4> QED BY <2>5, <3>2, <4>1 DEF LastSet
    <3> QED BY <2>6, <3>1, <3>2 DEF LastSet
  <2>8. ASSUME NEW k \in 1 .. n + 1 PROVE LastSet(ownOnerror', k - 1, stack'[k].callerOnerror)
    <3>1. CASE k = n + 1
      <4>1. k - 1 = n /\ stack'[k].callerOnerror = onerror
        BY <1>2, <2>3, <2>4, <3>1
      <4> QED BY <2>6, <4>1
    <3>2. CASE k # n + 1
      <4>1. k \in 1 .. n /\ k - 1 \in Nat /\ \A j \in 1 .. k - 1 : j \in 1 .. n
        BY <1>2, <3>2
      <4>2. LastSet(ownOnerror, k - 1, stack[k].callerOnerror) /\ stack'[k] = stack[k]
        BY <1>1, <2>4, <4>1
      <4>3. \A j \in 1 .. k - 1 : ownOnerror'[j] = ownOnerror[j]
        BY <2>5, <4>1
      <4>4. LastSet(ownOnerror', k - 1, stack[k].callerOnerror)
        BY <4>1, <4>2, <4>3, LastSetSame
      <4> QED BY <4>2, <4>4
    <3> QED BY <3>1, <3>2
  <2> QED BY <1>1, <1>2, <2>2, <2>4, <2>5, <2>7, <2>8 DEF OnerrorFollowed
<1>7. CASE Leaves
  <2>1. PICK error \in Errors : Script!Pop(error)
    BY <1>7 DEF Leaves
  <2>2. stack # <<>> /\ n # 0
    BY <1>2, <1>7 DEF Leaves
  <2>3. /\ stack' \in Seq(Frames) /\ Len(stack') = n - 1
        /\ \A k \in 1 .. n - 1 : stack'[k].callerOnerror = stack[k].callerOnerror
    BY <2>1, <2>2, FrameLeaves
  <2>4. depth' = depth - 1 /\ onerror' = stack[n].callerOnerror /\ ownOnerror' = SubSeq(ownOnerror, 1, n - 1)
    BY <2>1, <2>2, CommandIs DEF Script!Pop, Script!OnerrorAfter
  <2> HIDE DEF n
  <2>5. n - 1 \in Nat /\ n \in 1 .. n /\ \A k \in 1 .. n - 1 : k \in 1 .. n
    BY <1>2, <2>2
  <2>6. /\ ownOnerror' \in Seq(Script!Onerrors \cup {"none"}) /\ Len(ownOnerror') = n - 1
        /\ \A k \in 1 .. n - 1 : ownOnerror'[k] = ownOnerror[k]
    BY <1>1, <2>4, <2>5
  <2>7. LastSet(ownOnerror', n - 1, onerror')
    <3>1. LastSet(ownOnerror, n - 1, stack[n].callerOnerror)
      BY <1>1, <2>5
    <3> QED BY <2>4, <2>5, <2>6, <3>1, LastSetSame
  <2>8. ASSUME NEW k \in 1 .. n - 1 PROVE LastSet(ownOnerror', k - 1, stack'[k].callerOnerror)
    <3>1. k \in 1 .. n /\ k - 1 \in Nat /\ \A j \in 1 .. k - 1 : j \in 1 .. n - 1
      BY <1>2, <2>5
    <3>2. \A j \in 1 .. k - 1 : ownOnerror'[j] = ownOnerror[j]
      BY <2>6, <3>1
    <3>3. LastSet(ownOnerror, k - 1, stack[k].callerOnerror)
      BY <1>1, <3>1
    <3>4. LastSet(ownOnerror', k - 1, stack[k].callerOnerror)
      BY <3>1, <3>2, <3>3, LastSetSame
    <3> QED BY <2>3, <3>4
  <2>9. onerror' \in Script!Onerrors
    <3>1. stack[n] \in Frames
      BY <1>2, <2>5 DEF n
    <3>2. stack[n].callerOnerror \in Script!Onerrors
      BY <3>1 DEF Frames
    <3> QED BY <2>4, <3>2
  <2> QED BY <1>1, <2>3, <2>4, <2>6, <2>7, <2>8, <2>9 DEF OnerrorFollowed
<1> QED BY <1>3, <1>4, <1>5, <1>6, <1>7

-----------------------------------------------------------------------------
(* What the steps, the errors and the stop of a script say *)

\* Nothing is recorded, a step is that moves nothing, or the script moves.
Silent == UNCHANGED <<steps, wasIn, cwd>>
Records == \E command \in {"vcom", "onerror", "quit", "cd", "do"} : Script!EmitStep(command, "none", cwd) /\ UNCHANGED cwd
Moves == \E to \in Script!Folders : Script!EmitStep("cd", to, to) /\ cwd' = to

LEMMA StepsRecorded ==
  ASSUME Script!Next
  PROVE  Silent \/ Records \/ Moves
<1>1. CASE Script!ReadCommand \/ Script!TclError \/ Script!RunnerStops \/ Script!MainEnds \/ Script!FileEnds \/ Script!HandleError
  BY <1>1 DEF Script!ReadCommand, Script!TclError, Script!RunnerStops, Script!MainEnds, Script!FileEnds, Script!HandleError,
              Script!Pop, Silent
<1>2. CASE Script!Record \/ Script!OnerrorCommand \/ Script!Quit \/ Script!Include
  BY <1>2 DEF Script!Record, Script!OnerrorCommand, Script!Quit, Script!Include, Records
<1>3. CASE Script!Cd
  BY <1>3 DEF Script!Cd, Script!StepFolder, Records, Moves
<1> QED BY <1>1, <1>2, <1>3 DEF Script!Next

LEMMA LastMoveSame ==
  ASSUME NEW recorded, NEW other, NEW n \in Nat, NEW folder, \A k \in 1 .. n : other[k] = recorded[k],
         LastMove(recorded, n, folder)
  PROVE  LastMove(other, n, folder)
BY DEF LastMove

LEMMA MovesKeeps ==
  ASSUME ScriptTyped, MovesFollowed, Silent \/ Records \/ Moves
  PROVE  MovesFollowed' /\ steps' \in Seq(StepRecords)
<1> DEFINE n == Len(steps)
<1>1. steps \in Seq(StepRecords) /\ n \in Nat /\ wasIn \in Seq(Script!Folders) /\ Len(wasIn) = n /\ cwd \in Script!Folders
      /\ (\A k \in 1 .. n : steps[k].folder # "none" => steps[k].command = "cd")
      /\ (\A k \in 1 .. n : LastMove(steps, k, wasIn[k])) /\ LastMove(steps, n, cwd)
  BY DEF ScriptTyped, MovesFollowed
<1>2. CASE Silent
  BY <1>1, <1>2 DEF Silent, MovesFollowed
<1>3. ASSUME NEW record \in StepRecords, NEW after \in Script!Folders, steps' = Append(steps, record), wasIn' = Append(wasIn, after),
             cwd' = after, record.folder # "none" => record.command = "cd",
             record.folder = "none" => after = cwd, record.folder # "none" => after = record.folder
      PROVE  MovesFollowed' /\ steps' \in Seq(StepRecords)
  <2> HIDE DEF n
  <2>1. /\ steps' \in Seq(StepRecords) /\ Len(steps') = n + 1 /\ steps'[n + 1] = record /\ \A k \in 1 .. n : steps'[k] = steps[k]
        /\ wasIn' \in Seq(Script!Folders) /\ Len(wasIn') = n + 1 /\ wasIn'[n + 1] = after /\ \A k \in 1 .. n : wasIn'[k] = wasIn[k]
    <3>1. steps' \in Seq(StepRecords) /\ Len(steps') = n + 1 /\ steps'[n + 1] = record /\ \A k \in 1 .. n : steps'[k] = steps[k]
      BY <1>1, <1>3 DEF n
    <3>2. wasIn' \in Seq(Script!Folders) /\ Len(wasIn') = n + 1 /\ wasIn'[n + 1] = after /\ \A k \in 1 .. n : wasIn'[k] = wasIn[k]
      BY <1>1, <1>3
    <3> QED BY <3>1, <3>2
  <2>2. \A k \in 1 .. n + 1 : k \in 1 .. n \/ k = n + 1
    BY <1>1
  <2>3. ASSUME NEW k \in 1 .. n PROVE LastMove(steps', k, wasIn'[k])
    <3>1. LastMove(steps, k, wasIn[k]) /\ k \in Nat /\ (\A j \in 1 .. k : j \in 1 .. n)
      BY <1>1
    <3>2. \A j \in 1 .. k : steps'[j] = steps[j]
      BY <2>1, <3>1
    <3>3. LastMove(steps', k, wasIn[k])
      BY <3>1, <3>2, LastMoveSame
    <3> QED BY <2>1, <3>3
  <2>4. LastMove(steps', n + 1, after)
    <3>1. CASE record.folder # "none"
      <4>1. n + 1 \in 1 .. n + 1 /\ \A j \in (n + 1) + 1 .. n + 1 : FALSE
        BY <1>1
      <4> QED BY <1>3, <2>1, <3>1, <4>1 DEF LastMove
    <3>2. CASE record.folder = "none"
      <4>1. LastMove(steps', n, cwd)
        BY <1>1, <2>1, LastMoveSame
      <4>2. CASE cwd = "start" /\ \A k \in 1 .. n : steps'[k].folder = "none"
        BY <1>3, <2>1, <2>2, <3>2, <4>2 DEF LastMove
      <4>3. ASSUME NEW k \in 1 .. n, steps'[k].folder = cwd, cwd # "none", \A j \in k + 1 .. n : steps'[j].folder = "none"
            PROVE  LastMove(steps', n + 1, after)
        <5>1. k \in 1 .. n + 1 /\ \A j \in k + 1 .. n + 1 : j \in k + 1 .. n \/ j = n + 1
          BY <1>1
        <5> QED BY <1>3, <2>1, <3>2, <4>3, <5>1 DEF LastMove
      <4> QED BY <4>1, <4>2, <4>3 DEF LastMove
    <3> QED BY <3>1, <3>2
  <2>5. \A k \in 1 .. n + 1 : steps'[k].folder # "none" => steps'[k].command = "cd"
    BY <1>1, <1>3, <2>1, <2>2
  <2>6. \A k \in 1 .. n + 1 : LastMove(steps', k, wasIn'[k])
    BY <2>1, <2>2, <2>3, <2>4
  <2> QED BY <1>3, <2>1, <2>4, <2>5, <2>6 DEF MovesFollowed
<1>4. CASE Records
  <2>1. PICK command \in {"vcom", "onerror", "quit", "cd", "do"} : Script!EmitStep(command, "none", cwd) /\ cwd' = cwd
    BY <1>4 DEF Records
  <2> DEFINE record == [command |-> command, folder |-> "none"]
  <2>2. record \in StepRecords /\ record.folder = "none"
    BY DEF StepRecords
  <2>3. steps' = Append(steps, record) /\ wasIn' = Append(wasIn, cwd)
    BY <2>1 DEF Script!EmitStep
  <2> HIDE DEF record
  <2> QED BY <1>1, <1>3, <2>1, <2>2, <2>3
<1>5. CASE Moves
  <2>1. PICK to \in Script!Folders : Script!EmitStep("cd", to, to) /\ cwd' = to
    BY <1>5 DEF Moves
  <2> DEFINE record == [command |-> "cd", folder |-> to]
  <2>2. record \in StepRecords /\ record.folder = to /\ record.command = "cd" /\ to # "none"
    BY DEF StepRecords, Script!Folders
  <2>3. steps' = Append(steps, record) /\ wasIn' = Append(wasIn, to)
    BY <2>1 DEF Script!EmitStep
  <2> HIDE DEF record
  <2> QED BY <1>3, <2>1, <2>2, <2>3
<1> QED BY <1>2, <1>4, <1>5

LEMMA ErrorsKeeps ==
  ASSUME ScriptTyped, ErrorsFollowed, Script!Next
  PROVE  ErrorsFollowed' /\ errors' \in Seq(Places) /\ raised' \in Errors
<1> USE DEF Script!Runs
<1>1. errors \in Seq(Places) /\ raised \in Errors /\ Len(steps) \in Nat
  BY DEF ScriptTyped
<1>2. (raised = "tcl" => stack # <<>> /\ happened = Append(errors, Script!Here)) /\ (raised # "tcl" => happened = errors)
  BY DEF ErrorsFollowed
<1>3. stack # <<>> => Script!Here \in Places
  <2> SUFFICES ASSUME stack # <<>> PROVE Script!Here \in Places
    OBVIOUS
  <2>1. Script!Top \in Frames
    BY CommandIs
  <2> QED BY <1>1, <2>1 DEF Frames, Places, Script!Here
<1>4. CASE UNCHANGED <<stack, steps, errors, raised, happened>>
  BY <1>1, <1>2, <1>4 DEF ErrorsFollowed, Script!Here, Script!Top, Script!Last
<1>5. CASE /\ raised # "tcl" /\ raised' \in Errors \ {"tcl"} /\ UNCHANGED <<errors, happened>>
  BY <1>1, <1>2, <1>5 DEF ErrorsFollowed
\* A command failed: what happened is where it stands, after its step.
<1>6. ASSUME stack # <<>>, raised # "tcl", raised' = "tcl", UNCHANGED <<stack, errors>>,
             \/ steps' = steps /\ happened' = Append(happened, Script!Here)
             \/ Len(steps') = Len(steps) + 1 /\ happened' = Append(happened, [Script!Here EXCEPT !.step = @ + 1])
      PROVE  ErrorsFollowed' /\ errors' \in Seq(Places) /\ raised' \in Errors
  <2>1. happened' = Append(errors', Script!Here')
    <3>1. CASE steps' = steps /\ happened' = Append(happened, Script!Here)
      <4>1. Script!Here' = Script!Here
        BY <1>6, <3>1 DEF Script!Here, Script!Top, Script!Last
      <4> QED BY <1>2, <1>6, <3>1, <4>1
    <3>2. CASE Len(steps') = Len(steps) + 1 /\ happened' = Append(happened, [Script!Here EXCEPT !.step = @ + 1])
      <4>1. Script!Top' = Script!Top
        BY <1>6 DEF Script!Top, Script!Last
      <4>2. Script!Here' = [file |-> Script!Top.file, line |-> Script!Top.line, step |-> Len(steps) + 1]
        BY <3>2, <4>1 DEF Script!Here
      <4>3. [Script!Here EXCEPT !.step = @ + 1] = [file |-> Script!Top.file, line |-> Script!Top.line, step |-> Len(steps) + 1]
        BY DEF Script!Here
      <4> QED BY <1>2, <1>6, <3>2, <4>2, <4>3
    <3> QED BY <1>6, <3>1, <3>2
  <2>2. stack' # <<>> /\ errors' \in Seq(Places) /\ raised' \in Errors
    BY <1>1, <1>6 DEF Errors
  <2> QED BY <1>6, <2>1, <2>2 DEF ErrorsFollowed
<1>7. CASE Script!ReadCommand \/ Script!RunnerStops \/ Script!MainEnds
  BY <1>4, <1>7 DEF Script!ReadCommand, Script!RunnerStops, Script!MainEnds
<1>8. CASE Script!Record \/ Script!OnerrorCommand \/ Script!Quit
  BY <1>5, <1>8 DEF Script!Record, Script!OnerrorCommand, Script!Quit, Script!Raise, Errors
<1>9. CASE Script!FileEnds
  BY <1>5, <1>9 DEF Script!FileEnds, Script!Pop, Errors
<1>10. CASE Script!TclError
  BY <1>6, <1>10 DEF Script!TclError, Script!Raise
<1>11. ASSUME NEW command, NEW folder, NEW after, Script!EmitStep(command, folder, after)
       PROVE  Len(steps') = Len(steps) + 1
  <2>1. steps \in Seq(StepRecords)
    BY DEF ScriptTyped
  <2> QED BY <1>11, <2>1 DEF Script!EmitStep
<1>12. CASE Script!Cd
  <2>1. raised = "none" /\ stack # <<>> /\ UNCHANGED errors
    BY <1>12 DEF Script!Cd
  <2>2. CASE UNCHANGED <<raised, happened>> \/ (Script!Raise("fatal") /\ UNCHANGED happened)
    BY <1>5, <2>1, <2>2 DEF Script!Raise, Errors
  <2>3. CASE /\ Script!EmitStep("cd", "none", cwd) /\ Script!Raise("tcl")
             /\ happened' = Append(happened, [Script!Here EXCEPT !.step = @ + 1])
    BY <1>6, <1>11, <2>1, <2>3 DEF Script!Raise
  <2> QED BY <1>12, <2>2, <2>3 DEF Script!Cd
<1>13. CASE Script!Include
  <2>1. raised = "none" /\ stack # <<>> /\ UNCHANGED errors /\ Len(steps') = Len(steps) + 1
    BY <1>11, <1>13 DEF Script!Include
  <2>2. CASE UNCHANGED <<raised, happened>> \/ Script!IncludeFails("fatal")
    BY <1>5, <2>1, <2>2 DEF Script!IncludeFails, Script!Raise, Errors
  <2>3. CASE Script!IncludeFails("tcl")
    BY <1>5, <1>6, <2>1, <2>3 DEF Script!IncludeFails, Script!Raise, Errors
  <2> QED BY <1>13, <2>2, <2>3 DEF Script!Include
<1>14. CASE Script!HandleError
  <2>1. stack # <<>> /\ raised # "none" /\ errors' = (IF raised = "tcl" THEN Append(errors, Script!Here) ELSE errors)
        /\ UNCHANGED happened
    BY <1>14 DEF Script!HandleError, Script!Reports, Script!Pop
  <2>2. raised' \in Errors \ {"tcl"}
    BY <1>14 DEF Script!HandleError, Script!Pop, Errors
  <2>3. errors' = happened /\ errors' \in Seq(Places)
    BY <1>1, <1>2, <1>3, <2>1
  <2> QED BY <2>1, <2>2, <2>3 DEF ErrorsFollowed
<1> QED BY <1>7, <1>8, <1>9, <1>10, <1>12, <1>13, <1>14 DEF Script!Next

\* An error that nobody goes on after leaves the file on top, and the next one.
LEMMA PassesOn ==
  ASSUME ScriptTyped, stack # <<>>, Script!NobodyContinues, Script!Pop("reported"), UNCHANGED script
  PROVE  raised' = "reported" /\ (stack' # <<>> => Script!NobodyContinues')
<1> DEFINE n == Len(stack)
           below == SubSeq(stack, 1, n - 1)
           caught == below # <<>> /\ script[Script!Last(below).file][Script!Last(below).line].caught
<1>1. stack \in Seq(Frames) /\ n \in Nat /\ n # 0 /\ Script!Top = stack[n]
  BY CommandIs DEF ScriptTyped
<1>2. n - 1 \in Nat /\ below \in Seq(Frames) /\ Len(below) = n - 1 /\ \A k \in 1 .. n - 1 : below[k] = stack[k]
  <2>1. below = Segment(stack, 0, n - 1)
    BY DEF Segment
  <2>2. n - 1 \in Nat /\ 0 <= n - 1 /\ n - 1 <= Len(stack)
    BY <1>1
  <2> HIDE DEF n
  <2>3. IsSegment(below, Frames, stack, 0, n - 1)
    BY <1>1, <2>1, <2>2, SegmentIs
  <2> HIDE DEF below
  <2>4. (n - 1) - 0 = n - 1 /\ \A k \in 1 .. n - 1 : 0 + k = k
    BY <2>2
  <2> QED BY <2>2, <2>3, <2>4 DEF IsSegment
<1>3. \A k \in 1 .. n - 1 : ~script[stack[k].file][stack[k].line].caught /\ stack[k + 1].callerOnerror # "resume"
  BY DEF Script!NobodyContinues
<1>4. below # <<>> => n - 1 # 0 /\ n - 1 \in 1 .. n - 1 /\ Script!Last(below) = stack[n - 1]
  <2> SUFFICES ASSUME below # <<>> PROVE n - 1 # 0 /\ n - 1 \in 1 .. n - 1 /\ Script!Last(below) = stack[n - 1]
    OBVIOUS
  <2> HIDE DEF below
  <2>1. n - 1 # 0
    BY <1>2, EmptySeq
  <2>2. n - 1 \in 1 .. n - 1
    BY <1>2, <2>1
  <2> QED BY <1>2, <2>1, <2>2 DEF Script!Last
<1>5. ~caught
  BY <1>3, <1>4
<1>6. raised' = "reported" /\ stack' = below /\ onerror' = stack[n].callerOnerror
  <2>1. raised' = (IF "reported" # "none" /\ ~caught THEN "reported" ELSE "none")
        /\ stack' = (IF ("reported" # "none" /\ ~caught) \/ below = <<>> THEN below ELSE [below EXCEPT ![Len(below)].line = @ + 1])
        /\ onerror' = stack[n].callerOnerror
    BY <1>1 DEF Script!Pop, Script!OnerrorAfter
  <2> HIDE DEF caught
  <2> QED BY <1>5, <2>1
<1>7. ASSUME stack' # <<>> PROVE Script!NobodyContinues'
  <2>1. n - 1 \in 1 .. n - 1 /\ (n - 1) + 1 = n
    BY <1>1, <1>4, <1>6, <1>7
  <2> HIDE DEF n, below
  <2>2. onerror' # "resume"
    BY <1>3, <1>6, <2>1
  <2>3. Len(stack') = n - 1 /\ \A k \in 1 .. n - 1 : stack'[k] = stack[k]
    BY <1>2, <1>6
  <2>4. \A k \in 1 .. (n - 1) - 1 : k \in 1 .. n - 1 /\ k + 1 \in 1 .. n - 1
    BY <1>2
  <2>5. \A k \in 1 .. (n - 1) - 1 : ~script'[stack'[k].file][stack'[k].line].caught /\ stack'[k + 1].callerOnerror # "resume"
    BY <1>3, <2>3, <2>4
  <2> QED BY <2>2, <2>3, <2>5 DEF Script!NobodyContinues
<1> QED BY <1>6, <1>7

LEMMA StopKeeps ==
  ASSUME ScriptTyped, StopFollowed, Script!Next
  PROVE  StopFollowed' /\ stopped' \in BOOLEAN /\ (stopped => steps' = steps /\ errors' = errors)
<1>1. stopped \in BOOLEAN /\ (stopped => raised = "reported" /\ (stack # <<>> => Script!NobodyContinues))
  BY DEF ScriptTyped, StopFollowed
<1>2. CASE raised = "none" /\ stopped' = stopped
  BY <1>1, <1>2 DEF StopFollowed
<1>3. CASE Script!RunnerStops \/ Script!MainEnds
  BY <1>1, <1>3 DEF Script!RunnerStops, Script!MainEnds, StopFollowed, Script!NobodyContinues
<1>4. CASE Script!HandleError
  <2>1. stack # <<>> /\ raised # "none" /\ UNCHANGED script
        /\ stopped' = (stopped \/ (raised = "tcl" /\ Script!NobodyContinues))
    BY <1>4 DEF Script!HandleError, Script!Reports
  <2>2. CASE stopped'
    <3>1. Script!NobodyContinues /\ raised \in {"tcl", "reported"}
      BY <1>1, <2>1, <2>2
    <3>2. Script!Pop("reported")
      BY <1>4, <3>1 DEF Script!HandleError, Script!NobodyContinues, Script!Resumes
    <3>3. StopFollowed'
      BY <2>1, <3>1, <3>2, PassesOn DEF StopFollowed
    <3>4. stopped => steps' = steps /\ errors' = errors
      BY <1>1, <1>4, <3>2 DEF Script!HandleError, Script!Reports, Script!Pop
    <3> QED BY <2>2, <3>3, <3>4
  <2>3. CASE ~stopped'
    <3>1. ~stopped /\ stopped' \in BOOLEAN
      BY <1>1, <2>1, <2>3 DEF Script!NobodyContinues
    <3> QED BY <2>3, <3>1 DEF StopFollowed
  <2> QED BY <2>2, <2>3
<1>5. CASE Script!ReadCommand
  BY <1>2, <1>5 DEF Script!ReadCommand
<1>6. CASE Script!Record \/ Script!TclError \/ Script!OnerrorCommand \/ Script!Quit \/ Script!Cd \/ Script!Include \/ Script!FileEnds
  BY <1>2, <1>6 DEF Script!Record, Script!TclError, Script!OnerrorCommand, Script!Quit, Script!Cd, Script!Include,
                    Script!FileEnds, Script!Runs
<1> QED BY <1>3, <1>4, <1>5, <1>6 DEF Script!Next

LEMMA CommandsRead ==
  ASSUME ScriptTyped, Script!Next
  PROVE  script' \in [Files -> Seq(Script!Commands)]
<1>1. script \in [Files -> Seq(Script!Commands)]
  BY DEF ScriptTyped
<1>2. CASE UNCHANGED script
  BY <1>1, <1>2
<1>3. CASE Script!ReadCommand
  <2>1. PICK c \in Script!Commands : script' = [script EXCEPT ![Script!Top.file] = Append(@, c)]
    BY <1>3 DEF Script!ReadCommand
  <2>2. Script!Top.file \in Files
    BY <1>3, CommandIs DEF Script!ReadCommand, Frames
  <2>3. Append(script[Script!Top.file], c) \in Seq(Script!Commands)
    BY <1>1, <2>2
  <2> QED BY <1>1, <2>1, <2>2, <2>3
<1> QED BY <1>2, <1>3 DEF Script!Next, Script!Record, Script!TclError, Script!OnerrorCommand, Script!Quit, Script!Cd,
                          Script!Include, Script!FileEnds, Script!HandleError, Script!MainEnds, Script!RunnerStops, Script!Runs

LEMMA ScriptStep ==
  ASSUME ScriptInv, Script!Next \/ UNCHANGED <<scriptVars, errors>>
  PROVE  ScriptInv' /\ (stopped => steps' = steps /\ errors' = errors)
<1>1. CASE UNCHANGED <<scriptVars, errors>>
  <2>1. /\ script' = script /\ stack' = stack /\ onerror' = onerror /\ depth' = depth /\ cwd' = cwd /\ steps' = steps
        /\ raised' = raised /\ ownOnerror' = ownOnerror /\ wasIn' = wasIn /\ happened' = happened /\ stopped' = stopped
        /\ errors' = errors
    BY <1>1 DEF scriptVars
  <2>2. ScriptTyped' /\ OnerrorFollowed' /\ MovesFollowed'
    BY <2>1 DEF ScriptInv, ScriptTyped, OnerrorFollowed, MovesFollowed
  <2>3. ErrorsFollowed' /\ StopFollowed'
    BY <2>1 DEF ScriptInv, ErrorsFollowed, StopFollowed, Script!Here, Script!Top, Script!Last, Script!NobodyContinues
  <2> QED BY <2>1, <2>2, <2>3 DEF ScriptInv
<1>2. CASE Script!Next
  <2>1. ScriptTyped /\ OnerrorFollowed /\ MovesFollowed /\ ErrorsFollowed /\ StopFollowed
    BY DEF ScriptInv
  <2>2. OnerrorFollowed' /\ stack' \in Seq(Frames) /\ onerror' \in Script!Onerrors
    BY <1>2, <2>1, StackMoves, OnerrorKeeps
  <2>3. MovesFollowed' /\ steps' \in Seq(StepRecords)
    BY <1>2, <2>1, StepsRecorded, MovesKeeps
  <2>4. ErrorsFollowed' /\ errors' \in Seq(Places) /\ raised' \in Errors
    BY <1>2, <2>1, ErrorsKeeps
  <2>5. StopFollowed' /\ stopped' \in BOOLEAN /\ (stopped => steps' = steps /\ errors' = errors)
    BY <1>2, <2>1, StopKeeps
  <2>6. script' \in [Files -> Seq(Script!Commands)]
    BY <1>2, <2>1, CommandsRead
  <2> QED BY <2>2, <2>3, <2>4, <2>5, <2>6 DEF ScriptInv, ScriptTyped
<1> QED BY <1>1, <1>2

PartsScript == (part = "script" => ScriptInv) /\ (part # "script" => stopped = FALSE)

LEMMA PartsScriptHolds ==
  /\ PartsInit => PartsScript
  /\ PartsScript /\ [PartsNext]_partsVars => PartsScript' /\ (stopped => steps' = steps /\ errors' = errors)
<1>1. ASSUME PartsInit PROVE PartsScript
  <2>1. CASE part = "script"
    <3>1. Script!Init /\ Script!ScriptAssumption
      BY <1>1, <2>1, PartsAssumption DEF PartsInit
    <3>2. stopped = FALSE
      BY <3>1 DEF Script!Init
    <3> QED BY <2>1, <3>1, <3>2, ScriptInitially DEF PartsScript
  <2>2. CASE part # "script"
    BY <1>1, <2>2 DEF PartsInit, NoScript, PartsScript
  <2> QED BY <2>1, <2>2
<1>2. ASSUME PartsScript, [PartsNext]_partsVars PROVE PartsScript' /\ (stopped => steps' = steps /\ errors' = errors)
  <2>1. CASE part = "script"
    BY <1>2, <2>1, StepOfTheScript, ScriptStep DEF PartsScript
  <2>2. CASE part # "script"
    <3>1. UNCHANGED scriptVars /\ part' = part
      BY <1>2, <2>2, StepOfTheScript
    <3> QED BY <1>2, <2>2, <3>1 DEF PartsScript, scriptVars
  <2> QED BY <2>1, <2>2
<1> QED BY <1>1, <1>2

(***************************************************************************)
(* Once an error is reported that no running file resumes after and no     *)
(* command catches, the script records and reports nothing any more,       *)
(* however deep the file it happened in (runCommands of vhdl/dofile.ts).   *)
(***************************************************************************)
THEOREM ScriptStops == PartsSpec => StopsAtError
<1> DEFINE Quiet == stopped => steps' = steps /\ errors' = errors
<1>1. PartsInit => PartsScript
  BY PartsScriptHolds
<1>2. PartsScript /\ [PartsNext]_partsVars => PartsScript' /\ Quiet
  BY PartsScriptHolds
<1>3. Quiet => [stopped => steps' = steps /\ errors' = errors]_(Script!vars)
  OBVIOUS
<1> HIDE DEF Quiet
<1>4. PartsSpec => [][stopped => steps' = steps /\ errors' = errors]_(Script!vars)
  BY <1>1, <1>2, <1>3, PTL DEF PartsSpec
<1> QED BY <1>4 DEF StopsAtError, Script!StopsAtError

LEMMA FrontOfAppend ==
  ASSUME NEW s \in Seq(Places), NEW place
  PROVE  Script!Front(Append(s, place)) = s
<1> DEFINE longer == Append(s, place)
           M == Places \cup {place}
           front == SubSeq(longer, 1, Len(longer) - 1)
<1>1. longer \in Seq(M) /\ Len(s) \in Nat /\ Len(longer) = Len(s) + 1 /\ s \in Seq(M) /\ \A k \in 1 .. Len(s) : longer[k] = s[k]
  OBVIOUS
<1>2. Len(longer) - 1 = Len(s)
  BY <1>1
<1>3. front = Segment(longer, 0, Len(s))
  BY <1>2 DEF Segment
<1> HIDE DEF longer, M
<1>4. IsSegment(front, M, longer, 0, Len(s))
  <2>1. 0 <= Len(s) /\ Len(s) <= Len(longer)
    BY <1>1
  <2> QED BY <1>1, <1>3, <2>1, SegmentIs
<1> HIDE DEF front
<1>5. Len(s) - 0 = Len(s) /\ \A k \in 1 .. Len(s) : 0 + k = k
  BY <1>1
<1>6. front \in Seq(M) /\ Len(front) = Len(s) /\ \A k \in 1 .. Len(s) : front[k] = s[k]
  BY <1>1, <1>4, <1>5 DEF IsSegment
<1>7. front = s
  BY <1>1, <1>6, SeqEqual
<1> QED BY <1>7 DEF front, longer, Script!Front

(***************************************************************************)
(* onerror holds in the file that sets it and the files that file runs,    *)
(* every error is reported once and where it happened, and the folder that *)
(* analyzeSteps follows is the one the script is in (runCommands and       *)
(* analyzeSteps of vhdl/dofile.ts).                                        *)
(***************************************************************************)
THEOREM ScriptFollowed == PartsSpec => []DoFileFollowed
<1>1. PartsInit => PartsScript
  BY PartsScriptHolds
<1>2. PartsScript /\ [PartsNext]_partsVars => PartsScript'
  BY PartsScriptHolds
<1>3. PartsScript => DoFileFollowed
  <2> SUFFICES ASSUME ScriptInv PROVE Script!OnerrorScoped /\ Script!ReportedOnce /\ Script!FoldersFollowed
    BY DEF PartsScript, DoFileFollowed
  <2>1. ScriptTyped /\ OnerrorFollowed /\ MovesFollowed /\ ErrorsFollowed
    BY DEF ScriptInv
  <2>2. Script!OnerrorScoped
    <3> DEFINE n == Len(stack)
               setters == {k \in DOMAIN ownOnerror : ownOnerror[k] # "none"}
               last == CHOOSE k \in setters : \A j \in setters : j <= k
    <3> SUFFICES ASSUME stack # <<>>
                 PROVE  depth = n /\ onerror = IF setters = {} THEN "stop" ELSE ownOnerror[last]
      BY DEF Script!OnerrorScoped
    <3>1. depth = n /\ n \in Nat /\ DOMAIN ownOnerror = 1 .. n /\ LastSet(ownOnerror, n, onerror)
      BY <2>1 DEF OnerrorFollowed, ScriptTyped
    <3>2. CASE onerror = "stop" /\ \A k \in 1 .. n : ownOnerror[k] = "none"
      <4>1. setters = {}
        BY <3>1, <3>2
      <4> QED BY <3>1, <3>2, <4>1
    <3>3. ASSUME NEW k \in 1 .. n, ownOnerror[k] = onerror, onerror # "none", \A j \in k + 1 .. n : ownOnerror[j] = "none"
          PROVE  onerror = IF setters = {} THEN "stop" ELSE ownOnerror[last]
      <4>1. k \in setters /\ \A j \in setters : j \in 1 .. n /\ j \notin k + 1 .. n
        BY <3>1, <3>3
      <4>2. \A j \in setters : j \in Int /\ j <= k
        BY <3>1, <4>1
      <4> HIDE DEF setters
      <4>3. last \in setters /\ \A j \in setters : j <= last
        BY <4>1, <4>2
      <4> HIDE DEF last
      <4>4. last = k
        BY <4>1, <4>2, <4>3
      <4> QED BY <3>3, <4>1, <4>4
    <3> QED BY <3>1, <3>2, <3>3 DEF LastSet
  <2>3. Script!ReportedOnce
    <3>1. errors \in Seq(Places) /\ Len(errors) \in Nat
      BY <2>1 DEF ScriptTyped
    <3>2. CASE raised = "tcl"
      <4> DEFINE here == Script!Here
      <4>1. happened = Append(errors, here)
        BY <2>1, <3>2 DEF ErrorsFollowed
      <4> HIDE DEF here
      <4>2. Script!Front(Append(errors, here)) = errors
        BY <3>1, FrontOfAppend
      <4> QED BY <3>2, <4>1, <4>2 DEF Script!ReportedOnce
    <3>3. CASE raised # "tcl"
      BY <2>1, <3>3 DEF ErrorsFollowed, Script!ReportedOnce
    <3> QED BY <3>2, <3>3
  <2>4. Script!FoldersFollowed
    <3>1. steps \in Seq(StepRecords) /\ Len(steps) \in Nat /\ DOMAIN steps = 1 .. Len(steps)
          /\ (\A k \in 1 .. Len(steps) : steps[k].folder # "none" => steps[k].command = "cd")
          /\ \A k \in 1 .. Len(steps) : LastMove(steps, k, wasIn[k])
      BY <2>1 DEF ScriptTyped, MovesFollowed
    <3> SUFFICES ASSUME NEW n \in 1 .. Len(steps) PROVE Script!FolderAfter(n) = wasIn[n]
      BY <3>1 DEF Script!FoldersFollowed
    <3> DEFINE moves == {j \in 1 .. n : steps[j].command = "cd" /\ steps[j].folder # "none"}
               last == CHOOSE j \in moves : \A i \in moves : i <= j
               folder == wasIn[n]
    <3>2. LastMove(steps, n, folder) /\ n \in Nat /\ \A k \in 1 .. n : k \in 1 .. Len(steps)
      BY <3>1
    <3>3. Script!FolderAfter(n) = IF moves = {} THEN "start" ELSE steps[last].folder
      BY DEF Script!FolderAfter
    <3> HIDE DEF folder
    <3>4. CASE folder = "start" /\ \A k \in 1 .. n : steps[k].folder = "none"
      <4>1. moves = {}
        BY <3>4
      <4> QED BY <3>3, <3>4, <4>1 DEF folder
    <3>5. ASSUME NEW k \in 1 .. n, steps[k].folder = folder, folder # "none", \A j \in k + 1 .. n : steps[j].folder = "none"
          PROVE  Script!FolderAfter(n) = folder
      <4>1. k \in moves /\ \A j \in moves : j \in 1 .. n /\ j \notin k + 1 .. n
        BY <3>1, <3>2, <3>5
      <4>2. \A j \in moves : j \in Int /\ j <= k
        BY <3>2, <4>1
      <4> HIDE DEF moves
      <4>3. last \in moves /\ \A j \in moves : j <= last
        BY <4>1, <4>2
      <4> HIDE DEF last
      <4>4. last = k
        BY <4>1, <4>2, <4>3
      <4> QED BY <3>3, <3>5, <4>1, <4>4
    <3> QED BY <3>2, <3>4, <3>5 DEF LastMove, folder
  <2> QED BY <2>2, <2>3, <2>4
<1> QED BY <1>1, <1>2, <1>3, PTL DEF PartsSpec

-----------------------------------------------------------------------------
(* The instructions that are encoded (InstructionEncoder) *)

\* The sizes of some instructions together.
SumOfSizes(sized, T) == Encode!MapThenSumSet(LAMBDA j : sized[j].size, T)
Others(i, failed) == {j \in 1 .. i - 1 : j \notin failed}

AddressesAdd == \A i : Encode!Address(i) = SumOfSizes(sources, Others(i, errors))

LEMMA AddressIs == AddressesAdd
BY DEF SumOfSizes, Others, Encode!Address, AddressesAdd

LEMMA AddressStays ==
  ASSUME UNCHANGED <<sources, errors>>
  PROVE  \A i : Encode!Address(i)' = Encode!Address(i)
<1>1. AddressesAdd'
  BY AddressIs, PTL
<1> QED BY <1>1, AddressIs DEF AddressesAdd

\* How the elements of a set are added up, one that CHOOSE picks after the other.
One(s) == CHOOSE x \in s : TRUE
Adds(g, sized, U) == \A s \in U : g[s] = IF s = {} THEN 0 ELSE sized[One(s)].size + g[s \ {One(s)}]

LEMMA SumsExist ==
  ASSUME NEW T, IsFiniteSet(T), NEW sized, \A x \in T : sized[x].size \in Nat
  PROVE  \E g \in [SUBSET T -> Nat] : Adds(g, sized, SUBSET T)
<1> DEFINE Upto(n) == {s \in SUBSET T : Cardinality(s) <= n}
           A == {n \in Nat : \E g \in [Upto(n) -> Nat] : Adds(g, sized, Upto(n))}
<1>1. \A s \in SUBSET T : IsFiniteSet(s) /\ Cardinality(s) \in Nat /\ (Cardinality(s) = 0 <=> s = {})
  BY FS_Subset, FS_CardinalityType, FS_EmptySet
<1>2. 0 \in A
  <2>1. \A s \in Upto(0) : s = {}
    BY <1>1
  <2>2. [s \in Upto(0) |-> 0] \in [Upto(0) -> Nat] /\ Adds([s \in Upto(0) |-> 0], sized, Upto(0))
    BY <2>1 DEF Adds
  <2> QED BY <2>2
<1>3. \A s \in SUBSET T : s # {} =>
        /\ One(s) \in s /\ One(s) \in T /\ s \ {One(s)} \in SUBSET T
        /\ Cardinality(s \ {One(s)}) = Cardinality(s) - 1
  BY <1>1, FS_RemoveElement DEF One
<1>4. ASSUME NEW n \in Nat, n \in A PROVE n + 1 \in A
  <2>1. PICK g \in [Upto(n) -> Nat] : Adds(g, sized, Upto(n))
    BY <1>4
  <2> DEFINE h == [s \in Upto(n + 1) |-> IF s = {} THEN 0 ELSE sized[One(s)].size + g[s \ {One(s)}]]
  <2>2. \A s \in Upto(n + 1) : s # {} => s \ {One(s)} \in Upto(n)
    <3> SUFFICES ASSUME NEW s \in Upto(n + 1), s # {} PROVE s \ {One(s)} \in Upto(n)
      OBVIOUS
    <3>1. s \in SUBSET T /\ Cardinality(s) <= n + 1 /\ Cardinality(s) \in Nat
      BY <1>1
    <3>2. s \ {One(s)} \in SUBSET T /\ Cardinality(s \ {One(s)}) = Cardinality(s) - 1
      BY <1>3, <3>1
    <3>3. Cardinality(s \ {One(s)}) <= n
      BY <3>1, <3>2
    <3> QED BY <3>2, <3>3
  <2>3. \A s \in Upto(n + 1) : s # {} => g[s \ {One(s)}] \in Nat /\ sized[One(s)].size \in Nat
    BY <1>3, <2>1, <2>2
  <2>4. h \in [Upto(n + 1) -> Nat]
    BY <2>3
  <2>5. Upto(n) \subseteq Upto(n + 1)
    BY <1>1
  <2>6. \A s \in Upto(n) : h[s] = g[s]
    BY <2>1, <2>5 DEF Adds
  <2>7. \A s \in Upto(n + 1) : h[s] = IF s = {} THEN 0 ELSE sized[One(s)].size + g[s \ {One(s)}]
    OBVIOUS
  <2> HIDE DEF h, Upto
  <2>8. Adds(h, sized, Upto(n + 1))
    BY <2>2, <2>6, <2>7 DEF Adds
  <2> QED BY <2>4, <2>8
<1> DEFINE N == Cardinality(T)
<1>5. N \in Nat /\ Upto(N) = SUBSET T
  <2>1. N \in Nat
    BY FS_CardinalityType
  <2>2. \A s \in SUBSET T : Cardinality(s) <= N
    BY FS_Subset
  <2> QED BY <2>1, <2>2
<1>6. \A n \in Nat : n \in A
  <2> HIDE DEF A
  <2> QED BY <1>2, <1>4, SetInduction
<1>7. N \in A
  BY <1>5, <1>6
<1> HIDE DEF N, Upto
<1> QED BY <1>5, <1>7

LEMMA SumIsNatural ==
  ASSUME NEW T, IsFiniteSet(T), NEW sized, \A x \in T : sized[x].size \in Nat
  PROVE  SumOfSizes(sized, T) \in Nat
<1> DEFINE Fn(f) == [s \in SUBSET T |-> IF s = {} THEN 0
                       ELSE sized[CHOOSE x \in s : TRUE].size + f[s \ {CHOOSE x \in s : TRUE}]]
           sum == CHOOSE f : f = Fn(f)
<1>1. SumOfSizes(sized, T) = sum[T]
  BY DEF SumOfSizes, Encode!MapThenSumSet, Encode!MapThenFoldSet
<1>2. PICK g \in [SUBSET T -> Nat] : Adds(g, sized, SUBSET T)
  BY SumsExist
<1>3. g = Fn(g)
  BY <1>2 DEF Adds, One
<1>4. sum = Fn(sum)
  BY <1>3
<1> HIDE DEF sum
<1>5. \A s \in SUBSET T : sum[s] = IF s = {} THEN 0 ELSE sized[One(s)].size + sum[s \ {One(s)}]
  BY <1>4 DEF One
<1> DEFINE A == {n \in Nat : \A s \in SUBSET T : Cardinality(s) = n => sum[s] = g[s]}
<1>6. \A s \in SUBSET T : IsFiniteSet(s) /\ Cardinality(s) \in Nat /\ (Cardinality(s) = 0 <=> s = {})
  BY FS_Subset, FS_CardinalityType, FS_EmptySet
<1>7. 0 \in A
  BY <1>2, <1>5, <1>6 DEF Adds
<1>8. ASSUME NEW n \in Nat, n \in A PROVE n + 1 \in A
  <2> SUFFICES ASSUME NEW s \in SUBSET T, Cardinality(s) = n + 1 PROVE sum[s] = g[s]
    OBVIOUS
  <2>1. s # {}
    BY <1>6
  <2>2. One(s) \in s /\ s \ {One(s)} \in SUBSET T /\ Cardinality(s \ {One(s)}) = n
    <3>1. One(s) \in s /\ IsFiniteSet(s)
      BY <1>6, <2>1 DEF One
    <3>2. Cardinality(s \ {One(s)}) = Cardinality(s) - 1
      BY <3>1, FS_RemoveElement
    <3> QED BY <3>1, <3>2
  <2>3. sum[s \ {One(s)}] = g[s \ {One(s)}]
    BY <1>8, <2>2
  <2> QED BY <1>2, <1>5, <2>1, <2>3 DEF Adds
<1> HIDE DEF A
<1>9. Cardinality(T) \in A
  BY <1>6, <1>7, <1>8, SetInduction
<1>10. sum[T] = g[T]
  BY <1>6, <1>9 DEF A
<1> QED BY <1>1, <1>2, <1>10

-----------------------------------------------------------------------------
(* The lines of the generated text *)

OwnedLines == [owner : 1 .. Count, what : {".text", ".text at", "label", "instruction"}]

EncodeTyped ==
  /\ sources \in [1 .. Count -> Instructions]
  /\ errors \subseteq 1 .. Count /\ DOMAIN targets \subseteq 1 .. Count

LEMMA EncodeFlattens ==
  ASSUME NEW t
  PROVE  Encode!FlattenSeq(t) = FlattenSeq(t)
BY DEF Encode!FlattenSeq, FlattenSeq

LEMMA Pair ==
  ASSUME NEW M, NEW x \in M, NEW y \in M
  PROVE  <<x, y>> \in Seq(M) /\ Len(<<x, y>>) = 2 /\ <<x, y>>[1] = x /\ <<x, y>>[2] = y
OBVIOUS

LEMMA ShortConcats ==
  ASSUME NEW x, NEW y, NEW z
  PROVE  <<x>> \o <<y>> = <<x, y>> /\ <<x, y>> \o <<z>> = <<x, y, z>> /\ <<x>> \o <<>> = <<x>>
<1> DEFINE M == {x, y, z}
           one == <<x>>
           two == <<x, y>>
           three == <<x, y, z>>
           last == <<y>>
           end == <<z>>
<1>1. /\ one \in Seq(M) /\ Len(one) = 1 /\ one[1] = x
      /\ last \in Seq(M) /\ Len(last) = 1 /\ last[1] = y
      /\ end \in Seq(M) /\ Len(end) = 1 /\ end[1] = z
  OBVIOUS
<1>2. /\ two \in Seq(M) /\ Len(two) = 2 /\ two[1] = x /\ two[2] = y
      /\ three \in Seq(M) /\ Len(three) = 3 /\ three[1] = x /\ three[2] = y /\ three[3] = z
  OBVIOUS
<1>3. one \o <<>> = one
  BY <1>1, ConcatEmptySeq
<1> HIDE DEF M, one, two, three, last, end
<1>4. two = one \o last
  <2>1. \A i \in 1 .. 1 : i = 1
    OBVIOUS
  <2>2. /\ Len(two) = Len(one) + Len(last) /\ \A i \in 1 .. Len(one) : two[i] = one[i]
        /\ \A i \in 1 .. Len(last) : two[Len(one) + i] = last[i]
    BY <1>1, <1>2, <2>1
  <2> QED BY <1>1, <1>2, <2>2, IsConcat
<1>5. three = two \o end
  <2>1. (\A i \in 1 .. 1 : i = 1) /\ \A i \in 1 .. 2 : i = 1 \/ i = 2
    OBVIOUS
  <2>2. /\ Len(three) = Len(two) + Len(end) /\ \A i \in 1 .. Len(two) : three[i] = two[i]
        /\ \A i \in 1 .. Len(end) : three[Len(two) + i] = end[i]
    BY <1>1, <1>2, <2>1
  <2> QED BY <1>1, <1>2, <2>2, IsConcat
<1> QED BY <1>3, <1>4, <1>5 DEF one, two, three, last, end

\* The text has the line of each instruction that has not failed, and of no other.
LEMMA TextHolds ==
  ASSUME EncodeTyped, Encode!EncoderAssumption
  PROVE  /\ Encode!Text \in Seq(OwnedLines)
         /\ \A k \in DOMAIN Encode!Text : Encode!Text[k].what = "instruction" => Encode!Text[k].owner \notin errors
         /\ \A i \in (1 .. Count) \ errors :
              \E k \in DOMAIN Encode!Text : Encode!Text[k] = Encode!Line(i, "instruction")
<1> DEFINE first == [i \in 1 .. Count |-> Encode!LinesOf(i)]
           second == [i \in 1 .. Count |-> Encode!PlacedLines(i)]
           a == FlattenSeq(first)
           b == FlattenSeq(second)
           its(i) == Encode!Line(i, "instruction")
<1>1. Count \in Nat
  BY DEF Encode!EncoderAssumption
<1>2. ASSUME NEW i \in 1 .. Count
      PROVE  /\ Encode!LinesOf(i) \in Seq(OwnedLines)
             /\ \A j \in 1 .. Len(Encode!LinesOf(i)) :
                  Encode!LinesOf(i)[j].what = "instruction" => Encode!LinesOf(i)[j].owner \notin errors
             /\ i \notin errors => \E j \in 1 .. Len(Encode!LinesOf(i)) : Encode!LinesOf(i)[j] = its(i)
  <2> DEFINE text == Encode!Line(i, ".text")
             label == Encode!Line(i, "label")
  <2>1. text \in OwnedLines /\ label \in OwnedLines /\ its(i) \in OwnedLines /\ text.what = ".text" /\ label.what = "label"
        /\ its(i).owner = i
    BY DEF Encode!Line, OwnedLines
  <2>2. \/ i \in errors /\ Encode!LinesOf(i) = <<>>
        \/ i \notin errors /\ Encode!LinesOf(i) = <<text, label, its(i)>>
        \/ i \notin errors /\ Encode!LinesOf(i) = <<text, its(i)>>
    <3> HIDE DEF text, label, its
    <3>1. <<text>> \o <<label>> \o <<its(i)>> = <<text, label, its(i)>> /\ <<text>> \o <<>> \o <<its(i)>> = <<text, its(i)>>
      BY ShortConcats
    <3> QED BY <3>1 DEF Encode!LinesOf, text, label, its
  <2> HIDE DEF text, label, its
  <2>3. CASE Encode!LinesOf(i) = <<>> /\ i \in errors
    BY <2>3
  <2>4. CASE Encode!LinesOf(i) = <<text, label, its(i)>> /\ i \notin errors
    BY <2>1, <2>4
  <2>5. CASE Encode!LinesOf(i) = <<text, its(i)>> /\ i \notin errors
    BY <2>1, <2>5
  <2> QED BY <2>2, <2>3, <2>4, <2>5
<1>3. ASSUME NEW i \in 1 .. Count
      PROVE  /\ Encode!PlacedLines(i) \in Seq(OwnedLines)
             /\ \A j \in 1 .. Len(Encode!PlacedLines(i)) : Encode!PlacedLines(i)[j].what # "instruction"
  <2> DEFINE text == Encode!Line(i, ".text at")
             label == Encode!Line(i, "label")
  <2>1. text \in OwnedLines /\ label \in OwnedLines /\ text.what = ".text at" /\ label.what = "label"
    BY DEF Encode!Line, OwnedLines
  <2>2. Encode!PlacedLines(i) = <<text, label>> \/ Encode!PlacedLines(i) = <<>>
    BY DEF Encode!PlacedLines
  <2> HIDE DEF text, label
  <2>3. CASE Encode!PlacedLines(i) = <<text, label>>
    <3> DEFINE both == <<text, label>>
    <3>1. both \in Seq(OwnedLines) /\ Len(both) = 2 /\ both[1] = text /\ both[2] = label
      BY <2>1, Pair
    <3> HIDE DEF both
    <3>2. \A j \in 1 .. 2 : j = 1 \/ j = 2
      OBVIOUS
    <3>3. \A j \in 1 .. Len(both) : both[j].what # "instruction"
      BY <2>1, <3>1, <3>2
    <3>4. Encode!PlacedLines(i) = both
      BY <2>3 DEF both
    <3> QED BY <3>1, <3>3, <3>4
  <2>4. CASE Encode!PlacedLines(i) = <<>>
    BY <2>4
  <2> QED BY <2>2, <2>3, <2>4
<1> HIDE DEF its
<1>4. first \in Seq(Seq(OwnedLines)) /\ Len(first) = Count /\ \A i \in 1 .. Count : first[i] = Encode!LinesOf(i)
  BY <1>1, <1>2
<1>5. second \in Seq(Seq(OwnedLines)) /\ Len(second) = Count /\ \A i \in 1 .. Count : second[i] = Encode!PlacedLines(i)
  BY <1>1, <1>3
<1>6. Encode!Text = a \o b
  BY EncodeFlattens DEF Encode!Text, Encode!Indices
<1> HIDE DEF first, second
<1>7. a \in Seq(OwnedLines) /\ Within(a, first) /\ b \in Seq(OwnedLines) /\ Within(b, second)
  BY <1>4, <1>5, FlattenInSeq, FlattenWithin
<1> HIDE DEF a, b
<1>8. /\ a \o b \in Seq(OwnedLines) /\ Len(a \o b) = Len(a) + Len(b)
      /\ (\A k \in 1 .. Len(a) : (a \o b)[k] = a[k]) /\ \A k \in 1 .. Len(b) : (a \o b)[Len(a) + k] = b[k]
      /\ Len(a) \in Nat /\ Len(b) \in Nat
  BY <1>7, ConcatProperties
<1>9. \A k \in 1 .. Len(a) : a[k].what = "instruction" => a[k].owner \notin errors
  <2> SUFFICES ASSUME NEW k \in 1 .. Len(a), a[k].what = "instruction" PROVE a[k].owner \notin errors
    OBVIOUS
  <2>1. PICK i \in 1 .. Count : \E j \in 1 .. Len(first[i]) : a[k] = first[i][j]
    BY <1>4, <1>7, Zenon DEF Within
  <2>2. PICK j \in 1 .. Len(first[i]) : a[k] = first[i][j]
    BY <2>1
  <2> QED BY <1>2, <1>4, <2>2
<1>10. \A k \in 1 .. Len(b) : b[k].what # "instruction"
  <2> SUFFICES ASSUME NEW k \in 1 .. Len(b) PROVE b[k].what # "instruction"
    OBVIOUS
  <2>1. PICK i \in 1 .. Count : \E j \in 1 .. Len(second[i]) : b[k] = second[i][j]
    BY <1>5, <1>7, Zenon DEF Within
  <2>2. PICK j \in 1 .. Len(second[i]) : b[k] = second[i][j]
    BY <2>1
  <2> QED BY <1>3, <1>5, <2>2
<1>11. \A i \in (1 .. Count) \ errors : \E k \in 1 .. Len(a) : a[k] = its(i)
  <2> SUFFICES ASSUME NEW i \in 1 .. Count, i \notin errors PROVE \E k \in 1 .. Len(a) : a[k] = its(i)
    OBVIOUS
  <2>1. PICK j \in 1 .. Len(first[i]) : first[i][j] = its(i)
    BY <1>2, <1>4
  <2>2. \E k \in 1 .. Len(a) : a[k] = first[i][j]
    BY <1>4, <1>7, Zenon DEF Within
  <2> QED BY <2>1, <2>2
<1> DEFINE text == a \o b
<1> HIDE DEF text
<1>12. DOMAIN text = 1 .. Len(a) + Len(b)
  BY <1>8 DEF text
<1>13. ASSUME NEW k \in DOMAIN text, text[k].what = "instruction" PROVE text[k].owner \notin errors
  <2>1. CASE k <= Len(a)
    BY <1>8, <1>9, <1>12, <1>13, <2>1 DEF text
  <2>2. CASE k > Len(a)
    <3>1. k - Len(a) \in 1 .. Len(b) /\ Len(a) + (k - Len(a)) = k
      BY <1>8, <1>12, <2>2
    <3>2. text[k] = b[k - Len(a)]
      BY <1>8, <3>1 DEF text
    <3> QED BY <1>10, <1>13, <3>1, <3>2
  <2> QED BY <1>8, <1>12, <2>1, <2>2
<1>14. \A i \in (1 .. Count) \ errors : \E k \in DOMAIN text : text[k] = its(i)
  <2>1. 1 .. Len(a) \subseteq DOMAIN text /\ \A k \in 1 .. Len(a) : text[k] = a[k]
    BY <1>8, <1>12 DEF text
  <2> QED BY <1>11, <2>1
<1> QED BY <1>6, <1>8, <1>13, <1>14 DEF text, its

LEMMA AddressIsNatural ==
  ASSUME EncodeTyped, Encode!EncoderAssumption
  PROVE  \A i \in 1 .. Count : Encode!Address(i) \in Nat
<1> SUFFICES ASSUME NEW i \in 1 .. Count PROVE Encode!Address(i) \in Nat
  OBVIOUS
<1> DEFINE T == Others(i, errors)
<1>1. Count \in Nat /\ Instructions \subseteq [size : Nat, target : Int \cup {None},
                                               label : Labels \cup {None}, uses : Labels \cup {None}, broken : BOOLEAN]
  BY DEF Encode!EncoderAssumption, Encode!Indices
<1>2. T \subseteq 1 .. i - 1 /\ T \subseteq 1 .. Count
  BY <1>1 DEF Others
<1>3. IsFiniteSet(T)
  BY <1>1, <1>2, FS_Interval, FS_Subset
<1>4. \A x \in T : sources[x].size \in Nat
  BY <1>1, <1>2 DEF EncodeTyped
<1> HIDE DEF T
<1>5. SumOfSizes(sources, T) \in Nat
  BY <1>3, <1>4, SumIsNatural
<1> QED BY <1>5, AddressIs DEF AddressesAdd, T

-----------------------------------------------------------------------------
(* The instructions that fail *)

\* A target is placed for the program as it is, and what failed could not be encoded.
EncodeInv ==
  /\ EncodeTyped
  /\ Encode!TargetsFresh
  /\ \A i \in DOMAIN targets : Encode!Numeric(i)
  /\ \A i \in 1 .. Count : Encode!Odd(i) => i \in errors
  /\ Encode!OthersStillEncode
  /\ Encode!AllErrorsFound

\* Only a placed target is out of reach, and as far out as its instruction says.
LEMMA PlacedReach ==
  ASSUME EncodeInv, Encode!EncoderAssumption, NEW i \in 1 .. Count
  PROVE  /\ ~Encode!Reaches(i) => i \in DOMAIN targets
         /\ i \in DOMAIN targets => (Encode!Reaches(i) <=> sources[i].target \in -Reach .. Reach)
<1>1. Encode!Address(i) \in Nat /\ Reach \in Nat
  BY AddressIsNatural DEF EncodeInv, Encode!EncoderAssumption
<1>2. CASE i \notin DOMAIN targets
  <2>1. Encode!LabelOf(i) = Encode!Address(i)
    BY <1>2 DEF Encode!LabelOf
  <2>2. Encode!LabelOf(i) - Encode!Address(i) = 0 /\ 0 \in -Reach .. Reach
    BY <1>1, <2>1
  <2> QED BY <1>2, <2>2 DEF Encode!Reaches
<1>3. CASE i \in DOMAIN targets
  <2>1. sources[i].target \in Int
    <3>1. sources[i] \in Instructions /\ sources[i].target # None
      BY <1>3 DEF EncodeInv, EncodeTyped, Encode!Numeric
    <3> QED BY <3>1 DEF Encode!EncoderAssumption
  <2>2. Encode!LabelOf(i) = Encode!Address(i) + sources[i].target
    BY <1>3 DEF EncodeInv, Encode!TargetsFresh, Encode!LabelOf
  <2>3. Encode!LabelOf(i) - Encode!Address(i) = sources[i].target
    BY <1>1, <2>1, <2>2
  <2> QED BY <1>3, <2>3 DEF Encode!Reaches
<1> QED BY <1>2, <1>3

\* Those that may fail.
Suspect == Encode!Wrong \cup Encode!Repeated

LEMMA LeastHolds ==
  /\ \A these, i : i \in these /\ i \in 1 .. Count => i \in Encode!Least(these)
  /\ \A these, faulty : faulty \in SUBSET (1 .. Count) /\ these \subseteq faulty /\ Encode!Closed(faulty)
                        => Encode!Least(these) \subseteq faulty
BY DEF Encode!Least, Encode!Indices

LEMMA FailuresUnencodable ==
  ASSUME EncodeInv, Encode!EncoderAssumption, NEW k \in Encode!FailingLines
  PROVE  Encode!Owner(k) \in Encode!Least(Suspect)
<1> DEFINE i == Encode!Owner(k)
<1>1. /\ k \in DOMAIN Encode!Text /\ i = Encode!Text[k].owner /\ Encode!Text[k].what = "instruction"
      /\ \/ sources[i].broken \/ Encode!Repeats(i, Encode!Indices \ errors)
         \/ ~Encode!Defined(sources[i].uses) \/ (Encode!Numeric(i) /\ ~Encode!Reaches(i))
  BY DEF Encode!FailingLines, Encode!Fails, Encode!Owner
<1>2. i \in 1 .. Count
  <2> DEFINE all == Encode!Text
  <2>1. all \in Seq(OwnedLines) /\ k \in DOMAIN all /\ i = all[k].owner
    BY <1>1, TextHolds DEF EncodeInv
  <2> HIDE DEF all, i
  <2>2. all[k] \in OwnedLines
    BY <2>1
  <2> QED BY <2>1, <2>2 DEF OwnedLines
<1> HIDE DEF i
<1>3. CASE sources[i].broken \/ Encode!Repeats(i, Encode!Indices \ errors) \/ (Encode!Numeric(i) /\ ~Encode!Reaches(i))
  <2>1. Encode!Numeric(i) /\ ~Encode!Reaches(i) => sources[i].target \notin -Reach .. Reach
    BY <1>2, PlacedReach
  <2>2. Encode!Repeats(i, Encode!Indices \ errors) => Encode!Repeats(i, Encode!Indices)
    BY DEF Encode!Repeats
  <2>3. i \in Suspect
    BY <1>2, <1>3, <2>1, <2>2 DEF Suspect, Encode!Wrong, Encode!Repeated, Encode!Indices
  <2> QED BY <1>2, <2>3, LeastHolds DEF i
<1>4. CASE ~Encode!Defined(sources[i].uses)
  <2>1. sources[i].uses # None /\ Encode!Defining(sources[i].uses) \subseteq Encode!Least(Suspect)
    BY <1>4 DEF Encode!Defined, EncodeInv, Encode!OthersStillEncode, Suspect
  <2>2. ASSUME NEW faulty \in SUBSET (1 .. Count), Suspect \subseteq faulty, Encode!Closed(faulty) PROVE i \in faulty
    <3>1. Encode!Defining(sources[i].uses) \subseteq faulty
      BY <2>1, <2>2, LeastHolds
    <3> QED BY <1>2, <2>1, <2>2, <3>1 DEF Encode!Closed, Encode!Indices
  <2> QED BY <1>2, <2>2 DEF Encode!Least, Encode!Indices, i
<1> QED BY <1>1, <1>3, <1>4

\* Once nothing fails and nothing is left to be placed, no instruction that cannot be encoded is left.
LEMMA ErrorsAreAll ==
  ASSUME EncodeInv, Encode!EncoderAssumption, Encode!FailingLines = {}, \A i \in Encode!Indices : ~Encode!ToPlace(i)
  PROVE  Encode!Least(Encode!Wrong) \subseteq errors /\ \A i \in Encode!Indices \ errors : ~Encode!Repeats(i, Encode!Indices \ errors)
<1>1. \A i \in (1 .. Count) \ errors : Encode!Numeric(i) => i \in DOMAIN targets
  BY DEF Encode!ToPlace, Encode!Indices
<1>2. ASSUME NEW i \in (1 .. Count) \ errors
      PROVE  /\ ~sources[i].broken /\ ~Encode!Repeats(i, Encode!Indices \ errors)
             /\ Encode!Defined(sources[i].uses) /\ (Encode!Numeric(i) => Encode!Reaches(i))
  <2>1. PICK k \in DOMAIN Encode!Text : Encode!Text[k] = Encode!Line(i, "instruction")
    BY <1>2, TextHolds DEF EncodeInv
  <2>2. Encode!Text[k].owner = i /\ Encode!Text[k].what = "instruction"
    BY <2>1 DEF Encode!Line
  <2> QED BY <2>2 DEF Encode!FailingLines, Encode!Fails
<1>3. ASSUME NEW i \in Encode!Wrong PROVE i \in errors
  <2>1. i \in 1 .. Count
    BY DEF Encode!Wrong, Encode!Indices
  <2>2. Encode!Odd(i) => i \in errors
    BY <2>1 DEF EncodeInv
  <2>3. i \notin errors /\ Encode!Numeric(i) => sources[i].target \in -Reach .. Reach
    BY <1>1, <1>2, <2>1, PlacedReach
  <2> QED BY <1>2, <2>1, <2>2, <2>3 DEF Encode!Wrong
<1>4. Encode!Closed(errors)
  BY <1>2 DEF Encode!Closed, Encode!Defined, Encode!Indices
<1>5. errors \in SUBSET (1 .. Count)
  BY DEF EncodeInv, EncodeTyped
<1> QED BY <1>2, <1>3, <1>4, <1>5, LeastHolds DEF Encode!Indices

LEMMA UnencodableStays ==
  ASSUME UNCHANGED sources
  PROVE  /\ Encode!Least(Encode!Wrong)' = Encode!Least(Encode!Wrong)
         /\ Encode!Least(Encode!Wrong \cup Encode!Repeated)' = Encode!Least(Encode!Wrong \cup Encode!Repeated)
BY DEF Encode!Least, Encode!Closed, Encode!Defining, Encode!Wrong, Encode!Repeated, Encode!Repeats, Encode!Odd, Encode!Numeric

LEMMA AllErrorsStay ==
  ASSUME UNCHANGED <<sources, errors>>, Encode!AllErrorsFound, result' = result
  PROVE  Encode!AllErrorsFound'
BY UnencodableStays DEF Encode!AllErrorsFound, Encode!Repeats

LEMMA EncodeStarts ==
  ASSUME Encode!Init, Encode!EncoderAssumption
  PROVE  EncodeInv
<1>1. EncodeTyped /\ DOMAIN targets = {}
  BY DEF EncodeTyped, Encode!Init, Encode!Indices, Encode!Empty
<1>2. \A i \in 1 .. Count : Encode!Odd(i) => i \in errors
  BY DEF Encode!Init, Encode!Indices
<1>3. Encode!OthersStillEncode
  <2>1. \A i \in errors : i \in 1 .. Count /\ i \in Encode!Wrong
    BY DEF Encode!Init, Encode!Wrong, Encode!Indices
  <2> QED BY <2>1, LeastHolds DEF Encode!OthersStillEncode
<1> QED BY <1>1, <1>2, <1>3 DEF EncodeInv, Encode!Init, Encode!TargetsFresh, Encode!AllErrorsFound

LEMMA AttemptKeeps ==
  ASSUME EncodeInv, Encode!EncoderAssumption, Encode!AttemptFails
  PROVE  EncodeInv'
<1>1. PICK reported \in SUBSET Encode!FailingLines : errors' = errors \cup {Encode!Owner(k) : k \in reported}
  BY DEF Encode!AttemptFails
<1>2. targets' = Encode!Empty /\ sources' = sources /\ result = None /\ result' = None
  BY DEF Encode!AttemptFails, Encode!TargetsAfterErrors
<1>3. DOMAIN targets' = {}
  BY <1>2 DEF Encode!Empty
<1>4. errors' \subseteq Encode!Least(Suspect)
  BY <1>1, FailuresUnencodable DEF EncodeInv, Encode!OthersStillEncode, Suspect
<1>5. EncodeTyped'
  BY <1>2, <1>3, <1>4 DEF EncodeInv, EncodeTyped, Encode!Least, Encode!Indices
<1>6. Encode!TargetsFresh' /\ Encode!AllErrorsFound' /\ (\A i \in DOMAIN targets : Encode!Numeric(i))'
  BY <1>2, <1>3 DEF Encode!TargetsFresh, Encode!AllErrorsFound
<1>7. Encode!OthersStillEncode'
  BY <1>2, <1>4, UnencodableStays DEF Encode!OthersStillEncode, Suspect
<1>8. (\A i \in 1 .. Count : Encode!Odd(i) => i \in errors)'
  BY <1>1, <1>2 DEF EncodeInv, Encode!Odd, Encode!Numeric
<1> QED BY <1>5, <1>6, <1>7, <1>8 DEF EncodeInv

LEMMA PlacingKeeps ==
  ASSUME EncodeInv, Encode!EncoderAssumption, Encode!PlaceTargets
  PROVE  EncodeInv'
<1> DEFINE placed == {j \in 1 .. Count : Encode!ToPlace(j)}
<1>1. /\ sources' = sources /\ errors' = errors /\ result = None /\ result' = None
      /\ targets' = [i \in DOMAIN targets \cup placed |->
                       IF Encode!ToPlace(i) THEN Encode!Address(i) + sources[i].target ELSE targets[i]]
  BY DEF Encode!PlaceTargets, Encode!Indices
<1>2. \A i : Encode!Address(i)' = Encode!Address(i)
  BY <1>1, AddressStays
<1>3. DOMAIN targets' = DOMAIN targets \cup placed
  BY <1>1
<1>4. EncodeTyped'
  BY <1>1, <1>3 DEF EncodeInv, EncodeTyped
<1>5. \A i \in DOMAIN targets' : targets'[i] = Encode!Address(i) + sources[i].target
  <2>1. \A i \in DOMAIN targets : targets[i] = Encode!Address(i) + sources[i].target
    BY DEF EncodeInv, Encode!TargetsFresh
  <2>2. \A i \in placed : Encode!ToPlace(i)
    OBVIOUS
  <2> HIDE DEF placed
  <2> QED BY <1>1, <2>1, <2>2
<1>6. \A i \in DOMAIN targets' : Encode!Numeric(i)
  BY <1>3 DEF EncodeInv, Encode!ToPlace
<1> HIDE DEF placed
<1>7. Encode!TargetsFresh'
  BY <1>1, <1>2, <1>5 DEF Encode!TargetsFresh
<1>8. (\A i \in DOMAIN targets : Encode!Numeric(i))'
  BY <1>1, <1>6 DEF Encode!Numeric
<1>9. Encode!OthersStillEncode' /\ Encode!AllErrorsFound'
  BY <1>1, UnencodableStays, AllErrorsStay DEF EncodeInv, Encode!OthersStillEncode
<1>10. (\A i \in 1 .. Count : Encode!Odd(i) => i \in errors)'
  BY <1>1 DEF EncodeInv, Encode!Odd, Encode!Numeric
<1> QED BY <1>4, <1>7, <1>8, <1>9, <1>10 DEF EncodeInv

LEMMA ResultsKeep ==
  ASSUME EncodeInv, Encode!EncoderAssumption, Encode!Results
  PROVE  EncodeInv'
<1>1. sources' = sources /\ errors' = errors /\ targets' = targets
  BY DEF Encode!Results
<1>2. \A i : Encode!Address(i)' = Encode!Address(i)
  BY <1>1, AddressStays
<1>3. Encode!FailingLines = {} /\ \A i \in Encode!Indices : ~Encode!ToPlace(i)
  BY DEF Encode!Results
<1>4. Encode!AllErrorsFound'
  BY <1>1, <1>3, ErrorsAreAll, UnencodableStays DEF Encode!AllErrorsFound, Encode!Repeats
<1>5. Encode!OthersStillEncode'
  BY <1>1, UnencodableStays DEF EncodeInv, Encode!OthersStillEncode
<1>6. Encode!TargetsFresh'
  BY <1>1, <1>2, <1>3 DEF EncodeInv, Encode!TargetsFresh, Encode!ToPlace, Encode!Numeric, Encode!Indices
<1>7. (\A i \in DOMAIN targets : Encode!Numeric(i))' /\ (\A i \in 1 .. Count : Encode!Odd(i) => i \in errors)'
  BY <1>1 DEF EncodeInv, Encode!Odd, Encode!Numeric
<1>8. EncodeTyped'
  BY <1>1 DEF EncodeInv, EncodeTyped
<1> QED BY <1>4, <1>5, <1>6, <1>7, <1>8 DEF EncodeInv

LEMMA RestKeepsEncode ==
  ASSUME EncodeInv, UNCHANGED <<encodeVars, errors>>
  PROVE  EncodeInv'
<1>1. sources' = sources /\ errors' = errors /\ targets' = targets /\ result' = result
  BY DEF encodeVars
<1>2. \A i : Encode!Address(i)' = Encode!Address(i)
  BY <1>1, AddressStays
<1>3. Encode!AllErrorsFound' /\ Encode!OthersStillEncode'
  BY <1>1, UnencodableStays, AllErrorsStay DEF EncodeInv, Encode!OthersStillEncode
<1>4. Encode!TargetsFresh'
  BY <1>1, <1>2 DEF EncodeInv, Encode!TargetsFresh, Encode!Numeric
<1>5. (\A i \in DOMAIN targets : Encode!Numeric(i))' /\ (\A i \in 1 .. Count : Encode!Odd(i) => i \in errors)'
  BY <1>1 DEF EncodeInv, Encode!Odd, Encode!Numeric
<1>6. EncodeTyped'
  BY <1>1 DEF EncodeInv, EncodeTyped
<1> QED BY <1>3, <1>4, <1>5, <1>6 DEF EncodeInv

(***************************************************************************)
(* In whatever order the assembler reports errors, those instructions fail *)
(* that are wrong in themselves or use a label only such ones define, no   *)
(* other but one that defines a label again, and each numeric target is    *)
(* where it was asked for in the program that is assembled now             *)
(* (sim/InstructionEncoder.java, encode).                                  *)
(***************************************************************************)
THEOREM EncodesWhatCanBe == PartsSpec => []InstructionsRight
<1> DEFINE I == part = "encode" => EncodeInv
<1> USE PartsAssumption
<1>1. PartsInit => I
  BY EncodeStarts DEF PartsInit
<1>2. I /\ [PartsNext]_partsVars => I'
  <2> SUFFICES ASSUME I, [PartsNext]_partsVars, part' = "encode" PROVE EncodeInv'
    OBVIOUS
  <2>1. part = "encode" /\ EncodeInv
    BY StepOfTheEncoder
  <2>2. Encode!Next \/ UNCHANGED <<encodeVars, errors>>
    BY <2>1, StepOfTheEncoder
  <2>3. CASE Encode!AttemptFails
    BY <2>1, <2>3, AttemptKeeps
  <2>4. CASE Encode!PlaceTargets
    BY <2>1, <2>4, PlacingKeeps
  <2>5. CASE Encode!Results
    BY <2>1, <2>5, ResultsKeep
  <2>6. CASE UNCHANGED <<encodeVars, errors>>
    BY <2>1, <2>6, RestKeepsEncode
  <2> QED BY <2>2, <2>3, <2>4, <2>5, <2>6 DEF Encode!Next
<1>3. I => InstructionsRight
  BY DEF EncodeInv, InstructionsRight
<1> QED BY <1>1, <1>2, <1>3, PTL DEF PartsSpec

-----------------------------------------------------------------------------
(* The fields of a word (InstructionDecoder) *)

\* A number read from the bits low to high of w, the lowest last.
FromIs(f, w, low, high) ==
  f = [b \in low .. high + 1 |-> IF b > high THEN 0 ELSE (IF b \in w THEN 1 ELSE 0) + 2 * f[b + 1]]

LEMMA FromExists ==
  ASSUME NEW w, NEW low \in Nat, NEW high \in Nat, low <= high + 1
  PROVE  \E f : FromIs(f, w, low, high)
<1> DEFINE S == Nat
           zero == 0
           step == [p \in Nat \X Nat |-> (IF high + 1 - p[2] \in w THEN 1 ELSE 0) + 2 * p[1]]
<1>1. \A m, n \in Nat : step[<<m, n>>] = (IF high + 1 - n \in w THEN 1 ELSE 0) + 2 * m
  OBVIOUS
<1> HIDE DEF step
<1>2. StaysIn(S, step) /\ zero \in S
  BY <1>1 DEF StaysIn
<1> HIDE DEF S, zero
<1>3. PICK g : UnfoldsAll(g, S, zero, step)
  BY <1>2, NatRecursionExists
<1>4. g \in [Nat -> Nat] /\ g[0] = 0 /\ \A n \in Nat : g[n + 1] = step[<<g[n], n + 1>>]
  BY <1>3 DEF UnfoldsAll, S, zero
<1>5. \A n \in Nat : g[n + 1] = (IF high - n \in w THEN 1 ELSE 0) + 2 * g[n]
  <2> SUFFICES ASSUME NEW n \in Nat PROVE g[n + 1] = (IF high - n \in w THEN 1 ELSE 0) + 2 * g[n]
    OBVIOUS
  <2>1. g[n] \in Nat /\ n + 1 \in Nat /\ high + 1 - (n + 1) = high - n
    BY <1>4
  <2> QED BY <1>1, <1>4, <2>1
<1> DEFINE f == [b \in low .. high + 1 |-> g[high + 1 - b]]
<1>6. ASSUME NEW b \in low .. high + 1
      PROVE  f[b] = IF b > high THEN 0 ELSE (IF b \in w THEN 1 ELSE 0) + 2 * f[b + 1]
  <2>1. CASE b > high
    BY <1>4, <2>1
  <2>2. CASE b <= high
    <3>1. high - b \in Nat /\ high + 1 - b = (high - b) + 1 /\ high - (high - b) = b /\ b + 1 \in low .. high + 1
          /\ high + 1 - (b + 1) = high - b
      BY <2>2
    <3>2. g[(high - b) + 1] = (IF b \in w THEN 1 ELSE 0) + 2 * g[high - b]
      BY <1>5, <3>1
    <3> QED BY <2>2, <3>1, <3>2
  <2> QED BY <2>1, <2>2
<1>7. f = [b \in low .. high + 1 |-> IF b > high THEN 0 ELSE (IF b \in w THEN 1 ELSE 0) + 2 * f[b + 1]]
  BY <1>6, Zenon
<1> QED BY <1>7 DEF FromIs

LEMMA FromBits ==
  ASSUME NEW two, ArePowers(two, 2), NEW w, NEW low \in Nat, NEW high \in Nat, low <= high + 1,
         NEW f, FromIs(f, w, low, high)
  PROVE  /\ f[low] \in 0 .. two[high + 1 - low] - 1
         /\ \A j \in 0 .. high - low : IsBit(two, f[low], j) <=> low + j \in w
<1> DEFINE size == high + 1 - low
<1>1. size \in Nat /\ f[high + 1] = 0
  BY DEF FromIs
<1>2. \A b \in low .. high : f[b] = (IF b \in w THEN 1 ELSE 0) + 2 * f[b + 1]
  BY DEF FromIs
<1>3. \A b \in low .. high + 1 : f[b] \in Nat
  <2> DEFINE T == {n \in Nat : n <= size => f[high + 1 - n] \in Nat}
  <2>1. 0 \in T
    BY <1>1
  <2>2. ASSUME NEW n \in Nat, n \in T PROVE n + 1 \in T
    <3> SUFFICES ASSUME n + 1 <= size PROVE f[high + 1 - (n + 1)] \in Nat
      OBVIOUS
    <3>1. high - n \in low .. high /\ high + 1 - (n + 1) = high - n /\ (high - n) + 1 = high + 1 - n
      OBVIOUS
    <3>2. f[high + 1 - n] \in Nat
      BY <2>2
    <3>3. f[high - n] = (IF high - n \in w THEN 1 ELSE 0) + 2 * f[high + 1 - n]
      BY <1>2, <3>1
    <3> QED BY <3>1, <3>2, <3>3
  <2> HIDE DEF T
  <2>3. \A n \in Nat : n \in T
    BY <2>1, <2>2, SetInduction
  <2> SUFFICES ASSUME NEW b \in low .. high + 1 PROVE f[b] \in Nat
    OBVIOUS
  <2>4. high + 1 - b \in Nat /\ high + 1 - b <= size /\ high + 1 - (high + 1 - b) = b
    OBVIOUS
  <2> QED BY <2>3, <2>4 DEF T
<1>4. ASSUME NEW b \in low .. high
      PROVE  f[b] \div 2 = f[b + 1] /\ (f[b] % 2 = 1 <=> b \in w)
  <2>1. f[b] = (IF b \in w THEN 1 ELSE 0) + 2 * f[b + 1] /\ f[b + 1] \in Nat
    BY <1>2, <1>3
  <2> QED BY <2>1
<1>5. \A n \in Nat : two[n] \in Nat \ {0} /\ two[n + 1] = two[n] * 2
  <2>1. \A n \in Nat : two[n] \in Nat \ {0} /\ two[n + 1] = 2 * two[n]
    BY TwosAre
  <2> QED BY <2>1
<1>6. \A j \in 0 .. size : f[low] \div two[j] = f[low + j]
  <2> DEFINE T == {j \in Nat : j <= size => f[low] \div two[j] = f[low + j]}
  <2>1. 0 \in T
    <3>1. f[low] \in Nat /\ two[0] = 1
      BY <1>3, TwosAre
    <3> QED BY <3>1
  <2>2. ASSUME NEW j \in Nat, j \in T PROVE j + 1 \in T
    <3> SUFFICES ASSUME j + 1 <= size PROVE f[low] \div two[j + 1] = f[low + (j + 1)]
      OBVIOUS
    <3>1. low + j \in low .. high /\ low + (j + 1) = (low + j) + 1 /\ f[low] \in Int /\ 2 \in Nat \ {0}
      BY <1>3
    <3>2. f[low] \div two[j] = f[low + j]
      BY <2>2
    <3>3. f[low] \div (two[j] * 2) = (f[low] \div two[j]) \div 2
      BY <1>5, <3>1, DivideTwice
    <3> QED BY <1>4, <1>5, <3>1, <3>2, <3>3
  <2> HIDE DEF T
  <2>3. \A j \in Nat : j \in T
    BY <2>1, <2>2, SetInduction
  <2> QED BY <2>3 DEF T
<1>7. f[low] < two[size]
  <2> DEFINE t == two[size]
  <2>1. f[low] \div t = 0 /\ f[low] \in Int /\ t \in Nat \ {0}
    <3>1. low + size = high + 1 /\ size \in 0 .. size
      BY <1>1
    <3> QED BY <1>1, <1>3, <1>5, <1>6, <3>1
  <2> HIDE DEF t
  <2> DEFINE n == f[low]
  <2>2. n \div t = 0 /\ n \in Int
    BY <2>1
  <2> HIDE DEF n
  <2>3. n = t * (n \div t) + (n % t) /\ (n % t) \in 0 .. t - 1
    BY <2>1, <2>2, Division
  <2>4. n = n % t
    BY <2>1, <2>2, <2>3
  <2> QED BY <2>1, <2>3, <2>4 DEF t, n
<1>8. ASSUME NEW j \in 0 .. high - low PROVE IsBit(two, f[low], j) <=> low + j \in w
  <2>1. j \in 0 .. size /\ low + j \in low .. high
    OBVIOUS
  <2> QED BY <1>4, <1>6, <2>1 DEF IsBit
<1>9. f[low] \in Nat /\ two[size] \in Nat
  BY <1>1, <1>3, <1>5
<1> QED BY <1>7, <1>8, <1>9

Two(n) == Decode!Two[n]
Bit(n, b) == IsBit(Decode!Two, n, b)

LEMMA TwosOfDecoder == ArePowers(Decode!Two, 2)
<1>1. \E f : ArePowers(f, 2)
  <2> DEFINE base == 2
  <2>1. base \in Nat
    OBVIOUS
  <2> HIDE DEF base
  <2>2. \E f : ArePowers(f, base)
    BY <2>1, PowersExist
  <2> QED BY <2>2 DEF base
<1> QED BY <1>1 DEF ArePowers, Decode!Two

\* What a field read from the word holds.
LEMMA BitsAre ==
  ASSUME NEW low \in Nat, NEW high \in Nat, low <= high
  PROVE  /\ Decode!Bits(high, low) \in 0 .. Two(high + 1 - low) - 1
         /\ \A b \in Nat : Bit(Decode!Bits(high, low), b) <=> b <= high - low /\ low + b \in word
<1> DEFINE f == CHOOSE f : f = [b \in low .. high + 1 |-> IF b > high THEN 0 ELSE (IF b \in word THEN 1 ELSE 0) + 2 * f[b + 1]]
           n == Decode!Bits(high, low)
           two == Decode!Two
<1>1. n = f[low]
  BY DEF Decode!Bits
<1>2. FromIs(f, word, low, high)
  <2>1. \E g : FromIs(g, word, low, high)
    <3>1. low <= high + 1
      OBVIOUS
    <3> QED BY <3>1, FromExists
  <2> QED BY <2>1 DEF FromIs
<1> HIDE DEF f, n, two
<1>3. ArePowers(two, 2)
  BY TwosOfDecoder DEF two
<1>4. n \in 0 .. two[high + 1 - low] - 1 /\ \A j \in 0 .. high - low : IsBit(two, n, j) <=> low + j \in word
  <2>1. low <= high + 1
    OBVIOUS
  <2>2. /\ f[low] \in 0 .. two[high + 1 - low] - 1
        /\ \A j \in 0 .. high - low : IsBit(two, f[low], j) <=> low + j \in word
    BY <1>2, <1>3, <2>1, FromBits
  <2> QED BY <1>1, <2>2
<1>5. ASSUME NEW b \in Nat, b > high - low PROVE ~IsBit(two, n, b)
  <2> DEFINE k == high + 1 - low
  <2>1. k \in Nat /\ b >= k /\ two[k] \in Nat /\ n \in -two[k] .. two[k] - 1 /\ ~(n < 0)
    <3>1. k \in Nat /\ b >= k
      BY <1>5
    <3>2. two[k] \in Nat
      BY <1>3, <3>1, TwosAre
    <3> QED BY <1>4, <3>1, <3>2
  <2> HIDE DEF k
  <2> QED BY <1>3, <2>1, NoBitsAbove
<1> QED BY <1>4, <1>5 DEF two, n, Bit, Two

LEMMA TwosKnown ==
  /\ Two(0) = 1 /\ Two(1) = 2 /\ Two(2) = 4 /\ Two(3) = 8 /\ Two(4) = 16 /\ Two(5) = 32 /\ Two(6) = 64 /\ Two(7) = 128
  /\ Two(8) = 256 /\ Two(9) = 512 /\ Two(10) = 1024 /\ Two(11) = 2048 /\ Two(12) = 4096 /\ Two(20) = 256 * Two(12)
<1>1. Two(0) = 1 /\ \A n \in Nat : Two(n + 1) = 2 * Two(n)
  BY TwosOfDecoder, TwosAre DEF Two
<1> HIDE DEF Two
<1>2. /\ Two(0) = 1 /\ Two(1) = 2 /\ Two(2) = 4 /\ Two(3) = 8 /\ Two(4) = 16 /\ Two(5) = 32 /\ Two(6) = 64 /\ Two(7) = 128
  <2>1. Two(0 + 1) = 2 * Two(0) /\ Two(1 + 1) = 2 * Two(1) /\ Two(2 + 1) = 2 * Two(2) /\ Two(3 + 1) = 2 * Two(3)
        /\ Two(4 + 1) = 2 * Two(4) /\ Two(5 + 1) = 2 * Two(5) /\ Two(6 + 1) = 2 * Two(6)
    BY <1>1
  <2> QED BY <1>1, <2>1
<1>3. Two(8) = 256 /\ Two(9) = 512 /\ Two(10) = 1024 /\ Two(11) = 2048 /\ Two(12) = 4096
  <2>1. Two(7 + 1) = 2 * Two(7) /\ Two(8 + 1) = 2 * Two(8) /\ Two(9 + 1) = 2 * Two(9) /\ Two(10 + 1) = 2 * Two(10)
        /\ Two(11 + 1) = 2 * Two(11)
    BY <1>1
  <2> QED BY <1>2, <2>1
<1>4. Two(20) = 256 * Two(12)
  <2>1. Two(16) = 16 * Two(12)
    <3>1. Two(12 + 1) = 2 * Two(12) /\ Two(13 + 1) = 2 * Two(13) /\ Two(14 + 1) = 2 * Two(14) /\ Two(15 + 1) = 2 * Two(15)
      BY <1>1
    <3> QED BY <1>3, <3>1, SMT
  <2>2. Two(20) = 16 * Two(16)
    <3>1. Two(16 + 1) = 2 * Two(16) /\ Two(17 + 1) = 2 * Two(17) /\ Two(18 + 1) = 2 * Two(18) /\ Two(19 + 1) = 2 * Two(19)
      BY <1>1
    <3> QED BY <1>3, <2>1, <3>1, SMT
  <2> QED BY <1>3, <2>1, <2>2, SMT
<1> QED BY <1>2, <1>3, <1>4

\* word >> low: what the bits hold, and the sign in all above.
LEMMA SignedAre ==
  ASSUME NEW low \in 1 .. 31
  PROVE  /\ Decode!SignedFrom(low) \in Int
         /\ Decode!SignedFrom(low) < 0 <=> 31 \in word
         /\ \A b \in Nat : Bit(Decode!SignedFrom(low), b) <=> IF b <= 31 - low THEN low + b \in word ELSE 31 \in word
<1> DEFINE n == Decode!Bits(31, low)
           K == 32 - low
           x == IF 31 \in word THEN -1 ELSE 0
           two == Decode!Two
           zero == 0
<1>1. n \in 0 .. Two(K) - 1 /\ \A b \in Nat : Bit(n, b) <=> b <= 31 - low /\ low + b \in word
  <2>1. low \in Nat /\ 31 \in Nat /\ low <= 31 /\ 31 + 1 - low = K
    OBVIOUS
  <2> QED BY <2>1, BitsAre
<1>2. K \in Nat /\ x \in Int /\ zero \in Nat /\ Two(K) \in Nat
  <2>1. K \in Nat /\ x \in Int
    OBVIOUS
  <2>2. \A m \in Nat : Two(m) \in Nat
    BY TwosOfDecoder, TwosAre DEF Two
  <2> HIDE DEF Two
  <2> QED BY <2>1, <2>2
<1>3. Decode!SignedFrom(low) = x * Two(K) + n
  <2>1. Decode!SignedFrom(low) = n - (IF 31 \in word THEN Two(K) ELSE 0)
    BY DEF Decode!SignedFrom, Two
  <2> HIDE DEF n, K
  <2>2. n \in Int
    BY <1>1, <1>2
  <2> QED BY <1>2, <2>1, <2>2
<1> DEFINE v == x * Two(K) + n
<1>4. v \in Int /\ (v < 0 <=> 31 \in word)
  <2> HIDE DEF n, K
  <2>1. n \in Int
    BY <1>1, <1>2
  <2> QED BY <1>1, <1>2, <2>1
<1>5. ArePowers(two, 2) /\ two[K] = Two(K) /\ two[zero] = 1
  BY TwosOfDecoder, TwosAre DEF Two
<1> HIDE DEF two
<1>6. ASSUME NEW c \in Nat PROVE IsBit(two, x, c) <=> 31 \in word
  <2>1. x \in -two[zero] .. two[zero] - 1 /\ c >= zero /\ (x < 0 <=> 31 \in word)
    BY <1>5
  <2> HIDE DEF x, zero
  <2> QED BY <1>2, <1>5, <2>1, NoBitsAbove
<1>7. ASSUME NEW b \in Nat
      PROVE  IsBit(two, v, b) <=> IF b < K THEN IsBit(two, n, b) ELSE IsBit(two, x, b - K)
  <2>1. n \in 0 .. two[K] - 1 /\ v = x * two[K] + n
    BY <1>1, <1>5
  <2> HIDE DEF n, K, x, v
  <2> QED BY <1>2, <1>5, <2>1, JoinedBits
<1> HIDE DEF n, x, v
<1>8. ASSUME NEW b \in Nat PROVE Bit(v, b) <=> IF b <= 31 - low THEN low + b \in word ELSE 31 \in word
  <2>1. CASE b <= 31 - low
    <3>1. b < K
      BY <2>1
    <3> QED BY <1>1, <1>7, <2>1, <3>1 DEF Bit, two
  <2>2. CASE ~(b <= 31 - low)
    <3>1. ~(b < K) /\ b - K \in Nat
      BY <2>2
    <3>2. IsBit(two, x, b - K) <=> 31 \in word
      BY <1>6, <3>1
    <3> QED BY <1>7, <2>2, <3>1, <3>2 DEF Bit, two
  <2> QED BY <2>1, <2>2
<1> QED BY <1>3, <1>4, <1>8 DEF v

\* Two parts of an immediate side by side.
LEMMA JoinedFields ==
  ASSUME NEW x \in Int, NEW k \in Nat, NEW y \in 0 .. Two(k) - 1
  PROVE  /\ x * Two(k) + y \in Int
         /\ x * Two(k) + y < 0 <=> x < 0
         /\ \A b \in Nat : Bit(x * Two(k) + y, b) <=> IF b < k THEN Bit(y, b) ELSE Bit(x, b - k)
<1> DEFINE t == Two(k)
           two == Decode!Two
<1>1. t \in Nat \ {0} /\ t = two[k] /\ ArePowers(two, 2)
  BY TwosOfDecoder, TwosAre DEF Two
<1> HIDE DEF t
<1>2. \A a \in Int, c \in Nat \ {0} : a * c \in Int /\ (a >= 0 => a * c >= 0) /\ (a < 0 => a * c <= -c)
  OBVIOUS
<1>3. x * t \in Int /\ (x >= 0 => x * t >= 0) /\ (x < 0 => x * t <= -t)
  BY <1>1, <1>2
<1>4. x * t + y \in Int /\ (x * t + y < 0 <=> x < 0)
  BY <1>1, <1>3 DEF t
<1> HIDE DEF two
<1>5. \A b \in Nat : IsBit(two, x * t + y, b) <=> IF b < k THEN IsBit(two, y, b) ELSE IsBit(two, x, b - k)
  <2>1. y \in 0 .. two[k] - 1
    BY <1>1 DEF t
  <2> QED BY <1>1, <2>1, JoinedBits
<1> QED BY <1>4, <1>5 DEF t, Bit, two

LEMMA NoBitsOfZero == \A b \in Nat : ~Bit(0, b)
<1> SUFFICES ASSUME NEW b \in Nat PROVE ~Bit(0, b)
  OBVIOUS
<1> DEFINE two == Decode!Two
           zero == 0
<1>1. ArePowers(two, 2) /\ two[zero] = 1
  BY TwosOfDecoder, TwosAre
<1> HIDE DEF two
<1>2. zero \in Nat /\ zero \in -two[zero] .. two[zero] - 1 /\ b >= zero /\ ~(zero < 0)
  BY <1>1
<1> HIDE DEF zero
<1>3. ~IsBit(two, zero, b)
  BY <1>1, <1>2, NoBitsAbove
<1> QED BY <1>3 DEF zero, two, Bit

LEMMA StoreBits ==
  /\ Decode!StoreOffset \in Int /\ (Decode!StoreOffset < 0 <=> 31 \in word)
  /\ \A b \in Nat : Bit(Decode!StoreOffset, b) <=>
       (b < 5 /\ 7 + b \in word) \/ (b \in 5 .. 11 /\ 20 + b \in word) \/ (b > 11 /\ 31 \in word)
<1> DEFINE s == Decode!SignedFrom(25)
           r == Decode!Bits(11, 7)
           v == s * Two(5) + r
<1>1. s \in Int /\ (s < 0 <=> 31 \in word) /\ \A b \in Nat : Bit(s, b) <=> IF b <= 6 THEN 25 + b \in word ELSE 31 \in word
  BY SignedAre
<1>2. r \in 0 .. Two(5) - 1 /\ \A b \in Nat : Bit(r, b) <=> b <= 4 /\ 7 + b \in word
  BY BitsAre
<1>3. Decode!StoreOffset = v
  BY DEF Decode!StoreOffset, Two
<1> HIDE DEF s, r
<1>4. v \in Int /\ (v < 0 <=> s < 0) /\ \A b \in Nat : Bit(v, b) <=> IF b < 5 THEN Bit(r, b) ELSE Bit(s, b - 5)
  BY <1>1, <1>2, JoinedFields
<1> HIDE DEF v
<1>5. ASSUME NEW b \in Nat
      PROVE  Bit(v, b) <=> (b < 5 /\ 7 + b \in word) \/ (b \in 5 .. 11 /\ 20 + b \in word) \/ (b > 11 /\ 31 \in word)
  <2>1. CASE b < 5
    BY <1>2, <1>4, <2>1
  <2>2. CASE b >= 5
    <3>1. b - 5 \in Nat /\ 25 + (b - 5) = 20 + b
      BY <2>2
    <3>2. Bit(v, b) <=> IF b - 5 <= 6 THEN 20 + b \in word ELSE 31 \in word
      BY <1>1, <1>4, <2>2, <3>1
    <3> QED BY <2>2, <3>2
  <2> QED BY <2>1, <2>2
<1> QED BY <1>1, <1>3, <1>4, <1>5

LEMMA BranchBits ==
  /\ Decode!BranchOffset \in Int /\ (Decode!BranchOffset < 0 <=> 31 \in word)
  /\ \A b \in Nat : Bit(Decode!BranchOffset, b) <=>
       \/ b \in 1 .. 4 /\ 7 + b \in word
       \/ b \in 5 .. 10 /\ 20 + b \in word
       \/ b = 11 /\ 7 \in word
       \/ b > 11 /\ 31 \in word
<1> DEFINE s == Decode!SignedFrom(31)
           h == Decode!Bits(7, 7)
           m == Decode!Bits(30, 25)
           l == Decode!Bits(11, 8)
           u == l * Two(1) + 0
           w == m * Two(5) + u
           x == h * Two(11) + w
           v == s * Two(12) + x
<1>1. s \in Int /\ (s < 0 <=> 31 \in word) /\ \A b \in Nat : Bit(s, b) <=> 31 \in word
  <2>1. \A b \in Nat : b <= 31 - 31 => 31 + b = 31
    OBVIOUS
  <2> QED BY <2>1, SignedAre
<1>2. h \in 0 .. Two(1) - 1 /\ \A b \in Nat : Bit(h, b) <=> b <= 0 /\ 7 + b \in word
  BY BitsAre
<1>3. m \in 0 .. Two(6) - 1 /\ \A b \in Nat : Bit(m, b) <=> b <= 5 /\ 25 + b \in word
  BY BitsAre
<1>4. l \in 0 .. Two(4) - 1 /\ \A b \in Nat : Bit(l, b) <=> b <= 3 /\ 8 + b \in word
  BY BitsAre
<1>5. Decode!BranchOffset = ((s * Two(12) + h * Two(11)) + m * Two(5)) + l * Two(1)
  BY DEF Decode!BranchOffset, Two
<1> HIDE DEF s, h, m, l
<1>6. h \in 0 .. 1 /\ m \in 0 .. 63 /\ l \in 0 .. 15
  BY <1>2, <1>3, <1>4, TwosKnown, SMT
<1>7. /\ l \in Int /\ m \in Int /\ h \in Int /\ 0 \in 0 .. Two(1) - 1 /\ u \in 0 .. Two(5) - 1
      /\ w \in 0 .. Two(11) - 1 /\ x \in 0 .. Two(12) - 1
  <2>1. u = l * 2 /\ w = m * 32 + u /\ x = h * 2048 + w
    BY <1>6, TwosKnown, SMT
  <2> HIDE DEF u, w, x, Two
  <2> QED BY <1>6, <2>1, TwosKnown, SMT
<1>8. Decode!BranchOffset = v
  BY <1>1, <1>5, <1>6, TwosKnown, SMT
<1>9. \A b \in Nat : Bit(u, b) <=> IF b < 1 THEN Bit(0, b) ELSE Bit(l, b - 1)
  BY <1>7, JoinedFields
<1> HIDE DEF u
<1>10. \A b \in Nat : Bit(w, b) <=> IF b < 5 THEN Bit(u, b) ELSE Bit(m, b - 5)
  BY <1>7, JoinedFields
<1> HIDE DEF w
<1>11. \A b \in Nat : Bit(x, b) <=> IF b < 11 THEN Bit(w, b) ELSE Bit(h, b - 11)
  BY <1>7, JoinedFields
<1> HIDE DEF x
<1>12. v \in Int /\ (v < 0 <=> s < 0) /\ \A b \in Nat : Bit(v, b) <=> IF b < 12 THEN Bit(x, b) ELSE Bit(s, b - 12)
  BY <1>1, <1>7, JoinedFields
<1> HIDE DEF v
<1>13. ASSUME NEW b \in Nat
       PROVE  Bit(v, b) <=> \/ b \in 1 .. 4 /\ 7 + b \in word
                            \/ b \in 5 .. 10 /\ 20 + b \in word
                            \/ b = 11 /\ 7 \in word
                            \/ b > 11 /\ 31 \in word
  <2>1. CASE b < 1
    BY <1>9, <1>10, <1>11, <1>12, <2>1, NoBitsOfZero
  <2>2. CASE b \in 1 .. 4
    <3>1. b - 1 \in Nat /\ 8 + (b - 1) = 7 + b /\ b - 1 <= 3
      BY <2>2
    <3>2. Bit(l, b - 1) <=> 7 + b \in word
      BY <1>4, <3>1
    <3> QED BY <1>9, <1>10, <1>11, <1>12, <2>2, <3>2
  <2>3. CASE b \in 5 .. 10
    <3>1. b - 5 \in Nat /\ 25 + (b - 5) = 20 + b /\ b - 5 <= 5
      BY <2>3
    <3>2. Bit(m, b - 5) <=> 20 + b \in word
      BY <1>3, <3>1
    <3> QED BY <1>10, <1>11, <1>12, <2>3, <3>2
  <2>4. CASE b = 11
    <3>1. b - 11 \in Nat /\ 7 + (b - 11) = 7 /\ b - 11 <= 0
      BY <2>4
    <3>2. Bit(h, b - 11) <=> 7 \in word
      BY <1>2, <3>1
    <3> QED BY <1>11, <1>12, <2>4, <3>2
  <2>5. CASE b > 11
    <3>1. b - 12 \in Nat
      BY <2>5
    <3>2. Bit(s, b - 12) <=> 31 \in word
      BY <1>1, <3>1
    <3> QED BY <1>12, <2>5, <3>2
  <2> QED BY <2>1, <2>2, <2>3, <2>4, <2>5
<1> QED BY <1>1, <1>8, <1>12, <1>13

LEMMA JumpBits ==
  /\ Decode!JumpOffset \in Int /\ (Decode!JumpOffset < 0 <=> 31 \in word)
  /\ \A b \in Nat : Bit(Decode!JumpOffset, b) <=>
       \/ b \in 1 .. 10 /\ 20 + b \in word
       \/ b = 11 /\ 20 \in word
       \/ b \in 12 .. 19 /\ b \in word
       \/ b > 19 /\ 31 \in word
<1> DEFINE s == Decode!SignedFrom(31)
           h == Decode!Bits(19, 12)
           m == Decode!Bits(20, 20)
           l == Decode!Bits(30, 21)
           u == l * Two(1) + 0
           w == m * Two(11) + u
           x == h * Two(12) + w
           v == s * Two(20) + x
<1>1. s \in Int /\ (s < 0 <=> 31 \in word) /\ \A b \in Nat : Bit(s, b) <=> 31 \in word
  <2>1. \A b \in Nat : b <= 31 - 31 => 31 + b = 31
    OBVIOUS
  <2> QED BY <2>1, SignedAre
<1>2. h \in 0 .. Two(8) - 1 /\ \A b \in Nat : Bit(h, b) <=> b <= 7 /\ 12 + b \in word
  BY BitsAre
<1>3. m \in 0 .. Two(1) - 1 /\ \A b \in Nat : Bit(m, b) <=> b <= 0 /\ 20 + b \in word
  BY BitsAre
<1>4. l \in 0 .. Two(10) - 1 /\ \A b \in Nat : Bit(l, b) <=> b <= 9 /\ 21 + b \in word
  BY BitsAre
<1>5. Decode!JumpOffset = ((s * Two(20) + h * Two(12)) + m * Two(11)) + l * Two(1)
  BY DEF Decode!JumpOffset, Two
<1> HIDE DEF s, h, m, l
<1>6. h \in 0 .. 255 /\ m \in 0 .. 1 /\ l \in 0 .. 1023
  BY <1>2, <1>3, <1>4, TwosKnown, SMT
<1>7. /\ l \in Int /\ m \in Int /\ h \in Int /\ 0 \in 0 .. Two(1) - 1 /\ u \in 0 .. Two(11) - 1
      /\ w \in 0 .. Two(12) - 1 /\ x \in 0 .. Two(20) - 1
  BY <1>6, TwosKnown, SMT
<1>8. Decode!JumpOffset = v
  <2> DEFINE t == s * Two(20)
  <2>1. t \in Int
    <3>1. Two(20) \in Int
      BY TwosKnown, SMT
    <3> HIDE DEF Two
    <3> QED BY <1>1, <3>1
  <2> HIDE DEF t
  <2>2. h * Two(12) \in Int /\ m * Two(11) \in Int /\ l * Two(1) \in Int
    BY <1>6, TwosKnown, SMT
  <2> QED BY <1>5, <2>1, <2>2 DEF t
<1>9. \A b \in Nat : Bit(u, b) <=> IF b < 1 THEN Bit(0, b) ELSE Bit(l, b - 1)
  BY <1>7, JoinedFields
<1> HIDE DEF u
<1>10. \A b \in Nat : Bit(w, b) <=> IF b < 11 THEN Bit(u, b) ELSE Bit(m, b - 11)
  BY <1>7, JoinedFields
<1> HIDE DEF w
<1>11. \A b \in Nat : Bit(x, b) <=> IF b < 12 THEN Bit(w, b) ELSE Bit(h, b - 12)
  BY <1>7, JoinedFields
<1> HIDE DEF x
<1>12. v \in Int /\ (v < 0 <=> s < 0) /\ \A b \in Nat : Bit(v, b) <=> IF b < 20 THEN Bit(x, b) ELSE Bit(s, b - 20)
  BY <1>1, <1>7, JoinedFields
<1> HIDE DEF v
<1>13. ASSUME NEW b \in Nat
       PROVE  Bit(v, b) <=> \/ b \in 1 .. 10 /\ 20 + b \in word
                            \/ b = 11 /\ 20 \in word
                            \/ b \in 12 .. 19 /\ b \in word
                            \/ b > 19 /\ 31 \in word
  <2>1. CASE b < 1
    BY <1>9, <1>10, <1>11, <1>12, <2>1, NoBitsOfZero
  <2>2. CASE b \in 1 .. 10
    <3>1. b - 1 \in Nat /\ 21 + (b - 1) = 20 + b /\ b - 1 <= 9
      BY <2>2
    <3>2. Bit(l, b - 1) <=> 20 + b \in word
      BY <1>4, <3>1
    <3> QED BY <1>9, <1>10, <1>11, <1>12, <2>2, <3>2
  <2>3. CASE b = 11
    <3>1. b - 11 \in Nat /\ 20 + (b - 11) = 20 /\ b - 11 <= 0
      BY <2>3
    <3>2. Bit(m, b - 11) <=> 20 \in word
      BY <1>3, <3>1
    <3> QED BY <1>10, <1>11, <1>12, <2>3, <3>2
  <2>4. CASE b \in 12 .. 19
    <3>1. b - 12 \in Nat /\ 12 + (b - 12) = b /\ b - 12 <= 7
      BY <2>4
    <3>2. Bit(h, b - 12) <=> b \in word
      BY <1>2, <3>1
    <3> QED BY <1>11, <1>12, <2>4, <3>2
  <2>5. CASE b > 19
    <3>1. b - 20 \in Nat
      BY <2>5
    <3>2. Bit(s, b - 20) <=> 31 \in word
      BY <1>1, <3>1
    <3> QED BY <1>12, <2>5, <3>2
  <2> QED BY <2>1, <2>2, <2>3, <2>4, <2>5
<1> QED BY <1>1, <1>8, <1>12, <1>13

-----------------------------------------------------------------------------
(* The parts of a layout *)

\* A part has the bits of the word that the layout puts there.
PartIsRight(p) ==
  /\ p.low \in Nat /\ p.high \in 0 .. 30 /\ p.at \in Nat
  /\ \A b \in p.low .. p.high : Bit(fields[p.field], b) <=> p.at + b - p.low \in word
\* The parts are right, of these fields and at these places of the word.
Fills(parts, places, names) ==
  /\ \A p \in parts : PartIsRight(p) /\ p.field \in names
  /\ \A name \in names : \E p \in parts : p.field = name
  /\ \A i \in places : \E p \in parts : i \in p.at .. p.at + p.high - p.low
\* No bit of a field is in none of its parts but a sign above all.
NoMore(field, parts) ==
  \A b \in 0 .. 30 : Bit(fields[field], b) =>
    \/ \E p \in parts : p.field = field /\ b \in p.low .. p.high
    \/ fields[field] < 0 /\ \A p \in parts : p.field = field => b > p.high

LEMMA PartFills ==
  ASSUME NEW field, NEW low \in Nat, NEW high \in low .. 30, NEW at \in Nat,
         \A b \in low .. high : Bit(fields[field], b) <=> at + b - low \in word
  PROVE  Fills(Decode!Part(field, high, low, at), at .. at + high - low, {field})
BY DEF Fills, PartIsRight, Decode!Part

LEMMA FieldFills ==
  ASSUME NEW field, NEW high \in 0 .. 30, NEW at \in Nat, fields[field] = Decode!Bits(at + high, at)
  PROVE  /\ Fills(Decode!Part(field, high, 0, at), at .. at + high, {field})
         /\ \A parts : Decode!Part(field, high, 0, at) \subseteq parts => NoMore(field, parts)
<1> DEFINE top == at + high
           v == fields[field]
<1>1. top \in Nat /\ at <= top /\ top - at = high /\ high \in Nat
  OBVIOUS
<1>2. \A b \in Nat : Bit(v, b) <=> b <= high /\ at + b \in word
  <2>1. \A b \in Nat : Bit(Decode!Bits(top, at), b) <=> b <= top - at /\ at + b \in word
    <3> HIDE DEF top
    <3> QED BY <1>1, BitsAre
  <2> QED BY <1>1, <2>1
<1> HIDE DEF v
<1>3. Fills(Decode!Part(field, high, 0, at), at .. at + high - 0, {field})
  <2> DEFINE low == 0
  <2>1. low \in Nat /\ high \in low .. 30
    OBVIOUS
  <2>2. ASSUME NEW b \in low .. high PROVE Bit(fields[field], b) <=> at + b - low \in word
    <3>1. b \in Nat /\ b <= high /\ at + b - low = at + b
      OBVIOUS
    <3> QED BY <1>2, <3>1 DEF v
  <2> HIDE DEF low
  <2>3. Fills(Decode!Part(field, high, low, at), at .. at + high - low, {field})
    BY <2>1, <2>2, PartFills
  <2> QED BY <2>3 DEF low
<1>4. at + high - 0 = at + high
  OBVIOUS
<1>5. ASSUME NEW parts, Decode!Part(field, high, 0, at) \subseteq parts PROVE NoMore(field, parts)
  <2> DEFINE p == [field |-> field, high |-> high, low |-> 0, at |-> at]
  <2>1. p \in parts /\ p.field = field /\ p.low = 0 /\ p.high = high
    BY <1>5 DEF Decode!Part
  <2> HIDE DEF p
  <2>2. \A b \in 0 .. 30 : Bit(fields[field], b) => b \in p.low .. p.high
    BY <1>2, <2>1 DEF v
  <2> QED BY <2>1, <2>2 DEF NoMore
<1> QED BY <1>3, <1>4, <1>5

LEMMA FillBoth ==
  ASSUME NEW A, NEW B, NEW S, NEW T, NEW M, NEW N, Fills(A, S, M), Fills(B, T, N)
  PROVE  Fills(A \cup B, S \cup T, M \cup N)
BY DEF Fills

\* What fills the word makes it.
LEMMA FilledIsTheWord ==
  ASSUME word \subseteq 0 .. 31, Fills(Decode!Layout, 0 .. 31, DOMAIN fields),
         \A field \in DOMAIN fields : NoMore(field, Decode!Layout),
         format \notin {"none", "refused"}
  PROVE  Decode!FieldsMakeTheWord
<1> DEFINE L == Decode!Layout
<1>1. \A f, b : b \in Decode!Ones(f) <=> b \in 0 .. 30 /\ Bit(fields[f], b)
  BY DEF Decode!Ones, Bit, IsBit
<1>2. ASSUME NEW i \in word PROVE \E p \in L : i \in Decode!Carried(p)
  <2>1. PICK p \in L : i \in p.at .. p.at + p.high - p.low
    BY DEF Fills
  <2> DEFINE b == i - p.at + p.low
  <2>2. PartIsRight(p) /\ i \in Int
    BY DEF Fills
  <2>3. b \in p.low .. p.high /\ b \in 0 .. 30 /\ p.at + b - p.low = i
    BY <2>1, <2>2 DEF PartIsRight
  <2>4. Bit(fields[p.field], b)
    BY <2>2, <2>3 DEF PartIsRight
  <2>5. b \in Decode!Ones(p.field) \cap p.low .. p.high
    BY <1>1, <2>3, <2>4
  <2> HIDE DEF b
  <2> QED BY <2>3, <2>5 DEF Decode!Carried
<1>3. ASSUME NEW p \in L, NEW i \in Decode!Carried(p) PROVE i \in word
  <2>1. PICK b \in Decode!Ones(p.field) \cap p.low .. p.high : i = p.at + b - p.low
    BY DEF Decode!Carried
  <2>2. PartIsRight(p)
    BY DEF Fills
  <2>3. Bit(fields[p.field], b)
    BY <1>1, <2>1
  <2> QED BY <2>1, <2>2, <2>3 DEF PartIsRight
<1>4. word = UNION {Decode!Carried(p) : p \in L}
  BY <1>2, <1>3
<1>5. ASSUME NEW f \in DOMAIN fields, NEW b \in Decode!Ones(f)
      PROVE  Decode!Has(f, b) \/ (fields[f] < 0 /\ Decode!Above(f, b))
  <2>1. NoMore(f, L) /\ b \in 0 .. 30 /\ Bit(fields[f], b)
    BY <1>1
  <2> QED BY <2>1 DEF NoMore, Decode!Has, Decode!Above
<1>6. DOMAIN fields = {p.field : p \in L}
  BY DEF Fills
<1> QED BY <1>4, <1>5, <1>6 DEF Decode!FieldsMakeTheWord

Opcodes == Decode!Part("opcode", 6, 0, 0)
Target == Opcodes \cup Decode!Part("rd", 4, 0, 7)
Source == Decode!Part("funct3", 2, 0, 12) \cup Decode!Part("rs1", 4, 0, 15)
Sources == Source \cup Decode!Part("rs2", 4, 0, 20)

\* A field read from one place is what its part says, wherever other parts are.
ReadAt(field, high, at) ==
  /\ Fills(Decode!Part(field, high, 0, at), at .. at + high, {field})
  /\ \A parts : Decode!Part(field, high, 0, at) \subseteq parts => NoMore(field, parts)
LEMMA ReadAtOnce ==
  ASSUME NEW field, NEW high \in 0 .. 30, NEW at \in Nat, fields[field] = Decode!Bits(at + high, at)
  PROVE  ReadAt(field, high, at)
BY FieldFills DEF ReadAt

LEMMA SourcesRead ==
  ASSUME fields["funct3"] = Decode!Bits(14, 12), fields["rs1"] = Decode!Bits(19, 15)
  PROVE  /\ Fills(Source, 12 .. 19, {"funct3", "rs1"})
         /\ \A parts : Source \subseteq parts => NoMore("funct3", parts) /\ NoMore("rs1", parts)
         /\ fields["rs2"] = Decode!Bits(24, 20) =>
              /\ Fills(Sources, 12 .. 24, {"funct3", "rs1", "rs2"})
              /\ \A parts : Sources \subseteq parts => NoMore("rs2", parts)
<1>1. 12 + 2 = 14 /\ 15 + 4 = 19 /\ 20 + 4 = 24
  OBVIOUS
<1>2. ReadAt("funct3", 2, 12) /\ ReadAt("rs1", 4, 15) /\ (fields["rs2"] = Decode!Bits(24, 20) => ReadAt("rs2", 4, 20))
  BY <1>1, ReadAtOnce
<1>3. Fills(Source, (12 .. 14) \cup (15 .. 19), {"funct3"} \cup {"rs1"})
  BY <1>1, <1>2, FillBoth DEF ReadAt, Source
<1>4. (12 .. 14) \cup (15 .. 19) = 12 .. 19 /\ (12 .. 19) \cup (20 .. 24) = 12 .. 24
  OBVIOUS
<1>5. /\ {"funct3"} \cup {"rs1"} = {"funct3", "rs1"}
      /\ {"funct3", "rs1"} \cup {"rs2"} = {"funct3", "rs1", "rs2"}
  OBVIOUS
<1>6. Fills(Source, 12 .. 19, {"funct3", "rs1"})
  BY <1>3, <1>4, <1>5
<1>7. fields["rs2"] = Decode!Bits(24, 20) =>
        Fills(Sources, (12 .. 19) \cup (20 .. 24), {"funct3", "rs1"} \cup {"rs2"})
  BY <1>1, <1>2, <1>6, FillBoth DEF ReadAt, Sources
<1> QED BY <1>2, <1>4, <1>5, <1>6, <1>7 DEF ReadAt, Source, Sources

LEMMA TargetRead ==
  ASSUME fields["opcode"] = Decode!Bits(6, 0)
  PROVE  /\ Fills(Opcodes, 0 .. 6, {"opcode"})
         /\ \A parts : Opcodes \subseteq parts => NoMore("opcode", parts)
         /\ fields["rd"] = Decode!Bits(11, 7) =>
              /\ Fills(Target, 0 .. 11, {"opcode", "rd"})
              /\ \A parts : Target \subseteq parts => NoMore("rd", parts)
<1>1. 0 + 6 = 6 /\ 7 + 4 = 11
  OBVIOUS
<1>2. ReadAt("opcode", 6, 0) /\ (fields["rd"] = Decode!Bits(11, 7) => ReadAt("rd", 4, 7))
  BY <1>1, ReadAtOnce
<1>3. Fills(Opcodes, 0 .. 6, {"opcode"})
  BY <1>1, <1>2 DEF ReadAt, Opcodes
<1>4. (0 .. 6) \cup (7 .. 11) = 0 .. 11 /\ {"opcode"} \cup {"rd"} = {"opcode", "rd"}
  OBVIOUS
<1>5. fields["rd"] = Decode!Bits(11, 7) => Fills(Target, (0 .. 6) \cup (7 .. 11), {"opcode"} \cup {"rd"})
  BY <1>1, <1>2, <1>3, FillBoth DEF ReadAt, Target
<1> QED BY <1>2, <1>3, <1>4, <1>5 DEF ReadAt, Opcodes, Target

LEMMA TargetAndRest ==
  ASSUME word \subseteq 0 .. 31, format \notin {"none", "refused"},
         fields["opcode"] = Decode!Bits(6, 0), fields["rd"] = Decode!Bits(11, 7),
         NEW rest, NEW N, Decode!Layout = Target \cup rest, DOMAIN fields = {"opcode", "rd"} \cup N,
         Fills(rest, 12 .. 31, N), \A f \in N : NoMore(f, Decode!Layout)
  PROVE  Decode!FieldsMakeTheWord
<1>1. Fills(Target, 0 .. 11, {"opcode", "rd"})
  BY TargetRead
<1>2. Fills(Target \cup rest, (0 .. 11) \cup (12 .. 31), {"opcode", "rd"} \cup N)
  BY <1>1, FillBoth
<1>3. (0 .. 11) \cup (12 .. 31) = 0 .. 31
  OBVIOUS
<1>4. Fills(Decode!Layout, 0 .. 31, DOMAIN fields)
  BY <1>2, <1>3
<1>5. Opcodes \subseteq Decode!Layout /\ Target \subseteq Decode!Layout
  BY DEF Target
<1>6. \A f \in DOMAIN fields : NoMore(f, Decode!Layout)
  BY <1>5, TargetRead
<1> QED BY <1>4, <1>6, FilledIsTheWord

\* Layouts of parts that are read from one place each.
LEMMA MadeOfR ==
  ASSUME word \subseteq 0 .. 31, format = "R", fields = Decode!FieldsOf("R")
  PROVE  Decode!FieldsMakeTheWord
<1> DEFINE N == {"funct3", "rs1", "rs2"} \cup {"funct7"}
           rest == Sources \cup Decode!Part("funct7", 6, 0, 25)
<1>1. fields = [opcode |-> Decode!Bits(6, 0), rd |-> Decode!Bits(11, 7), funct3 |-> Decode!Bits(14, 12),
                rs1 |-> Decode!Bits(19, 15), rs2 |-> Decode!Bits(24, 20), funct7 |-> Decode!Bits(31, 25)]
  BY DEF Decode!FieldsOf, Decode!Opcode, Decode!Rd, Decode!Funct3, Decode!Rs1, Decode!Rs2
<1>2. Decode!Layout = Target \cup rest
  BY DEF Decode!Layout, Opcodes, Target, Source, Sources
<1>3. 25 + 6 = 31 /\ (12 .. 24) \cup (25 .. 25 + 6) = 12 .. 31
  OBVIOUS
<1>4. ReadAt("funct7", 6, 25)
  BY <1>1, <1>3, ReadAtOnce
<1>5. Fills(rest, (12 .. 24) \cup (25 .. 25 + 6), N)
  BY <1>1, <1>4, SourcesRead, FillBoth DEF ReadAt
<1>6. \A f \in N : NoMore(f, Decode!Layout)
  <2>1. Source \subseteq Decode!Layout /\ Sources \subseteq Decode!Layout
        /\ Decode!Part("funct7", 6, 0, 25) \subseteq Decode!Layout
    BY <1>2 DEF Sources
  <2> QED BY <1>1, <1>4, <2>1, SourcesRead DEF ReadAt
<1>7. DOMAIN fields = {"opcode", "rd"} \cup N
  BY <1>1
<1> HIDE DEF rest, N
<1> QED BY <1>1, <1>2, <1>3, <1>5, <1>6, <1>7, TargetAndRest

LEMMA MadeOfR4 ==
  ASSUME word \subseteq 0 .. 31, format = "R4", fields = Decode!FieldsOf("R4")
  PROVE  Decode!FieldsMakeTheWord
<1> DEFINE last == Decode!Part("funct2", 1, 0, 25) \cup Decode!Part("rs3", 4, 0, 27)
           M == {"funct2"} \cup {"rs3"}
           N == {"funct3", "rs1", "rs2"} \cup M
           rest == Sources \cup last
<1>1. fields = [opcode |-> Decode!Bits(6, 0), rd |-> Decode!Bits(11, 7), funct3 |-> Decode!Bits(14, 12),
                rs1 |-> Decode!Bits(19, 15), rs2 |-> Decode!Bits(24, 20), funct2 |-> Decode!Bits(26, 25),
                rs3 |-> Decode!Bits(31, 27)]
  BY DEF Decode!FieldsOf, Decode!Opcode, Decode!Rd, Decode!Funct3, Decode!Rs1, Decode!Rs2
<1>2. Decode!Layout = Target \cup rest
  BY DEF Decode!Layout, Opcodes, Target, Source, Sources
<1>3. 25 + 1 = 26 /\ 27 + 4 = 31 /\ (12 .. 24) \cup ((25 .. 25 + 1) \cup (27 .. 27 + 4)) = 12 .. 31
  OBVIOUS
<1>4. ReadAt("funct2", 1, 25) /\ ReadAt("rs3", 4, 27)
  BY <1>1, <1>3, ReadAtOnce
<1>5. Fills(last, (25 .. 25 + 1) \cup (27 .. 27 + 4), M)
  BY <1>4, FillBoth DEF ReadAt
<1> HIDE DEF last, M
<1>6. Fills(rest, (12 .. 24) \cup ((25 .. 25 + 1) \cup (27 .. 27 + 4)), N)
  BY <1>1, <1>5, SourcesRead, FillBoth
<1>7. \A f \in N : NoMore(f, Decode!Layout)
  <2>1. Source \subseteq Decode!Layout /\ Sources \subseteq Decode!Layout
        /\ Decode!Part("funct2", 1, 0, 25) \subseteq Decode!Layout /\ Decode!Part("rs3", 4, 0, 27) \subseteq Decode!Layout
    BY <1>2 DEF Sources, last
  <2> QED BY <1>1, <1>4, <2>1, SourcesRead DEF ReadAt, M
<1>8. DOMAIN fields = {"opcode", "rd"} \cup N
  BY <1>1 DEF M
<1> HIDE DEF rest, N
<1> QED BY <1>1, <1>2, <1>3, <1>6, <1>7, <1>8, TargetAndRest

LEMMA FormsOfI ==
  /\ ~(Decode!IsShift /\ Decode!IsCsr)
  /\ Decode!ShiftWidth = 6 <=> (Decode!Opcode = \h13 /\ rv64)
  /\ Decode!Funct3 \in 4 .. 7 <=> 14 \in word
<1>1. ~(Decode!IsShift /\ Decode!IsCsr)
  BY DEF Decode!IsShift, Decode!IsCsr
<1>2. Decode!ShiftWidth = 6 <=> (Decode!Opcode = \h13 /\ rv64)
  BY DEF Decode!ShiftWidth
<1>3. Decode!Funct3 \in 4 .. 7 <=> 14 \in word
  <2> DEFINE f == Decode!Funct3
  <2>1. f \in 0 .. Two(3) - 1 /\ \A b \in Nat : Bit(f, b) <=> b <= 2 /\ 12 + b \in word
    <3>1. f = Decode!Bits(14, 12)
      BY DEF Decode!Funct3
    <3>2. 14 + 1 - 12 = 3 /\ 14 - 12 = 2 /\ 12 <= 14
      OBVIOUS
    <3>3. Decode!Bits(14, 12) \in 0 .. Two(3) - 1 /\ \A b \in Nat : Bit(Decode!Bits(14, 12), b) <=> b <= 2 /\ 12 + b \in word
      BY <3>2, BitsAre
    <3> HIDE DEF f
    <3> QED BY <3>1, <3>3
  <2> HIDE DEF f
  <2>2. Bit(f, 2) <=> 14 \in word
    BY <2>1
  <2>3. f \in 0 .. 7
    BY <2>1, TwosKnown
  <2>4. Bit(f, 2) <=> (f \div 4) % 2 = 1
    BY TwosKnown DEF Bit, IsBit, Two
  <2>5. (f \div 4) % 2 = 1 <=> f \in 4 .. 7
    <3>1. f \in 0 .. 3 \/ f \in 4 .. 7
      BY <2>3
    <3>2. CASE f \in 0 .. 3
      <4>1. f \div 4 = 0
        BY <3>2
      <4> QED BY <3>2, <4>1
    <3>3. CASE f \in 4 .. 7
      <4>1. f \div 4 = 1
        BY <3>3
      <4> QED BY <3>3, <4>1
    <3> QED BY <3>1, <3>2, <3>3
  <2> QED BY <2>2, <2>4, <2>5 DEF f
<1> QED BY <1>1, <1>2, <1>3

LEMMA MadeOfShift ==
  ASSUME word \subseteq 0 .. 31, format = "I", fields = Decode!FieldsOf("I"), Decode!IsShift
  PROVE  Decode!FieldsMakeTheWord
<1> DEFINE wide == Decode!Opcode = \h13 /\ rv64
           high == IF wide THEN 5 ELSE 4
           left == IF wide THEN "funct6" ELSE "funct7"
           last == Decode!Part("shamt", high, 0, 20) \cup Decode!Part(left, 10 - high, 0, 21 + high)
           M == {"shamt"} \cup {left}
           N == {"funct3", "rs1"} \cup M
           rest == Source \cup last
<1>1. /\ fields = IF wide
                  THEN [opcode |-> Decode!Bits(6, 0), rd |-> Decode!Bits(11, 7), funct3 |-> Decode!Bits(14, 12),
                        rs1 |-> Decode!Bits(19, 15), shamt |-> Decode!Bits(25, 20), funct6 |-> Decode!Bits(31, 26)]
                  ELSE [opcode |-> Decode!Bits(6, 0), rd |-> Decode!Bits(11, 7), funct3 |-> Decode!Bits(14, 12),
                        rs1 |-> Decode!Bits(19, 15), shamt |-> Decode!Bits(24, 20), funct7 |-> Decode!Bits(31, 25)]
  <2>1. fields = Decode!ShiftFields
    BY FormsOfI DEF Decode!FieldsOf
  <2> QED BY <2>1, FormsOfI DEF Decode!ShiftFields, Decode!Opcode, Decode!Rd, Decode!Funct3, Decode!Rs1
<1>2. Decode!Layout = Target \cup rest
  <2>1. CASE wide
    BY <2>1, FormsOfI DEF Decode!Layout, Opcodes, Target, Source
  <2>2. CASE ~wide
    BY <2>2, FormsOfI DEF Decode!Layout, Opcodes, Target, Source
  <2> QED BY <2>1, <2>2
<1> HIDE DEF wide
<1>3. /\ high \in 4 .. 5 /\ 10 - high \in 0 .. 30 /\ 21 + high \in Nat /\ 20 + high = (IF wide THEN 25 ELSE 24)
      /\ (21 + high) + (10 - high) = 31 /\ 21 + high = (IF wide THEN 26 ELSE 25)
      /\ (12 .. 19) \cup ((20 .. 20 + high) \cup (21 + high .. 31)) = 12 .. 31
  OBVIOUS
<1>4. fields["shamt"] = Decode!Bits(20 + high, 20) /\ fields[left] = Decode!Bits(31, 21 + high)
  BY <1>1, <1>3
<1>5. DOMAIN fields = {"opcode", "rd"} \cup N
  BY <1>1
<1>6. /\ fields["opcode"] = Decode!Bits(6, 0) /\ fields["rd"] = Decode!Bits(11, 7)
      /\ fields["funct3"] = Decode!Bits(14, 12) /\ fields["rs1"] = Decode!Bits(19, 15)
  BY <1>1
<1> HIDE DEF high, left
<1>7. ReadAt("shamt", high, 20) /\ ReadAt(left, 10 - high, 21 + high)
  BY <1>3, <1>4, ReadAtOnce
<1>8. Fills(last, (20 .. 20 + high) \cup (21 + high .. 31), M)
  BY <1>3, <1>7, FillBoth DEF ReadAt
<1> HIDE DEF last, M
<1>9. Fills(rest, (12 .. 19) \cup ((20 .. 20 + high) \cup (21 + high .. 31)), N)
  BY <1>6, <1>8, SourcesRead, FillBoth
<1>10. \A f \in N : NoMore(f, Decode!Layout)
  <2>1. Source \subseteq Decode!Layout /\ Decode!Part("shamt", high, 0, 20) \subseteq Decode!Layout
        /\ Decode!Part(left, 10 - high, 0, 21 + high) \subseteq Decode!Layout
    BY <1>2 DEF last
  <2> QED BY <1>6, <1>7, <2>1, SourcesRead DEF ReadAt, M
<1> HIDE DEF rest, N
<1> QED BY <1>2, <1>3, <1>5, <1>6, <1>9, <1>10, TargetAndRest

LEMMA MadeOfCsr ==
  ASSUME word \subseteq 0 .. 31, format = "I", fields = Decode!FieldsOf("I"), Decode!IsCsr
  PROVE  Decode!FieldsMakeTheWord
<1> DEFINE which == IF 14 \in word THEN "uimm" ELSE "rs1"
           first == Decode!Part("funct3", 2, 0, 12) \cup Decode!Part(which, 4, 0, 15)
           M == {"funct3"} \cup {which}
           N == M \cup {"csr"}
           rest == first \cup Decode!Part("csr", 11, 0, 20)
<1>1. fields = IF 14 \in word
               THEN [opcode |-> Decode!Bits(6, 0), rd |-> Decode!Bits(11, 7), funct3 |-> Decode!Bits(14, 12),
                     uimm |-> Decode!Bits(19, 15), csr |-> Decode!Bits(31, 20)]
               ELSE [opcode |-> Decode!Bits(6, 0), rd |-> Decode!Bits(11, 7), funct3 |-> Decode!Bits(14, 12),
                     rs1 |-> Decode!Bits(19, 15), csr |-> Decode!Bits(31, 20)]
  <2>1. fields = Decode!CsrFields
    BY FormsOfI DEF Decode!FieldsOf
  <2> QED BY <2>1, FormsOfI DEF Decode!CsrFields, Decode!Opcode, Decode!Rd, Decode!Funct3, Decode!Rs1, Decode!CsrNumber
<1>2. Decode!Layout = Target \cup rest
  BY FormsOfI DEF Decode!Layout, Opcodes, Target, Source
<1>3. 12 + 2 = 14 /\ 15 + 4 = 19 /\ 20 + 11 = 31 /\ ((12 .. 12 + 2) \cup (15 .. 15 + 4)) \cup (20 .. 20 + 11) = 12 .. 31
  OBVIOUS
<1>4. fields["funct3"] = Decode!Bits(14, 12) /\ fields[which] = Decode!Bits(19, 15) /\ fields["csr"] = Decode!Bits(31, 20)
  BY <1>1
<1>5. DOMAIN fields = {"opcode", "rd"} \cup N /\ fields["opcode"] = Decode!Bits(6, 0) /\ fields["rd"] = Decode!Bits(11, 7)
  BY <1>1
<1> HIDE DEF which
<1>6. ReadAt("funct3", 2, 12) /\ ReadAt(which, 4, 15) /\ ReadAt("csr", 11, 20)
  BY <1>3, <1>4, ReadAtOnce
<1>7. Fills(first, (12 .. 12 + 2) \cup (15 .. 15 + 4), M)
  BY <1>6, FillBoth DEF ReadAt
<1> HIDE DEF first, M
<1>8. Fills(rest, ((12 .. 12 + 2) \cup (15 .. 15 + 4)) \cup (20 .. 20 + 11), N)
  BY <1>6, <1>7, FillBoth DEF ReadAt
<1>9. \A f \in N : NoMore(f, Decode!Layout)
  <2>1. Decode!Part("funct3", 2, 0, 12) \subseteq Decode!Layout /\ Decode!Part(which, 4, 0, 15) \subseteq Decode!Layout
        /\ Decode!Part("csr", 11, 0, 20) \subseteq Decode!Layout
    BY <1>2 DEF first
  <2> QED BY <1>6, <2>1 DEF ReadAt, M
<1> HIDE DEF rest, N
<1> QED BY <1>2, <1>3, <1>5, <1>8, <1>9, TargetAndRest

\* A part of a field joined from several.
LEMMA PartOfField ==
  ASSUME NEW field, NEW low \in Nat, NEW high \in low .. 30, NEW at \in Nat, NEW top, top = at + high - low,
         \A b \in low .. high : Bit(fields[field], b) <=> at + b - low \in word
  PROVE  Fills(Decode!Part(field, high, low, at), at .. top, {field})
BY PartFills

LEMMA MadeOfImmediate ==
  ASSUME word \subseteq 0 .. 31, format = "I", fields = Decode!FieldsOf("I"), ~Decode!IsShift, ~Decode!IsCsr
  PROVE  Decode!FieldsMakeTheWord
<1> DEFINE N == {"funct3", "rs1"} \cup {"imm"}
           last == Decode!Part("imm", 11, 0, 20)
           rest == Source \cup last
           v == Decode!SignedFrom(20)
<1>1. fields = [opcode |-> Decode!Bits(6, 0), rd |-> Decode!Bits(11, 7), funct3 |-> Decode!Bits(14, 12),
                rs1 |-> Decode!Bits(19, 15), imm |-> v]
  BY DEF Decode!FieldsOf, Decode!Opcode, Decode!Rd, Decode!Funct3, Decode!Rs1
<1>2. Decode!Layout = Target \cup rest
  BY DEF Decode!Layout, Opcodes, Target, Source
<1>3. (v < 0 <=> 31 \in word) /\ \A b \in Nat : Bit(v, b) <=> IF b <= 31 - 20 THEN 20 + b \in word ELSE 31 \in word
  BY SignedAre
<1> HIDE DEF v
<1>4. fields["imm"] = v /\ DOMAIN fields = {"opcode", "rd"} \cup N
  BY <1>1
<1>5. Fills(last, 20 .. 31, {"imm"})
  <2> DEFINE zero == 0
             high == 11
  <2>1. zero \in Nat /\ high \in zero .. 30 /\ 31 = 20 + high - zero
    OBVIOUS
  <2>2. \A b \in zero .. high : Bit(fields["imm"], b) <=> 20 + b - zero \in word
    BY <1>3, <1>4
  <2> HIDE DEF zero, high
  <2>3. Fills(Decode!Part("imm", high, zero, 20), 20 .. 31, {"imm"})
    BY <2>1, <2>2, PartOfField
  <2> QED BY <2>3 DEF zero, high
<1>6. NoMore("imm", Decode!Layout)
  <2> DEFINE p == [field |-> "imm", high |-> 11, low |-> 0, at |-> 20]
  <2>1. p \in Decode!Layout /\ p.field = "imm" /\ p.high = 11 /\ p.low = 0
    BY <1>2 DEF Decode!Part
  <2>2. \A q \in Decode!Layout : q.field = "imm" => q.high = 11
    BY <1>2 DEF Decode!Part, Target, Opcodes, Source
  <2> HIDE DEF p
  <2> QED BY <1>3, <1>4, <2>1, <2>2 DEF NoMore
<1>7. (12 .. 19) \cup (20 .. 31) = 12 .. 31
  OBVIOUS
<1> HIDE DEF last
<1>8. Fills(rest, (12 .. 19) \cup (20 .. 31), N)
  BY <1>1, <1>5, SourcesRead, FillBoth
<1>9. \A f \in N : NoMore(f, Decode!Layout)
  <2>1. Source \subseteq Decode!Layout
    BY <1>2
  <2> QED BY <1>1, <1>6, <2>1, SourcesRead
<1> HIDE DEF rest, N
<1> QED BY <1>1, <1>2, <1>4, <1>7, <1>8, <1>9, TargetAndRest

LEMMA MadeOfU ==
  ASSUME word \subseteq 0 .. 31, format = "U", fields = Decode!FieldsOf("U")
  PROVE  Decode!FieldsMakeTheWord
<1> DEFINE N == {"imm"}
           rest == Decode!Part("imm", 19, 0, 12)
<1>1. fields = [opcode |-> Decode!Bits(6, 0), rd |-> Decode!Bits(11, 7), imm |-> Decode!Bits(31, 12)]
  BY DEF Decode!FieldsOf, Decode!Opcode, Decode!Rd
<1>2. Decode!Layout = Target \cup rest
  BY DEF Decode!Layout, Opcodes, Target
<1>3. 12 + 19 = 31
  OBVIOUS
<1>4. ReadAt("imm", 19, 12)
  BY <1>1, <1>3, ReadAtOnce
<1>5. Fills(rest, 12 .. 31, N) /\ NoMore("imm", Decode!Layout)
  BY <1>2, <1>3, <1>4 DEF ReadAt
<1>6. DOMAIN fields = {"opcode", "rd"} \cup N
  BY <1>1
<1> HIDE DEF rest
<1> QED BY <1>1, <1>2, <1>5, <1>6, TargetAndRest

LEMMA MadeOfJ ==
  ASSUME word \subseteq 0 .. 31, format = "J", fields = Decode!FieldsOf("J")
  PROVE  Decode!FieldsMakeTheWord
<1> DEFINE N == {"imm"}
           v == Decode!JumpOffset
           a == Decode!Part("imm", 19, 12, 12)
           b == Decode!Part("imm", 11, 11, 20)
           c == Decode!Part("imm", 10, 1, 21)
           d == Decode!Part("imm", 20, 20, 31)
           rest == ((a \cup b) \cup c) \cup d
<1>1. fields = [opcode |-> Decode!Bits(6, 0), rd |-> Decode!Bits(11, 7), imm |-> v]
  BY DEF Decode!FieldsOf, Decode!Opcode, Decode!Rd
<1>2. Decode!Layout = Target \cup rest
  BY DEF Decode!Layout, Opcodes, Target
<1>3. /\ v < 0 <=> 31 \in word
      /\ \A i \in Nat : Bit(v, i) <=>
           \/ i \in 1 .. 10 /\ 20 + i \in word
           \/ i = 11 /\ 20 \in word
           \/ i \in 12 .. 19 /\ i \in word
           \/ i > 19 /\ 31 \in word
  BY JumpBits
<1> HIDE DEF v
<1>4. fields["imm"] = v /\ DOMAIN fields = {"opcode", "rd"} \cup N
  BY <1>1
<1>5. Fills(a, 12 .. 19, N)
  <2>1. \A i \in 12 .. 19 : Bit(fields["imm"], i) <=> 12 + i - 12 \in word
    <3>1. \A i \in 12 .. 19 : 12 + i - 12 = i
      OBVIOUS
    <3> QED BY <1>3, <1>4, <3>1
  <2>2. 19 = 12 + 19 - 12 /\ 12 \in Nat /\ 19 \in 12 .. 30 /\ 12 \in Nat
    OBVIOUS
  <2> QED BY <2>1, <2>2, PartOfField
<1>6. Fills(b, 20 .. 20, N)
  <2>1. \A i \in 11 .. 11 : Bit(fields["imm"], i) <=> 20 + i - 11 \in word
    <3>1. \A i \in 11 .. 11 : 20 + i - 11 = 20 /\ i = 11
      OBVIOUS
    <3> QED BY <1>3, <1>4, <3>1
  <2>2. 20 = 20 + 11 - 11 /\ 11 \in Nat /\ 11 \in 11 .. 30 /\ 20 \in Nat
    OBVIOUS
  <2> QED BY <2>1, <2>2, PartOfField
<1>7. Fills(c, 21 .. 30, N)
  <2>1. \A i \in 1 .. 10 : Bit(fields["imm"], i) <=> 21 + i - 1 \in word
    <3>1. \A i \in 1 .. 10 : 21 + i - 1 = 20 + i
      OBVIOUS
    <3> QED BY <1>3, <1>4, <3>1
  <2>2. 30 = 21 + 10 - 1 /\ 1 \in Nat /\ 10 \in 1 .. 30 /\ 21 \in Nat
    OBVIOUS
  <2> QED BY <2>1, <2>2, PartOfField
<1>8. Fills(d, 31 .. 31, N)
  <2>1. \A i \in 20 .. 20 : Bit(fields["imm"], i) <=> 31 + i - 20 \in word
    <3>1. \A i \in 20 .. 20 : 31 + i - 20 = 31 /\ i > 19
      OBVIOUS
    <3> QED BY <1>3, <1>4, <3>1
  <2>2. 31 = 31 + 20 - 20 /\ 20 \in Nat /\ 20 \in 20 .. 30 /\ 31 \in Nat
    OBVIOUS
  <2> QED BY <2>1, <2>2, PartOfField
<1>9. NoMore("imm", Decode!Layout)
  <2>1. ASSUME NEW i \in 0 .. 30, Bit(v, i)
        PROVE  \/ \E p \in rest : p.field = "imm" /\ i \in p.low .. p.high
               \/ v < 0 /\ i > 20
    <3>1. i \in 1 .. 10 \/ i = 11 \/ i \in 12 .. 19 \/ (i = 20) \/ (i > 20 /\ v < 0)
      BY <1>3, <2>1
    <3> QED BY <3>1 DEF Decode!Part
  <2>2. \A p \in Decode!Layout : p.field = "imm" => p.high <= 20
    BY <1>2 DEF Decode!Part, Target, Opcodes
  <2>3. \A p \in Decode!Layout : p.field = "imm" => p.high \in Int
    BY <1>2 DEF Decode!Part, Target, Opcodes
  <2> HIDE DEF rest
  <2> QED BY <1>2, <1>4, <2>1, <2>2, <2>3 DEF NoMore
<1> HIDE DEF a, b, c, d
<1>10. Fills(rest, ((12 .. 19 \cup 20 .. 20) \cup 21 .. 30) \cup 31 .. 31, ((N \cup N) \cup N) \cup N)
  <2>1. Fills(a \cup b, 12 .. 19 \cup 20 .. 20, N \cup N)
    BY <1>5, <1>6, FillBoth
  <2>2. Fills((a \cup b) \cup c, (12 .. 19 \cup 20 .. 20) \cup 21 .. 30, (N \cup N) \cup N)
    BY <1>7, <2>1, FillBoth
  <2> QED BY <1>8, <2>2, FillBoth
<1>11. ((12 .. 19 \cup 20 .. 20) \cup 21 .. 30) \cup 31 .. 31 = 12 .. 31 /\ ((N \cup N) \cup N) \cup N = N
  OBVIOUS
<1> HIDE DEF rest
<1> QED BY <1>1, <1>2, <1>4, <1>9, <1>10, <1>11, TargetAndRest

\* The other two have no target: their offset's low bits are where it would be.
LEMMA OffsetAndSources ==
  ASSUME word \subseteq 0 .. 31, format \notin {"none", "refused"},
         fields["opcode"] = Decode!Bits(6, 0), fields["funct3"] = Decode!Bits(14, 12),
         fields["rs1"] = Decode!Bits(19, 15), fields["rs2"] = Decode!Bits(24, 20),
         NEW rest, Decode!Layout = (Opcodes \cup Sources) \cup rest,
         DOMAIN fields = {"opcode", "funct3", "rs1", "rs2", "imm"},
         Fills(rest, 7 .. 11 \cup 25 .. 31, {"imm"}), NoMore("imm", Decode!Layout)
  PROVE  Decode!FieldsMakeTheWord
<1> DEFINE N == {"opcode"} \cup {"funct3", "rs1", "rs2"}
<1>1. Fills(Opcodes \cup Sources, 0 .. 6 \cup 12 .. 24, N)
  BY TargetRead, SourcesRead, FillBoth
<1>2. DOMAIN fields = N \cup {"imm"} /\ (0 .. 6 \cup 12 .. 24) \cup (7 .. 11 \cup 25 .. 31) = 0 .. 31
  OBVIOUS
<1> HIDE DEF N
<1>3. Fills(Decode!Layout, (0 .. 6 \cup 12 .. 24) \cup (7 .. 11 \cup 25 .. 31), N \cup {"imm"})
  BY <1>1, FillBoth
<1>4. \A f \in DOMAIN fields : NoMore(f, Decode!Layout)
  <2>1. Opcodes \subseteq Decode!Layout /\ Source \subseteq Decode!Layout /\ Sources \subseteq Decode!Layout
    BY DEF Sources
  <2> QED BY <2>1, TargetRead, SourcesRead
<1> QED BY <1>2, <1>3, <1>4, FilledIsTheWord

LEMMA MadeOfS ==
  ASSUME word \subseteq 0 .. 31, format = "S", fields = Decode!FieldsOf("S")
  PROVE  Decode!FieldsMakeTheWord
<1> DEFINE N == {"imm"}
           v == Decode!StoreOffset
           a == Decode!Part("imm", 4, 0, 7)
           b == Decode!Part("imm", 11, 5, 25)
           rest == a \cup b
<1>1. fields = [opcode |-> Decode!Bits(6, 0), funct3 |-> Decode!Bits(14, 12), rs1 |-> Decode!Bits(19, 15),
                rs2 |-> Decode!Bits(24, 20), imm |-> v]
  BY DEF Decode!FieldsOf, Decode!Opcode, Decode!Funct3, Decode!Rs1, Decode!Rs2
<1>2. Decode!Layout = (Opcodes \cup Sources) \cup rest
  BY DEF Decode!Layout, Opcodes, Source, Sources
<1>3. /\ v < 0 <=> 31 \in word
      /\ \A i \in Nat : Bit(v, i) <=>
           (i < 5 /\ 7 + i \in word) \/ (i \in 5 .. 11 /\ 20 + i \in word) \/ (i > 11 /\ 31 \in word)
  BY StoreBits
<1> HIDE DEF v
<1>4. fields["imm"] = v
  BY <1>1
<1>5. Fills(a, 7 .. 11, N)
  <2>1. \A i \in 0 .. 4 : Bit(fields["imm"], i) <=> 7 + i - 0 \in word
    <3>1. \A i \in 0 .. 4 : 7 + i - 0 = 7 + i
      OBVIOUS
    <3> QED BY <1>3, <1>4, <3>1
  <2>2. 11 = 7 + 4 - 0 /\ 4 \in 0 .. 30 /\ 0 \in Nat
    OBVIOUS
  <2> QED BY <2>1, <2>2, PartOfField
<1>6. Fills(b, 25 .. 31, N)
  <2>1. \A i \in 5 .. 11 : Bit(fields["imm"], i) <=> 25 + i - 5 \in word
    <3>1. \A i \in 5 .. 11 : 25 + i - 5 = 20 + i
      OBVIOUS
    <3> QED BY <1>3, <1>4, <3>1
  <2>2. 31 = 25 + 11 - 5 /\ 5 \in Nat /\ 11 \in 5 .. 30 /\ 25 \in Nat
    OBVIOUS
  <2> QED BY <2>1, <2>2, PartOfField
<1>7. NoMore("imm", Decode!Layout)
  <2>1. ASSUME NEW i \in 0 .. 30, Bit(v, i)
        PROVE  \/ \E p \in rest : p.field = "imm" /\ i \in p.low .. p.high
               \/ v < 0 /\ i > 11
    <3>1. i \in 0 .. 4 \/ i \in 5 .. 11 \/ (i > 11 /\ v < 0)
      BY <1>3, <2>1
    <3> QED BY <3>1 DEF Decode!Part
  <2>2. \A p \in Decode!Layout : p.field = "imm" => p.high <= 11 /\ p.high \in Int
    BY <1>2 DEF Decode!Part, Opcodes, Source, Sources
  <2> HIDE DEF rest
  <2> QED BY <1>2, <1>4, <2>1, <2>2 DEF NoMore
<1> HIDE DEF a, b
<1>8. Fills(rest, 7 .. 11 \cup 25 .. 31, N \cup N)
  BY <1>5, <1>6, FillBoth
<1>9. N \cup N = {"imm"}
  OBVIOUS
<1> HIDE DEF rest
<1> QED BY <1>1, <1>2, <1>7, <1>8, <1>9, OffsetAndSources

LEMMA MadeOfB ==
  ASSUME word \subseteq 0 .. 31, format = "B", fields = Decode!FieldsOf("B")
  PROVE  Decode!FieldsMakeTheWord
<1> DEFINE N == {"imm"}
           v == Decode!BranchOffset
           a == Decode!Part("imm", 11, 11, 7)
           b == Decode!Part("imm", 4, 1, 8)
           c == Decode!Part("imm", 10, 5, 25)
           d == Decode!Part("imm", 12, 12, 31)
           rest == (a \cup b) \cup (c \cup d)
<1>1. fields = [opcode |-> Decode!Bits(6, 0), funct3 |-> Decode!Bits(14, 12), rs1 |-> Decode!Bits(19, 15),
                rs2 |-> Decode!Bits(24, 20), imm |-> v]
  BY DEF Decode!FieldsOf, Decode!Opcode, Decode!Funct3, Decode!Rs1, Decode!Rs2
<1>2. Decode!Layout = (Opcodes \cup Sources) \cup rest
  BY DEF Decode!Layout, Opcodes, Source, Sources
<1>3. /\ v < 0 <=> 31 \in word
      /\ \A i \in Nat : Bit(v, i) <=>
           \/ i \in 1 .. 4 /\ 7 + i \in word
           \/ i \in 5 .. 10 /\ 20 + i \in word
           \/ i = 11 /\ 7 \in word
           \/ i > 11 /\ 31 \in word
  BY BranchBits
<1> HIDE DEF v
<1>4. fields["imm"] = v
  BY <1>1
<1>5. Fills(a, 7 .. 7, N)
  <2>1. \A i \in 11 .. 11 : Bit(fields["imm"], i) <=> 7 + i - 11 \in word
    <3>1. \A i \in 11 .. 11 : 7 + i - 11 = 7 /\ i = 11
      OBVIOUS
    <3> QED BY <1>3, <1>4, <3>1
  <2>2. 7 = 7 + 11 - 11 /\ 11 \in Nat /\ 11 \in 11 .. 30 /\ 7 \in Nat
    OBVIOUS
  <2> QED BY <2>1, <2>2, PartOfField
<1>6. Fills(b, 8 .. 11, N)
  <2>1. \A i \in 1 .. 4 : Bit(fields["imm"], i) <=> 8 + i - 1 \in word
    <3>1. \A i \in 1 .. 4 : 8 + i - 1 = 7 + i
      OBVIOUS
    <3> QED BY <1>3, <1>4, <3>1
  <2>2. 11 = 8 + 4 - 1 /\ 1 \in Nat /\ 4 \in 1 .. 30 /\ 8 \in Nat
    OBVIOUS
  <2> QED BY <2>1, <2>2, PartOfField
<1>7. Fills(c, 25 .. 30, N)
  <2>1. \A i \in 5 .. 10 : Bit(fields["imm"], i) <=> 25 + i - 5 \in word
    <3>1. \A i \in 5 .. 10 : 25 + i - 5 = 20 + i
      OBVIOUS
    <3> QED BY <1>3, <1>4, <3>1
  <2>2. 30 = 25 + 10 - 5 /\ 5 \in Nat /\ 10 \in 5 .. 30 /\ 25 \in Nat
    OBVIOUS
  <2> QED BY <2>1, <2>2, PartOfField
<1>8. Fills(d, 31 .. 31, N)
  <2>1. \A i \in 12 .. 12 : Bit(fields["imm"], i) <=> 31 + i - 12 \in word
    <3>1. \A i \in 12 .. 12 : 31 + i - 12 = 31 /\ i > 11
      OBVIOUS
    <3> QED BY <1>3, <1>4, <3>1
  <2>2. 31 = 31 + 12 - 12 /\ 12 \in Nat /\ 12 \in 12 .. 30 /\ 31 \in Nat
    OBVIOUS
  <2> QED BY <2>1, <2>2, PartOfField
<1>9. NoMore("imm", Decode!Layout)
  <2>1. ASSUME NEW i \in 0 .. 30, Bit(v, i)
        PROVE  \/ \E p \in rest : p.field = "imm" /\ i \in p.low .. p.high
               \/ v < 0 /\ i > 12
    <3>1. i \in 1 .. 4 \/ i \in 5 .. 10 \/ i = 11 \/ i = 12 \/ (i > 12 /\ v < 0)
      BY <1>3, <2>1
    <3> QED BY <3>1 DEF Decode!Part
  <2>2. \A p \in Decode!Layout : p.field = "imm" => p.high <= 12 /\ p.high \in Int
    BY <1>2 DEF Decode!Part, Opcodes, Source, Sources
  <2> HIDE DEF rest
  <2> QED BY <1>2, <1>4, <2>1, <2>2 DEF NoMore
<1> HIDE DEF a, b, c, d
<1>10. Fills(rest, (7 .. 7 \cup 8 .. 11) \cup (25 .. 30 \cup 31 .. 31), (N \cup N) \cup (N \cup N))
  <2>1. Fills(a \cup b, 7 .. 7 \cup 8 .. 11, N \cup N)
    BY <1>5, <1>6, FillBoth
  <2>2. Fills(c \cup d, 25 .. 30 \cup 31 .. 31, N \cup N)
    BY <1>7, <1>8, FillBoth
  <2> QED BY <2>1, <2>2, FillBoth
<1>11. (7 .. 7 \cup 8 .. 11) \cup (25 .. 30 \cup 31 .. 31) = 7 .. 11 \cup 25 .. 31 /\ (N \cup N) \cup (N \cup N) = {"imm"}
  OBVIOUS
<1> HIDE DEF rest
<1> QED BY <1>1, <1>2, <1>9, <1>10, <1>11, OffsetAndSources

\* Every format, and the sign of its immediate.
LEMMA DecodedRight ==
  ASSUME word \subseteq 0 .. 31, format = Decode!FormatOf(Decode!Opcode), fields = Decode!FieldsOf(format)
  PROVE  Decode!FieldsMakeTheWord /\ Decode!ImmediatesKeepTheSign
<1>1. format \in {"refused", "R", "R4", "I", "S", "B", "U", "J"}
  BY DEF Decode!FormatOf
<1>2. Decode!FieldsMakeTheWord
  <2>1. CASE format = "refused"
    BY <2>1 DEF Decode!FieldsMakeTheWord
  <2>2. CASE format = "I"
    BY <2>2, MadeOfShift, MadeOfCsr, MadeOfImmediate
  <2> QED BY <1>1, <2>1, <2>2, MadeOfR, MadeOfR4, MadeOfS, MadeOfB, MadeOfU, MadeOfJ
<1>3. ASSUME Decode!Signed PROVE fields["imm"] < 0 <=> 31 \in word
  <2>1. /\ format \in {"I", "S", "B", "J"}
        /\ fields["imm"] \in {Decode!SignedFrom(20), Decode!StoreOffset, Decode!BranchOffset, Decode!JumpOffset}
    <3>1. CASE format \in {"refused", "R", "R4", "U"}
      BY <1>3, <3>1 DEF Decode!Signed, Decode!FieldsOf
    <3>2. CASE format = "I"
      <4>1. CASE Decode!IsShift
        BY <1>3, <3>2, <4>1, FormsOfI DEF Decode!Signed, Decode!FieldsOf, Decode!ShiftFields
      <4>2. CASE Decode!IsCsr
        BY <1>3, <3>2, <4>2, FormsOfI DEF Decode!Signed, Decode!FieldsOf, Decode!CsrFields
      <4>3. CASE ~Decode!IsShift /\ ~Decode!IsCsr
        BY <3>2, <4>3 DEF Decode!FieldsOf
      <4> QED BY <4>1, <4>2, <4>3
    <3>3. CASE format \in {"S", "B", "J"}
      BY <3>3 DEF Decode!FieldsOf
    <3> QED BY <1>1, <3>1, <3>2, <3>3
  <2> QED BY <2>1, SignedAre, StoreBits, BranchBits, JumpBits
<1> QED BY <1>2, <1>3 DEF Decode!ImmediatesKeepTheSign

-----------------------------------------------------------------------------
(* Words of the ALU (EvalOperands) *)

\* Numbers that differ by multiples of t have the same rest.
LEMMA RestOfMore ==
  ASSUME NEW a \in Int, NEW k \in Int, NEW t \in Nat \ {0}
  PROVE  (a + k * t) % t = a % t
<1> DEFINE q == a \div t
           r == a % t
<1>1. q \in Int /\ r \in 0 .. t - 1 /\ a = t * q + r
  BY Division
<1> HIDE DEF q, r
<1>2. a + k * t = (q + k) * t + r /\ q + k \in Int /\ a + k * t \in Int
  BY <1>1
<1> DEFINE n == a + k * t
           p == q + k
<1>3. n \in Int /\ p \in Int /\ n = p * t + r
  BY <1>2
<1> HIDE DEF n, p
<1>4. n % t = r
  BY <1>1, <1>3, QuotientAndRest
<1> QED BY <1>4 DEF n, r

LEMMA RestOfSum ==
  ASSUME NEW x \in Int, NEW y \in Int, NEW t \in Nat \ {0}
  PROVE  (x + y) % t = ((x % t) + (y % t)) % t
<1> DEFINE p == x \div t
           q == y \div t
           r == x % t
           s == y % t
<1>1. p \in Int /\ q \in Int /\ r \in 0 .. t - 1 /\ s \in 0 .. t - 1 /\ x = t * p + r /\ y = t * q + s
  BY Division
<1> HIDE DEF p, q, r, s
<1>2. x + y = (r + s) + (p + q) * t /\ r + s \in Int /\ p + q \in Int
  BY <1>1
<1> DEFINE a == r + s
           k == p + q
<1>3. a \in Int /\ k \in Int /\ x + y = a + k * t
  BY <1>2
<1> HIDE DEF a, k
<1>4. (a + k * t) % t = a % t
  BY <1>3, RestOfMore
<1>5. (x + y) % t = a % t
  BY <1>3, <1>4, Zenon
<1>6. a % t = ((x % t) + (y % t)) % t
  BY Zenon DEF a, r, s
<1> QED BY <1>5, <1>6, Zenon

LEMMA RestOfSmall == ASSUME NEW t \in Nat \ {0}, NEW a \in 0 .. t - 1 PROVE a % t = a
<1>1. a = 0 * t + a /\ 0 \in Int /\ a \in Int
  OBVIOUS
<1> QED BY <1>1, QuotientAndRest

LEMMA TwosOfEval == ArePowers(Eval!Two, 2)
<1>1. \E f : ArePowers(f, 2)
  <2> DEFINE base == 2
  <2>1. base \in Nat
    OBVIOUS
  <2> HIDE DEF base
  <2>2. \E f : ArePowers(f, base)
    BY <2>1, PowersExist
  <2> QED BY <2>2 DEF base
<1> QED BY <1>1 DEF ArePowers, Eval!Two

\* A power of two is more than its exponent.
LEMMA MoreThanExponent == \A n \in Nat : n < Eval!Two[n]
<1> DEFINE two == Eval!Two
           Q == {n \in Nat : n < two[n]}
<1>1. two[0] = 1 /\ \A n \in Nat : two[n] \in Nat \ {0} /\ two[n + 1] = 2 * two[n]
  BY TwosOfEval, TwosAre
<1> HIDE DEF two
<1>2. 0 \in Q
  BY <1>1
<1>3. \A n \in Nat : n \in Q => n + 1 \in Q
  <2> SUFFICES ASSUME NEW n \in Nat, n < two[n] PROVE n + 1 < two[n + 1]
    OBVIOUS
  <2>1. two[n] \in Nat /\ two[n + 1] = 2 * two[n]
    BY <1>1
  <2> QED BY <2>1
<1> HIDE DEF Q
<1>4. \A n \in Nat : n \in Q
  BY <1>2, <1>3, SetInduction
<1> QED BY <1>4 DEF Q, two

WordSize == Eval!Two[WordWidth]
HalfSize == Eval!Two[WordWidth - 1]
FieldSize(bits) == Eval!Two[bits]

LEMMA Sizes ==
  ASSUME Eval!EvalAssumption
  PROVE  /\ WordWidth \in Nat /\ ShiftBits \in Nat /\ ImmediateBits \in Nat /\ ImmediateBits >= 1
         /\ ImmediateBits <= WordWidth - 1 /\ ShiftBits < WordWidth
         /\ FieldSize(ShiftBits) = WordWidth /\ WordWidth < WordSize
         /\ HalfSize \in Nat \ {0} /\ WordSize = 2 * HalfSize
         /\ FieldSize(ImmediateBits - 1) \in Nat \ {0}
         /\ FieldSize(ImmediateBits) = 2 * FieldSize(ImmediateBits - 1)
<1> DEFINE two == Eval!Two
<1>1. \A n \in Nat : two[n] \in Nat \ {0} /\ two[n + 1] = 2 * two[n] /\ n < two[n]
  BY TwosOfEval, TwosAre, MoreThanExponent
<1>2. WordWidth \in Nat /\ ShiftBits \in Nat /\ two[ShiftBits] = WordWidth /\ ImmediateBits \in 1 .. WordWidth - 1
  BY DEF Eval!EvalAssumption
<1> HIDE DEF two
<1>3. /\ WordWidth - 1 \in Nat /\ (WordWidth - 1) + 1 = WordWidth
      /\ ImmediateBits - 1 \in Nat /\ (ImmediateBits - 1) + 1 = ImmediateBits
  BY <1>2
<1>4. two[WordWidth] = 2 * two[WordWidth - 1] /\ two[ImmediateBits] = 2 * two[ImmediateBits - 1]
  BY <1>1, <1>3
<1> QED BY <1>1, <1>2, <1>3, <1>4 DEF WordSize, HalfSize, FieldSize, two

LEMMA BitsOfEval == \A n, size : Eval!Bits(n, size) = {b \in 0 .. size - 1 : IsBit(Eval!Two, n, b)}
  BY DEF Eval!Bits, IsBit

\* A word has the low bits of the number.
LEMMA WordsHaveTheBits ==
  ASSUME Eval!EvalAssumption, NEW n \in Int
  PROVE  /\ Eval!Unsigned(n) \in 0 .. WordSize - 1
         /\ Eval!Bits(Eval!Unsigned(n), WordWidth) = Eval!Bits(n, WordWidth)
<1> DEFINE u == Eval!Unsigned(n)
           two == Eval!Two
           k == WordWidth
<1>1. k \in Nat /\ ArePowers(two, 2) /\ u = n % two[k]
  BY Sizes, TwosOfEval DEF Eval!Unsigned
<1>2. \A b \in 0 .. k - 1 : IsBit(two, u, b) <=> IsBit(two, n, b)
  <2> HIDE DEF two, k, u
  <2> QED BY <1>1, RestHasLowBits
<1>3. u \in 0 .. WordSize - 1
  <2>1. two[k] = WordSize /\ WordSize \in Nat \ {0}
    BY Sizes DEF WordSize
  <2> HIDE DEF two, k, u
  <2> QED BY <1>1, <2>1
<1> HIDE DEF u
<1>4. Eval!Bits(u, WordWidth) = Eval!Bits(n, WordWidth)
  BY <1>2, BitsOfEval
<1> QED BY <1>3, <1>4 DEF u

\* A word read as signed is still that word.
LEMMA SignedIsTheWord ==
  ASSUME Eval!EvalAssumption, NEW a \in 0 .. WordSize - 1
  PROVE  /\ Eval!Unsigned(a) = a /\ Eval!Signed(a) \in Int /\ Eval!Unsigned(Eval!Signed(a)) = a
         /\ Eval!Signed(a) = 0 <=> a = 0
<1>1. WordSize \in Nat \ {0} /\ HalfSize \in Nat \ {0} /\ WordSize = 2 * HalfSize
  BY Sizes
<1>2. Eval!Signed(a) = (IF a >= HalfSize THEN a - WordSize ELSE a) /\ \A n : Eval!Unsigned(n) = n % WordSize
  BY DEF Eval!Signed, Eval!Unsigned, WordSize, HalfSize
<1> DEFINE t == WordSize
           k == 0 - 1
<1>3. t \in Nat \ {0} /\ a \in 0 .. t - 1 /\ k \in Int /\ a - WordSize = a + k * t
  BY <1>1
<1> HIDE DEF t, k
<1>4. a % t = a
  BY <1>3, RestOfSmall
<1>5. (a + k * t) % t = a % t
  <2>1. a \in Int
    BY <1>3
  <2> QED BY <1>3, <2>1, RestOfMore, Zenon
<1>6. (a - WordSize) % t = a
  BY <1>3, <1>4, <1>5, Zenon
<1>7. Eval!Unsigned(a) = a /\ Eval!Unsigned(Eval!Signed(a)) = a
  BY <1>2, <1>4, <1>6, Zenon DEF t
<1> QED BY <1>1, <1>2, <1>7

\* What the ALU makes of two numbers is a word, and the same for all that are the same words.
LEMMA AluOfWords ==
  ASSUME Eval!EvalAssumption, NEW op \in Eval!RegisterOps \cup Eval!ImmediateOps,
         NEW x \in Int, NEW y \in Int, NEW v \in Int, NEW w \in Int,
         Eval!Unsigned(x) = Eval!Unsigned(v), Eval!Unsigned(y) = Eval!Unsigned(w)
  PROVE  Eval!Alu(op, x, y) = Eval!Alu(op, v, w) /\ Eval!Alu(op, x, y) \in 0 .. WordSize - 1
<1>1. Eval!Unsigned(x + y) = Eval!Unsigned(v + w)
  <2>1. \A n : Eval!Unsigned(n) = n % WordSize
    BY DEF Eval!Unsigned, WordSize
  <2>2. WordSize \in Nat \ {0}
    BY Sizes
  <2>3. (x + y) % WordSize = ((x % WordSize) + (y % WordSize)) % WordSize
    BY <2>2, RestOfSum
  <2>4. (v + w) % WordSize = ((v % WordSize) + (w % WordSize)) % WordSize
    BY <2>2, RestOfSum
  <2>5. x % WordSize = v % WordSize /\ y % WordSize = w % WordSize
    BY <2>1, Zenon
  <2>6. (x + y) % WordSize = (v + w) % WordSize
    BY <2>3, <2>4, <2>5, Zenon
  <2> QED BY <2>1, <2>6, Zenon
<1>2. Eval!Unsigned(x) \in 0 .. WordSize - 1 /\ Eval!Unsigned(y) \in 0 .. WordSize - 1 /\ Eval!Unsigned(x + y) \in 0 .. WordSize - 1
  BY WordsHaveTheBits
<1>3. WordSize > 1 /\ WordSize \in Nat
  BY Sizes
<1>4. Eval!Unsigned(Eval!Signed(Eval!Unsigned(x)) \div Eval!Two[Eval!Unsigned(y) % WordWidth]) \in 0 .. WordSize - 1
  <2> DEFINE a == Eval!Signed(Eval!Unsigned(x))
             m == Eval!Unsigned(y) % WordWidth
             d == Eval!Two[m]
             q == a \div d
  <2>1. a \in Int
    BY <1>2, SignedIsTheWord
  <2>2. m \in Nat
    <3>1. WordWidth \in Nat \ {0}
      BY Sizes
    <3> QED BY <1>2, <3>1
  <2> HIDE DEF a, m
  <2>3. d \in Nat \ {0}
    BY <2>2, TwosOfEval, TwosAre
  <2> HIDE DEF d
  <2>4. q \in Int
    BY <2>1, <2>3
  <2> HIDE DEF q
  <2>5. Eval!Unsigned(q) \in 0 .. WordSize - 1
    BY <2>4, WordsHaveTheBits
  <2> QED BY <2>5 DEF q, d, m, a
<1>5. Eval!Alu(op, x, y) = Eval!Alu(op, v, w)
  BY <1>1 DEF Eval!Alu
<1>6. Eval!Alu(op, x, y) \in 0 .. WordSize - 1
  <2>1. CASE op \in {"add", "addi"}
    BY <1>2, <2>1 DEF Eval!Alu
  <2>2. CASE op \in {"slt", "slti"}
    BY <1>3, <2>2 DEF Eval!Alu
  <2>3. CASE op \in {"sltu", "sltiu"}
    BY <1>3, <2>3 DEF Eval!Alu
  <2>4. CASE op \in {"sra", "srai"}
    BY <1>4, <2>4 DEF Eval!Alu
  <2> QED BY <2>1, <2>2, <2>3, <2>4 DEF Eval!RegisterOps, Eval!ImmediateOps, Eval!ShiftOps
<1> QED BY <1>5, <1>6

\* An immediate as the ALU gets it: the bits of its field, its sign above them.
ExtendedBits(asked, value) ==
  LET size == IF asked \in Eval!ShiftOps THEN ShiftBits ELSE ImmediateBits
      sign == asked \notin Eval!ShiftOps /\ size - 1 \in Eval!Bits(value, size)
  IN Eval!Bits(value, size) \cup (IF sign THEN size .. WordWidth - 1 ELSE {})

LEMMA ShiftAmountIs ==
  ASSUME Eval!EvalAssumption, NEW v \in 0 .. FieldSize(ShiftBits) - 1
  PROVE  Eval!Bits(v, WordWidth) = Eval!Bits(v, ShiftBits)
<1> DEFINE two == Eval!Two
           k == ShiftBits
<1>1. k \in Nat /\ k < WordWidth /\ WordWidth \in Nat /\ two[k] = WordWidth /\ ArePowers(two, 2)
  BY Sizes, TwosOfEval DEF FieldSize
<1>2. v \in -two[k] .. two[k] - 1 /\ ~(v < 0)
  BY <1>1 DEF FieldSize
<1>3. \A b \in 0 .. WordWidth - 1 : IsBit(two, v, b) => b \in 0 .. k - 1
  <2> HIDE DEF two, k
  <2> SUFFICES ASSUME NEW b \in 0 .. WordWidth - 1, b >= k PROVE ~IsBit(two, v, b)
    BY <1>1
  <2>1. b \in Nat
    BY <1>1
  <2> QED BY <1>1, <1>2, <2>1, NoBitsAbove
<1>4. 0 .. k - 1 \subseteq 0 .. WordWidth - 1
  BY <1>1
<1> QED BY <1>3, <1>4, BitsOfEval

LEMMA ExtensionIs ==
  ASSUME Eval!EvalAssumption, NEW n \in Int, NEW v \in Int,
         NEW w \in {0, 0 - 1}, v = n + w * FieldSize(ImmediateBits),
         v \in -FieldSize(ImmediateBits - 1) .. FieldSize(ImmediateBits - 1) - 1
  PROVE  Eval!Bits(v, WordWidth) =
           Eval!Bits(n, ImmediateBits)
             \cup (IF ImmediateBits - 1 \in Eval!Bits(n, ImmediateBits) THEN ImmediateBits .. WordWidth - 1 ELSE {})
<1> DEFINE two == Eval!Two
           k == ImmediateBits
           t == two[k]
           j == k - 1
<1>1. /\ k \in Nat /\ j \in Nat /\ j = k - 1 /\ k <= WordWidth - 1 /\ WordWidth \in Nat /\ ArePowers(two, 2)
      /\ t \in Nat \ {0} /\ w \in Int /\ v = n + w * t /\ v \in -two[j] .. two[j] - 1
  <2>1. k \in Nat /\ j \in Nat /\ j = k - 1 /\ k <= WordWidth - 1 /\ WordWidth \in Nat /\ w \in Int
    BY Sizes
  <2>2. ArePowers(two, 2)
    BY TwosOfEval
  <2>3. v = n + w * t /\ v \in -two[j] .. two[j] - 1
    BY DEF FieldSize
  <2> HIDE DEF two, k, j
  <2>4. t \in Nat \ {0}
    BY <2>1, <2>2, TwosAre
  <2> QED BY <2>1, <2>2, <2>3, <2>4
<1> HIDE DEF two, k, t, j
<1>2. v % t = n % t
  <2>1. (n + w * t) % t = n % t
    BY <1>1, RestOfMore, Zenon
  <2> QED BY <1>1, <2>1, Zenon
<1>3. \A b \in 0 .. k - 1 : IsBit(two, v, b) <=> IsBit(two, n, b)
  <2> SUFFICES ASSUME NEW b \in 0 .. k - 1 PROVE IsBit(two, v, b) <=> IsBit(two, n, b)
    OBVIOUS
  <2>1. IsBit(two, v % two[k], b) <=> IsBit(two, v, b)
    BY <1>1, RestHasLowBits
  <2>2. IsBit(two, n % two[k], b) <=> IsBit(two, n, b)
    BY <1>1, RestHasLowBits
  <2>3. v % two[k] = n % two[k]
    BY <1>2 DEF t
  <2> QED BY <2>1, <2>2, <2>3, Zenon
<1>4. \A b \in Nat : b >= j => (IsBit(two, v, b) <=> v < 0)
  BY <1>1, NoBitsAbove
<1>5. IsBit(two, n, j) <=> v < 0
  <2>1. j \in 0 .. k - 1 /\ j >= j
    BY <1>1
  <2> QED BY <1>1, <1>3, <1>4, <2>1
<1>6. Eval!Bits(n, k) = {b \in 0 .. k - 1 : IsBit(two, n, b)} /\ Eval!Bits(v, WordWidth) = {b \in 0 .. WordWidth - 1 : IsBit(two, v, b)}
  BY BitsOfEval DEF two
<1>7. j \in Eval!Bits(n, k) <=> v < 0
  <2>1. j \in 0 .. k - 1
    BY <1>1
  <2> QED BY <1>5, <1>6, <2>1
<1>8. ASSUME NEW b
      PROVE  b \in Eval!Bits(v, WordWidth) <=> b \in Eval!Bits(n, k) \/ (v < 0 /\ b \in k .. WordWidth - 1)
  <2>1. CASE b \in 0 .. k - 1
    <3>1. b \in 0 .. WordWidth - 1 /\ b \notin k .. WordWidth - 1
      BY <1>1, <2>1
    <3> QED BY <1>3, <1>6, <2>1, <3>1
  <2>2. CASE b \in k .. WordWidth - 1
    <3>1. b \in 0 .. WordWidth - 1 /\ b \notin 0 .. k - 1 /\ b \in Nat /\ b >= j
      BY <1>1, <2>2
    <3> QED BY <1>4, <1>6, <2>2, <3>1
  <2>3. CASE b \notin 0 .. k - 1 /\ b \notin k .. WordWidth - 1
    <3>1. b \notin 0 .. WordWidth - 1
      BY <1>1, <2>3
    <3> QED BY <1>6, <2>3, <3>1
  <2> QED BY <2>1, <2>2, <2>3
<1> QED BY <1>7, <1>8 DEF k, j

LEMMA ImmediateIs ==
  ASSUME Eval!EvalAssumption, NEW op \in Eval!ImmediateOps, NEW operand \in Eval!OperandTexts,
         Eval!ImmediateOf(op, operand) # None
  PROVE  /\ Eval!ImmediateOf(op, operand) \in Int
         /\ Eval!Bits(Eval!Unsigned(Eval!ImmediateOf(op, operand)), WordWidth) = ExtendedBits(op, operand.value)
<1> DEFINE v == Eval!ImmediateOf(op, operand)
           n == operand.value
<1>1. n \in Int /\ (operand.form = "hex" => n \in Nat)
  BY DEF Eval!OperandTexts
<1>2. CASE op \in Eval!ShiftOps
  <2>1. v = n /\ n \in 0 .. FieldSize(ShiftBits) - 1
    BY <1>1, <1>2, Sizes DEF Eval!ImmediateOf, FieldSize
  <2>2. Eval!Bits(Eval!Unsigned(n), WordWidth) = Eval!Bits(n, ShiftBits)
    BY <1>1, <2>1, WordsHaveTheBits, ShiftAmountIs
  <2>3. ExtendedBits(op, n) = Eval!Bits(n, ShiftBits)
    BY <1>2 DEF ExtendedBits
  <2> QED BY <1>1, <2>1, <2>2, <2>3
<1>3. CASE op \notin Eval!ShiftOps
  <2> DEFINE h == FieldSize(ImmediateBits - 1)
             f == FieldSize(ImmediateBits)
  <2>1. h \in Nat \ {0} /\ f = 2 * h
    BY Sizes
  <2>2. \/ operand.form = "hex" /\ n \in 0 .. f - 1 /\ v = (IF n >= h THEN n - f ELSE n)
        \/ operand.form = "decimal" /\ n \in -h .. h - 1 /\ v = n
    <3>1. operand.form \in {"hex", "decimal", "malformed"}
      BY DEF Eval!OperandTexts
    <3>2. CASE operand.form = "hex"
      <4>1. n < f /\ v = Eval!SignExtended(n)
        BY <1>3, <3>2 DEF Eval!ImmediateOf, FieldSize
      <4>2. v = (IF n >= h THEN n - f ELSE n)
        BY <4>1 DEF Eval!SignExtended, FieldSize
      <4> HIDE DEF v, h, f
      <4> QED BY <1>1, <2>1, <3>2, <4>1, <4>2
    <3>3. CASE operand.form = "decimal"
      BY <1>3, <3>3 DEF Eval!ImmediateOf, FieldSize
    <3>4. CASE operand.form = "malformed"
      BY <1>3, <3>4 DEF Eval!ImmediateOf
    <3> QED BY <3>1, <3>2, <3>3, <3>4
  <2> HIDE DEF v, h, f
  <2>3. \E w \in {0, 0 - 1} : v = n + w * f
    <3>1. CASE v = n
      <4>1. n + 0 * f = n
        BY <1>1, <2>1
      <4> QED BY <3>1, <4>1
    <3>2. CASE v = n - f
      <4>1. n + (0 - 1) * f = n - f
        BY <1>1, <2>1
      <4> QED BY <3>2, <4>1
    <3> QED BY <2>2, <3>1, <3>2
  <2>4. v \in -h .. h - 1 /\ v \in Int
    BY <1>1, <2>1, <2>2
  <2>5. Eval!Bits(v, WordWidth) =
          Eval!Bits(n, ImmediateBits)
            \cup (IF ImmediateBits - 1 \in Eval!Bits(n, ImmediateBits) THEN ImmediateBits .. WordWidth - 1 ELSE {})
    BY <1>1, <2>3, <2>4, ExtensionIs DEF h, f
  <2>6. Eval!Bits(Eval!Unsigned(v), WordWidth) = Eval!Bits(v, WordWidth)
    BY <2>4, WordsHaveTheBits
  <2>7. ExtendedBits(op, n) = Eval!Bits(n, ImmediateBits)
            \cup (IF ImmediateBits - 1 \in Eval!Bits(n, ImmediateBits) THEN ImmediateBits .. WordWidth - 1 ELSE {})
    BY <1>3 DEF ExtendedBits
  <2> QED BY <2>4, <2>5, <2>6, <2>7 DEF v
<1> QED BY <1>2, <1>3

\* What is shown of a case says what was asked and what comes of it.
RowIsRight(asked, row) ==
  LET second == IF asked.imm = None THEN row.rs2 ELSE Eval!Unsigned(row.imm)
  IN /\ row.op = asked.op
     /\ Eval!Bits(row.rs1, WordWidth) = Eval!Bits(asked.rs1.value, WordWidth)
     /\ asked.imm = None => Eval!Bits(second, WordWidth) = Eval!Bits(asked.rs2.value, WordWidth)
     /\ asked.imm # None => Eval!Bits(second, WordWidth) = ExtendedBits(asked.op, asked.imm.value)
     /\ row.rd = Eval!Alu(row.op, row.rs1, second)
     /\ Eval!Unsigned(row.signed) = row.rd /\ row.zero = (row.signed = 0)

ResultOf(o) == Eval!Alu(Eval!Line(o).op, Eval!Line(o).t0, Eval!Line(o).operand)

LEMMA WordIs ==
  ASSUME Eval!EvalAssumption, NEW operand \in Eval!OperandTexts, Eval!WordOf(operand) # None
  PROVE  /\ Eval!WordOf(operand) \in 0 .. WordSize - 1
         /\ Eval!Bits(Eval!WordOf(operand), WordWidth) = Eval!Bits(operand.value, WordWidth)
<1>1. operand.value \in Int
  BY DEF Eval!OperandTexts
<1>2. Eval!WordOf(operand) = Eval!Unsigned(operand.value)
  BY DEF Eval!WordOf
<1> QED BY <1>1, <1>2, WordsHaveTheBits

LEMMA ShownIsRight ==
  ASSUME Eval!EvalAssumption, NEW asked \in Eval!Cases, Eval!Accepts(asked)
  PROVE  /\ RowIsRight(asked, Eval!Row(Eval!Operands(asked), ResultOf(Eval!Operands(asked))))
         /\ ResultOf(Eval!Operands(asked)) \in Nat
<1> DEFINE o == Eval!Operands(asked)
           rd == ResultOf(o)
           row == Eval!Row(o, rd)
           a == Eval!WordOf(asked.rs1)
           second == IF asked.imm = None THEN row.rs2 ELSE Eval!Unsigned(row.imm)
           y == Eval!Line(o).operand
<1>1. /\ asked.op \in Eval!RegisterOps \cup Eval!ImmediateOps /\ asked.rs1 \in Eval!OperandTexts
      /\ asked.rs2 \in Eval!OperandTexts \cup {None} /\ asked.imm \in Eval!OperandTexts \cup {None}
      /\ None \notin Int
  BY DEF Eval!Cases, Eval!EvalAssumption
<1>2. a \in 0 .. WordSize - 1 /\ Eval!Bits(a, WordWidth) = Eval!Bits(asked.rs1.value, WordWidth)
  BY <1>1, WordIs DEF Eval!Accepts
<1>3. o.op = asked.op /\ o.a = a
  BY DEF Eval!Operands
<1>4. /\ row.op = o.op /\ row.rs1 = o.a /\ row.rs2 = (IF o.imm = None THEN o.b ELSE None) /\ row.imm = o.imm
      /\ row.rd = rd /\ row.signed = Eval!Signed(rd) /\ row.zero = (rd = 0)
  BY DEF Eval!Row
<1>5. rd = Eval!Alu(o.op, Eval!Signed(o.a), y) /\ y = (IF o.imm = None THEN Eval!Signed(o.b) ELSE o.imm)
  BY DEF ResultOf, Eval!Line
<1>6. /\ y \in Int /\ second \in 0 .. WordSize - 1 /\ Eval!Unsigned(y) = second
      /\ asked.imm = None => Eval!Bits(second, WordWidth) = Eval!Bits(asked.rs2.value, WordWidth)
      /\ asked.imm # None => Eval!Bits(second, WordWidth) = ExtendedBits(asked.op, asked.imm.value)
  <2>1. CASE asked.imm = None
    <3> DEFINE b == Eval!WordOf(asked.rs2)
    <3>1. asked.rs2 \in Eval!OperandTexts /\ b # None
      BY <1>1, <2>1 DEF Eval!Accepts
    <3>2. b \in 0 .. WordSize - 1 /\ Eval!Bits(b, WordWidth) = Eval!Bits(asked.rs2.value, WordWidth)
      BY <3>1, WordIs
    <3>3. o.imm = None /\ o.b = b
      BY <2>1 DEF Eval!Operands
    <3> HIDE DEF b, o, row, y
    <3>4. second = b /\ y = Eval!Signed(b)
      BY <1>4, <1>5, <2>1, <3>3
    <3>5. y \in Int /\ Eval!Unsigned(y) = b
      BY <3>2, <3>4, SignedIsTheWord
    <3> QED BY <2>1, <3>2, <3>4, <3>5
  <2>2. CASE asked.imm # None
    <3> DEFINE v == Eval!ImmediateOf(asked.op, asked.imm)
    <3>1. asked.imm \in Eval!OperandTexts /\ asked.op \in Eval!ImmediateOps /\ v # None
      BY <1>1, <2>2 DEF Eval!Accepts
    <3>2. v \in Int /\ Eval!Bits(Eval!Unsigned(v), WordWidth) = ExtendedBits(asked.op, asked.imm.value)
      BY <3>1, ImmediateIs
    <3>3. o.imm = v
      BY <2>2 DEF Eval!Operands
    <3> HIDE DEF v, o, row, y
    <3>4. second = Eval!Unsigned(v) /\ y = v
      BY <1>4, <1>5, <2>2, <3>1, <3>3
    <3>5. Eval!Unsigned(v) \in 0 .. WordSize - 1
      BY <3>2, WordsHaveTheBits
    <3> QED BY <2>2, <3>2, <3>4, <3>5
  <2> QED BY <2>1, <2>2
<1> HIDE DEF a, y, row, o, second
<1>7. /\ Eval!Signed(a) \in Int /\ a \in Int /\ Eval!Unsigned(Eval!Signed(a)) = Eval!Unsigned(a)
      /\ second \in Int /\ Eval!Unsigned(y) = Eval!Unsigned(second)
  BY <1>2, <1>6, SignedIsTheWord
<1>8. rd = Eval!Alu(asked.op, a, second) /\ rd \in 0 .. WordSize - 1
  BY <1>1, <1>3, <1>5, <1>6, <1>7, AluOfWords
<1> HIDE DEF rd
<1>9. Eval!Unsigned(Eval!Signed(rd)) = rd /\ (Eval!Signed(rd) = 0 <=> rd = 0)
  BY <1>8, SignedIsTheWord
<1>10. row.zero = (row.signed = 0)
  BY <1>4, <1>9
<1>11. RowIsRight(asked, row)
  BY <1>2, <1>3, <1>4, <1>6, <1>8, <1>9, <1>10 DEF RowIsRight, second
<1>12. rd \in Nat
  BY <1>8
<1> QED BY <1>11, <1>12 DEF row, o, rd

\* The rows of the answer are those of the cases, all of them or none.
LEMMA RowsShown ==
  ASSUME Eval!EvalAssumption, cases \in Seq(Eval!Cases), \A k \in DOMAIN cases : Eval!Accepts(cases[k]),
         NEW words, words \in Eval!Dumped(Eval!Stored(Eval!Program([k \in DOMAIN cases |-> Eval!Operands(cases[k])]))),
         NEW answer, answer = Eval!Shown([k \in DOMAIN cases |-> Eval!Operands(cases[k])], words),
         answer.kind = "results"
  PROVE  Len(answer.rows) = Len(cases) /\ \A k \in DOMAIN cases : RowIsRight(cases[k], answer.rows[k])
<1> DEFINE operands == [k \in DOMAIN cases |-> Eval!Operands(cases[k])]
           stored == Eval!Stored(Eval!Program(operands))
           n == Len(cases)
<1>1. n \in Nat /\ DOMAIN cases = 1 .. n /\ \A k \in 1 .. n : cases[k] \in Eval!Cases /\ Eval!Accepts(cases[k])
  OBVIOUS
<1>2. stored = [k \in 1 .. n |-> ResultOf(operands[k])] /\ operands = [k \in 1 .. n |-> Eval!Operands(cases[k])]
  BY <1>1 DEF Eval!Stored, Eval!Program, ResultOf
<1>3. \A k \in 1 .. n : RowIsRight(cases[k], Eval!Row(operands[k], stored[k])) /\ stored[k] \in Nat
  BY <1>1, <1>2, ShownIsRight
<1> HIDE DEF operands, stored, n
<1>4. stored \in Seq(Nat) /\ Len(stored) = n
  BY <1>1, <1>2, <1>3
<1>5. Len(operands) = n
  BY <1>1, <1>2
<1>6. PICK m \in 0 .. n : words = SubSeq(stored, 1, m)
  BY <1>4 DEF Eval!Dumped, operands, stored
<1>7. Len(words) = m /\ words \in Seq(Nat)
  BY <1>1, <1>4, <1>6
<1>8. m = n /\ answer = Eval!Results([k \in DOMAIN words |-> Eval!Row(operands[k], words[k])])
  BY <1>5, <1>7 DEF Eval!Shown, Eval!RunFailed, operands
<1>9. DOMAIN words = 1 .. n /\ \A k \in 1 .. n : words[k] = stored[k]
  BY <1>1, <1>4, <1>6, <1>7, <1>8
<1>10. answer.rows = [k \in 1 .. n |-> Eval!Row(operands[k], stored[k])]
  BY <1>8, <1>9 DEF Eval!Results
<1>11. Len(answer.rows) = n
  BY <1>1, <1>10
<1>12. \A k \in DOMAIN cases : RowIsRight(cases[k], answer.rows[k])
  BY <1>1, <1>3, <1>10
<1> QED BY <1>11, <1>12 DEF n

LEMMA EvalShows ==
  ASSUME Eval!EvalAssumption, cases \in Requests, Eval!Eval
  PROVE  Eval!EvaluatesWhatWasAsked'
<1>1. cases \in Seq(Eval!Cases) /\ cases' = cases
  BY DEF Eval!EvalAssumption, Eval!Eval
<1>2. CASE shown' \in {Eval!Refused, Eval!RunFailed}
  BY <1>2 DEF Eval!EvaluatesWhatWasAsked, Eval!Refused, Eval!RunFailed
<1>3. CASE shown' \notin {Eval!Refused, Eval!RunFailed} /\ shown'.kind = "results"
  <2>1. (\A k \in DOMAIN cases : Eval!Accepts(cases[k])) /\
        \E words \in Eval!Dumped(Eval!Stored(Eval!Program([k \in DOMAIN cases |-> Eval!Operands(cases[k])]))) :
          shown' = Eval!Shown([k \in DOMAIN cases |-> Eval!Operands(cases[k])], words)
    BY <1>3 DEF Eval!Eval
  <2>2. Len(shown'.rows) = Len(cases) /\ \A k \in DOMAIN cases : RowIsRight(cases[k], shown'.rows[k])
    BY <1>1, <1>3, <2>1, RowsShown
  <2>3. shown'.kind = "results" /\ Len(shown'.rows) = Len(cases')
        /\ \A k \in DOMAIN cases' : RowIsRight(cases[k], shown'.rows[k])
    BY <1>1, <1>3, <2>2
  <2> QED BY <1>1, <2>3 DEF Eval!EvaluatesWhatWasAsked, RowIsRight, ExtendedBits
<1>4. CASE shown'.kind # "results"
  BY <1>4 DEF Eval!EvaluatesWhatWasAsked
<1> QED BY <1>2, <1>3, <1>4

-----------------------------------------------------------------------------
(* The decoder and rars_eval among the parts *)

LEMMA StepOfTheWords ==
  ASSUME [PartsNext]_partsVars
  PROVE  /\ part' = part
         /\ part = "eval" => Eval!Eval \/ UNCHANGED evalVars
         /\ part = "decode" => Decode!Decode \/ UNCHANGED decodeVars
<1>1. CASE UNCHANGED partsVars
  BY <1>1 DEF partsVars, serverVars, bridgeVars
<1>2. CASE PartsNext
  BY <1>2 DEF PartsNext, Client, Vhdl, Evaluate, Assemble, Capture, Disassemble, serverVars, bridgeVars
<1> QED BY <1>1, <1>2

\* Not decoded yet, or into the fields of the word's format.
Decoded ==
  /\ word \subseteq 0 .. 31
  /\ \/ format = "none" /\ fields = <<>>
     \/ format = Decode!FormatOf(Decode!Opcode) /\ fields = Decode!FieldsOf(format)
WordsInv ==
  /\ part = "eval" => cases \in Requests /\ Eval!EvaluatesWhatWasAsked
  /\ part = "decode" => Decoded

LEMMA DecodeKeeps ==
  ASSUME Decoded, Decode!Decode \/ UNCHANGED decodeVars
  PROVE  Decoded'
<1>1. word' = word /\ rv64' = rv64
  BY DEF Decode!Decode, decodeVars
<1>2. /\ \A high, low : Decode!Bits(high, low)' = Decode!Bits(high, low)
      /\ Decode!Bits(31, 25)' = Decode!Bits(31, 25) /\ Decode!Bits(26, 25)' = Decode!Bits(26, 25)
      /\ Decode!Bits(31, 27)' = Decode!Bits(31, 27) /\ Decode!Bits(31, 12)' = Decode!Bits(31, 12)
      /\ Decode!Bits(25, 20)' = Decode!Bits(25, 20) /\ Decode!Bits(31, 26)' = Decode!Bits(31, 26)
      /\ Decode!Bits(24, 20)' = Decode!Bits(24, 20)
  BY <1>1 DEF Decode!Bits
<1>3. /\ Decode!SignedFrom(20)' = Decode!SignedFrom(20) /\ Decode!StoreOffset' = Decode!StoreOffset
      /\ Decode!BranchOffset' = Decode!BranchOffset /\ Decode!JumpOffset' = Decode!JumpOffset
  BY <1>1 DEF Decode!SignedFrom, Decode!StoreOffset, Decode!BranchOffset, Decode!JumpOffset, Decode!Bits
<1>4. /\ Decode!Opcode' = Decode!Opcode /\ Decode!Funct3' = Decode!Funct3 /\ Decode!Rd' = Decode!Rd
      /\ Decode!Rs1' = Decode!Rs1 /\ Decode!Rs2' = Decode!Rs2 /\ Decode!CsrNumber' = Decode!CsrNumber
  BY <1>1 DEF Decode!Opcode, Decode!Funct3, Decode!Rd, Decode!Rs1, Decode!Rs2, Decode!CsrNumber, Decode!Bits
<1>5. /\ Decode!IsShift' = Decode!IsShift /\ Decode!IsCsr' = Decode!IsCsr /\ Decode!ShiftWidth' = Decode!ShiftWidth
      /\ Decode!FormatOf(Decode!Opcode)' = Decode!FormatOf(Decode!Opcode)
  BY <1>1, <1>4 DEF Decode!IsShift, Decode!IsCsr, Decode!ShiftWidth, Decode!FormatOf
<1>6. Decode!ShiftFields' = Decode!ShiftFields /\ Decode!CsrFields' = Decode!CsrFields
  BY <1>2, <1>4, <1>5 DEF Decode!ShiftFields, Decode!CsrFields
<1>7. Decode!FieldsOf(format)' = Decode!FieldsOf(format')
  BY <1>2, <1>3, <1>4, <1>5, <1>6 DEF Decode!FieldsOf
<1>8. word' \subseteq 0 .. 31
  BY <1>1 DEF Decoded
<1>9. CASE Decode!Decode
  <2>1. format' = Decode!FormatOf(Decode!Opcode)' /\ fields' = Decode!FieldsOf(format)'
    BY <1>5, <1>7, <1>9 DEF Decode!Decode
  <2> QED BY <1>8, <2>1 DEF Decoded
<1>10. CASE UNCHANGED decodeVars
  <2>1. format' = format /\ fields' = fields
    BY <1>10 DEF decodeVars
  <2>2. \/ format' = "none" /\ fields' = <<>>
        \/ format' = Decode!FormatOf(Decode!Opcode)' /\ fields' = Decode!FieldsOf(format)'
    BY <1>5, <1>7, <2>1 DEF Decoded
  <2> QED BY <1>8, <2>2 DEF Decoded
<1> QED BY <1>9, <1>10

(***************************************************************************)
(* For every word, the fields of its format put back where the RISC-V      *)
(* manual has them are the word again, with nothing else in them but the   *)
(* sign of an immediate (sim/InstructionDecoder.java, decode); and for     *)
(* every width of the ALU and every request, rars_eval answers each case   *)
(* with the operands as they were written, or none (tools/eval.ts).        *)
(***************************************************************************)
THEOREM WordsKeepTheirBits == PartsSpec => []BitsRight
<1> USE PartsAssumption
<1>1. PartsInit => WordsInv
  <2>1. PartsInit /\ part = "eval" => cases \in Requests /\ Eval!EvaluatesWhatWasAsked
    <3>1. PartsInit /\ part = "eval" => Eval!Init
      BY DEF PartsInit
    <3>2. Eval!Init => cases \in Requests /\ shown = Eval!NotYet
      BY DEF Eval!Init
    <3>3. Eval!NotYet.kind # "results"
      BY DEF Eval!NotYet
    <3> QED BY <3>1, <3>2, <3>3 DEF Eval!EvaluatesWhatWasAsked
  <2>2. PartsInit /\ part = "decode" => Decoded
    BY DEF PartsInit, Decode!Init, Decode!WordsAssumption, Decoded
  <2> QED BY <2>1, <2>2 DEF WordsInv
<1>2. WordsInv /\ [PartsNext]_partsVars => WordsInv'
  <2> SUFFICES ASSUME WordsInv, [PartsNext]_partsVars PROVE WordsInv'
    OBVIOUS
  <2>1. ASSUME part' = "eval" PROVE (cases \in Requests /\ Eval!EvaluatesWhatWasAsked)'
    <3>1. cases \in Requests /\ Eval!EvaluatesWhatWasAsked /\ (Eval!Eval \/ UNCHANGED evalVars)
      BY <2>1, StepOfTheWords DEF WordsInv
    <3>2. CASE Eval!Eval
      <4>1. cases' = cases
        BY <3>2 DEF Eval!Eval
      <4> QED BY <3>1, <3>2, <4>1, EvalShows
    <3>3. CASE UNCHANGED evalVars
      BY <3>1, <3>3 DEF evalVars, Eval!EvaluatesWhatWasAsked
    <3> QED BY <3>1, <3>2, <3>3
  <2>2. ASSUME part' = "decode" PROVE Decoded'
    BY <2>2, StepOfTheWords, DecodeKeeps DEF WordsInv
  <2> QED BY <2>1, <2>2 DEF WordsInv
<1>3. WordsInv => BitsRight
  <2>1. ASSUME Decoded PROVE Decode!FieldsMakeTheWord /\ Decode!ImmediatesKeepTheSign
    <3>1. CASE format = "none" /\ fields = <<>>
      BY <3>1 DEF Decode!FieldsMakeTheWord, Decode!ImmediatesKeepTheSign, Decode!Signed
    <3>2. CASE format = Decode!FormatOf(Decode!Opcode) /\ fields = Decode!FieldsOf(format)
      BY <2>1, <3>2, DecodedRight DEF Decoded
    <3> QED BY <2>1, <3>1, <3>2 DEF Decoded
  <2> QED BY <2>1 DEF WordsInv, BitsRight
<1> QED BY <1>1, <1>2, <1>3, PTL DEF PartsSpec
=============================================================================
