------------------------------- MODULE DoFileRun -------------------------------
(***************************************************************************)
(* The runner around a dry run (runDoFile and runStubs, vhdl/dofile.ts):   *)
(* it reads tclsh's messages, answers each lookup through the workspace,   *)
(* one after the other, and settles once tclsh is gone and the lookups are *)
(* done.  tclsh runs DoFileScript: it writes messages, waits for the       *)
(* answer to each lookup, ends with "done" and 0, or crashes anywhere.     *)
(***************************************************************************)
EXTENDS Naturals, Sequences, SequencesExt

CONSTANTS
  Limit,        \* messages that fit maxOutputBytes
  MaxMessages,  \* bounds the messages of a script
  None

VARIABLES
  child,     \* "running", "waiting" (for an answer), "killed", "gone" or "missing"
  out,       \* messages written and not read yet
  exit,      \* how tclsh ended: 0, 1, or None while it runs or when a signal ended it
  answers,   \* answers in the pipe to tclsh: it reads the first
  steps, errors,  \* the messages collected
  captured,  \* messages read
  complained, \* what was kept of stderr, in the same limit
  partial,   \* the last line read is incomplete
  finished, timedOut, truncated, timer,
  failure, stdinError,
  lookups,   \* the lookups in the chain; the first one is being located
  settled,   \* "no", "whole", "cut" (an error says why), "rejected"
  directory, \* the folder of the stubs is there
  written    \* history: the messages tclsh wrote, in order

vars == <<child, out, exit, answers, steps, errors, captured, complained, partial, finished, timedOut, truncated,
          timer, failure, stdinError, lookups, settled, directory, written>>

Kinds == {"step", "error", "done", "lookup", "garbage", "fragment"}
Message(kind) == [kind |-> kind, id |-> Len(written) + 1]
Messages == [kind : Kinds, id : Nat]

TypeOK ==
  /\ child \in {"running", "waiting", "killed", "gone", "missing"}
  /\ {out, steps, errors, lookups, written} \subseteq Seq(Messages)
  /\ exit \in {0, 1, None}
  /\ answers \in Seq({"ok", "refused"}) /\ Len(answers) <= 1
  /\ Len(lookups) <= 1
  /\ captured \in 0 .. Limit /\ complained \in 0 .. Limit - captured
  /\ {partial, finished, timedOut, truncated, timer, failure, stdinError, directory} \subseteq BOOLEAN
  /\ settled \in {"no", "whole", "cut", "rejected"}

Init ==
  /\ child = "running" /\ out = <<>> /\ exit = None /\ answers = <<>>
  /\ steps = <<>> /\ errors = <<>> /\ captured = 0 /\ complained = 0
  /\ partial = FALSE /\ finished = FALSE /\ timedOut = FALSE /\ truncated = FALSE
  /\ timer = TRUE /\ failure = FALSE /\ stdinError = FALSE
  /\ lookups = <<>> /\ settled = "no" /\ directory = TRUE /\ written = <<>>

Runner == <<steps, errors, captured, complained, partial, finished, timedOut, truncated, timer, failure,
            stdinError, lookups, settled, directory>>
Killed(state) == IF state \in {"running", "waiting"} THEN "killed" ELSE state
-----------------------------------------------------------------------------
\* tclsh.
Wrote(kind) == \E k \in DOMAIN written : written[k].kind = kind
Emits ==
  /\ child = "running" /\ ~Wrote("done") /\ ~Wrote("fragment") /\ Len(written) < MaxMessages
  /\ \E kind \in Kinds :
       /\ out' = Append(out, Message(kind)) /\ written' = Append(written, Message(kind))
       /\ child' = IF kind = "lookup" THEN "waiting" ELSE child
  /\ UNCHANGED <<exit, answers, Runner>>
TakesAnswer ==
  /\ child = "waiting" /\ answers # <<>>
  /\ child' = "running" /\ answers' = Tail(answers)
  /\ UNCHANGED <<out, exit, written, Runner>>
\* The script ends, is killed by somebody, or dies of the runner's signal.
Ends ==
  /\ child \in {"running", "waiting", "killed"}
  /\ child' = "gone"
  /\ exit' \in IF child = "killed" THEN {None} ELSE IF Wrote("done") THEN {0, 1} ELSE {1, None}
  /\ UNCHANGED <<out, answers, written, Runner>>
DiesOfSignal == child = "killed" /\ Ends
-----------------------------------------------------------------------------
\* handle: one line.  What follows on the same chunk is handled even after a failure.
OfKind(lines, kind) ==
  LET picked[n \in 0 .. Len(lines)] ==
        IF n = 0 THEN <<>>
        ELSE IF lines[n].kind = kind THEN Append(picked[n - 1], lines[n]) ELSE picked[n - 1]
  IN picked[Len(lines)]
Handle(lines) ==
  LET bad == OfKind(lines, "garbage") # <<>> IN
  /\ steps' = steps \o OfKind(lines, "step")
  /\ errors' = errors \o OfKind(lines, "error")
  /\ finished' = (finished \/ OfKind(lines, "done") # <<>>)
  /\ lookups' = lookups \o OfKind(lines, "lookup")
  /\ failure' = (failure \/ bad)
  /\ partial' = (OfKind(lines, "fragment") # <<>>)

\* capture: stdout and stderr share the limit.
Room == Limit - captured - complained
Least(a, b) == IF a < b THEN a ELSE b
Fitting(chunk) == SubSeq(chunk, 1, Least(Len(chunk), Room))

\* A chunk of stdout: nothing more is handled once the output was cut or a line was bad.
Data ==
  /\ settled = "no" /\ out # <<>>
  /\ \E n \in 1 .. Len(out) :
       LET chunk == SubSeq(out, 1, n) IN
       /\ out' = SubSeq(out, n + 1, Len(out))
       /\ IF truncated \/ failure
          THEN UNCHANGED <<steps, errors, captured, partial, finished, truncated, failure, lookups, child>>
          ELSE /\ Handle(Fitting(chunk))
               /\ captured' = captured + Len(Fitting(chunk))
               /\ truncated' = (n > Room)
               /\ child' = IF truncated' \/ failure' THEN Killed(child) ELSE child
  /\ UNCHANGED <<exit, answers, complained, timedOut, timer, stdinError, settled, directory, written>>

\* A chunk of stderr, of which only the size matters here, up to one that fits no limit.
Complaint ==
  /\ settled = "no" /\ (timer \/ timedOut)
  /\ \E n \in 1 .. Limit + 1 :
       /\ complained' = complained + Least(n, Room)
       /\ truncated' = (truncated \/ n > Room)
       /\ child' = IF n > Room THEN Killed(child) ELSE child
  /\ UNCHANGED <<out, exit, answers, steps, errors, captured, partial, finished, timedOut, timer, failure,
                 stdinError, lookups, settled, directory, written>>

Answered(answer) == Append(answers, answer)

\* locate answers or refuses a path, and the answer is written; it fails on anything else.
Located ==
  /\ lookups # <<>> /\ lookups' = Tail(lookups)
  /\ \/ /\ child # "gone"
        /\ \E answer \in {"ok", "refused"} : answers' = Answered(answer)
        /\ UNCHANGED <<child, failure, stdinError>>
     \/ child = "gone" /\ stdinError' = TRUE /\ UNCHANGED <<child, answers, failure>>
     \/ failure' = TRUE /\ child' = Killed(child) /\ UNCHANGED <<answers, stdinError>>
  /\ UNCHANGED <<out, exit, steps, errors, captured, complained, partial, finished, timedOut, truncated, timer,
                 settled, directory, written>>

AtTimeout == Killed(child)

TimerFires ==
  /\ timer
  /\ timer' = FALSE /\ timedOut' = TRUE /\ child' = AtTimeout
  /\ UNCHANGED <<out, exit, answers, steps, errors, captured, complained, partial, finished, truncated, failure,
                 stdinError, lookups, settled, directory, written>>

\* tclsh cannot be run.
SpawnError ==
  /\ child = "running" /\ written = <<>> /\ complained = 0 /\ ~truncated /\ timer
  /\ child' = "missing" /\ timer' = FALSE /\ settled' = "rejected" /\ directory' = FALSE
  /\ UNCHANGED <<out, exit, answers, steps, errors, captured, complained, partial, finished, timedOut, truncated,
                 failure, stdinError, lookups, written>>

\* The pipes of a tclsh that is gone are empty.
Close ==
  /\ child = "gone" /\ out = <<>> /\ settled = "no" /\ timer
  /\ timer' = FALSE
  /\ UNCHANGED <<child, out, exit, answers, steps, errors, captured, complained, partial, finished, timedOut,
                 truncated, failure, stdinError, lookups, settled, directory, written>>

\* Faulty variant: the run settles without the lookups.
LookupsLeft == TRUE
LookupsDone == lookups = <<>>
EndedWell == finished /\ exit = 0 /\ ~partial

\* After close, and after the lookups: what the run comes to.  The folder goes with it.
Settle ==
  /\ child = "gone" /\ out = <<>> /\ ~timer /\ settled = "no" /\ LookupsDone
  /\ settled' = CASE failure -> "rejected"
                  [] ~failure /\ (timedOut \/ truncated) -> "cut"
                  [] ~failure /\ ~timedOut /\ ~truncated ->
                       IF EndedWell /\ ~stdinError THEN "whole" ELSE "rejected"
  /\ directory' = FALSE
  /\ UNCHANGED <<child, out, exit, answers, steps, errors, captured, complained, partial, finished, timedOut,
                 truncated, timer, failure, stdinError, lookups, written>>

Next == Emits \/ TakesAnswer \/ Ends \/ Data \/ Complaint \/ Located \/ TimerFires \/ SpawnError \/ Close \/ Settle

\* Callbacks are called, the workspace answers a lookup, and SIGKILL ends tclsh.
Fairness ==
  /\ WF_vars(Data) /\ WF_vars(Located) /\ WF_vars(TimerFires)
  /\ WF_vars(Close) /\ WF_vars(Settle) /\ WF_vars(DiesOfSignal)
Spec == Init /\ [][Next]_vars /\ Fairness
-----------------------------------------------------------------------------
(***************************************************************************)
(* A dry run reported with no error of the runner's own is a whole one:    *)
(* tclsh ran to its end, and every step and every error it reported is     *)
(* there, in order.                                                        *)
(***************************************************************************)
WholeIsWhole == settled = "whole" =>
  /\ Wrote("done") /\ exit = 0
  /\ steps = OfKind(written, "step") /\ errors = OfKind(written, "error")

(***************************************************************************)
(* What a run that was cut short reports is where the script got to: its   *)
(* first steps and its first errors, and none of them twice.               *)
(***************************************************************************)
CutIsPrefix == settled = "cut" =>
  IsPrefix(steps, OfKind(written, "step")) /\ IsPrefix(errors, OfKind(written, "error"))

(***************************************************************************)
(* When the run settles, tclsh is gone, no lookup is still under way, and  *)
(* the folder of the stubs, which tclsh reads from, goes only then.        *)
(***************************************************************************)
NothingLeft ==
  /\ settled # "no" => child \in {"gone", "missing"} /\ lookups = <<>>
  /\ ~directory => child \in {"gone", "missing"}

(***************************************************************************)
(* tclsh waits for an answer to its last lookup only while the runner has  *)
(* that lookup, or has not read it, or has answered it, or is about to end *)
(* the run: the two never wait for each other.                             *)
(***************************************************************************)
NobodyWaitsForNothing == child = "waiting" =>
  lookups # <<>> \/ answers # <<>> \/ OfKind(out, "lookup") # <<>>

(***************************************************************************)
(* Every run settles, also of a script that waits or writes for ever.      *)
(***************************************************************************)
RunSettles == <>(settled # "no")
=============================================================================
