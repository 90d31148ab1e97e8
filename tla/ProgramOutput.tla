---------------------------- MODULE ProgramOutput ----------------------------
(***************************************************************************)
(* One run's stdout and stderr (sim/ProgramOutput.java): a limit the two   *)
(* share, and takes that hand over, as text, what was written since the    *)
(* last one.  A character may be written one byte at a time: here it is    *)
(* one byte ("one") or two ("lead", "tail"), and a byte that is part of no *)
(* character reads as a replacement.                                       *)
(***************************************************************************)
EXTENDS Naturals, Sequences, SequencesExt

CONSTANTS
  Limit,     \* the most bytes one run keeps
  MaxBytes,  \* bounds the bytes a program writes
  MaxChunk   \* bounds the bytes of one write

\* Assumed of the constants where they are given values.
OutputAssumption == Limit \in Nat \ {0} /\ MaxBytes \in Nat /\ MaxChunk \in Nat

VARIABLES
  buffer,     \* each stream's bytes kept and not handed over
  kept,       \* how many bytes of both were kept
  truncated,  \* some were dropped
  takenBytes, \* each stream's bytes handed over
  text,       \* history: the text handed over
  wrote,      \* history: all the bytes of each stream that fitted the limit
  total,      \* history: how many bytes were written
  run         \* history: "running", "ended" at the last take, or "resumed" since

vars == <<buffer, kept, truncated, takenBytes, text, wrote, total, run>>

Streams == {"stdout", "stderr"}
Bytes == {"one", "lead", "tail"}
Chars == {"narrow", "wide", "replacement"}

TypeOK ==
  /\ buffer \in [Streams -> Seq(Bytes)] /\ wrote \in [Streams -> Seq(Bytes)]
  /\ kept \in 0 .. Limit /\ total \in Nat
  /\ truncated \in BOOLEAN
  /\ takenBytes \in [Streams -> Nat]
  /\ text \in [Streams -> Seq(Chars)]
  /\ run \in {"running", "ended", "resumed"}

Init ==
  /\ buffer = [s \in Streams |-> <<>>] /\ wrote = buffer
  /\ kept = 0 /\ total = 0 /\ truncated = FALSE
  /\ takenBytes = [s \in Streams |-> 0]
  /\ text = [s \in Streams |-> <<>>]
  /\ run = "running"

Room(s) == Limit - kept

\* The program writes; what is past the limit is dropped.  One that ended was stepped back.
Write(s, bytes) ==
  /\ total + Len(bytes) <= MaxBytes
  /\ LET fitting == SubSeq(bytes, 1, IF Len(bytes) < Room(s) THEN Len(bytes) ELSE Room(s)) IN
       /\ buffer' = [buffer EXCEPT ![s] = @ \o fitting]
       /\ wrote' = [wrote EXCEPT ![s] = @ \o fitting]
       /\ kept' = kept + Len(fitting)
       /\ truncated' = (truncated \/ Len(fitting) < Len(bytes))
  /\ total' = total + Len(bytes)
  /\ run' = IF run = "ended" THEN "resumed" ELSE run
  /\ UNCHANGED <<takenBytes, text>>

\* What the byte at i reads as; the tail of a character was read with its lead.
CharAt(bytes, i) ==
  LET tailNext == i < Len(bytes) /\ bytes[i + 1] = "tail"
      leadBefore == i > 1 /\ bytes[i - 1] = "lead"
  IN CASE bytes[i] = "one" -> <<"narrow">>
       [] bytes[i] = "lead" -> IF tailNext THEN <<"wide">> ELSE <<"replacement">>
       [] bytes[i] = "tail" -> IF leadBefore THEN <<>> ELSE <<"replacement">>
Decoded(bytes) == FlattenSeq([i \in DOMAIN bytes |-> CharAt(bytes, i)])

\* Faulty variant: a take hands over every byte.
UsedAll(bytes, finished) == Len(bytes)
\* A last byte whose character may still be completed waits, unless it cannot be.
Used(bytes, finished) ==
  IF ~finished /\ bytes # <<>> /\ Last(bytes) = "lead" THEN Len(bytes) - 1 ELSE Len(bytes)

Finished(ended) == ended \/ kept = Limit

Take(ended) ==
  /\ LET used == [s \in Streams |-> Used(buffer[s], Finished(ended))] IN
       /\ text' = [s \in Streams |-> text[s] \o Decoded(SubSeq(buffer[s], 1, used[s]))]
       /\ takenBytes' = [s \in Streams |-> takenBytes[s] + used[s]]
       /\ buffer' = [s \in Streams |-> SubSeq(buffer[s], used[s] + 1, Len(buffer[s]))]
  /\ run' = IF ended /\ run # "resumed" THEN "ended" ELSE run
  /\ UNCHANGED <<kept, truncated, wrote, total>>

Next ==
  \/ \E s \in Streams, bytes \in BoundedSeq(Bytes, MaxChunk) : bytes # <<>> /\ Write(s, bytes)
  \/ \E ended \in BOOLEAN : Take(ended)

Spec == Init /\ [][Next]_vars

(***************************************************************************)
(* However writes and takes interleave, the text handed over and the text  *)
(* still waiting are what one take at the end would give: no take splits a *)
(* character, drops one, or hands one over twice.  (A program that ended   *)
(* and was stepped back may complete a character its end had cut.)         *)
(***************************************************************************)
TakesDoNotSplit ==
  run # "resumed" =>
    \A s \in Streams : text[s] \o Decoded(buffer[s]) = Decoded(wrote[s])

(***************************************************************************)
(* stdout and stderr together keep to the limit, the reply says "truncated"*)
(* exactly when something was dropped, and its byte counts add up.         *)
(***************************************************************************)
LimitIsShared ==
  /\ Len(wrote["stdout"]) + Len(wrote["stderr"]) = kept
  /\ kept <= Limit
  /\ truncated <=> total > Limit
  /\ \A s \in Streams : takenBytes[s] + Len(buffer[s]) = Len(wrote[s])
=============================================================================
