-------------------------- MODULE RarsSimulatorEnds --------------------------
(***************************************************************************)
(* The debugger on its own, with a record of whether its run has ended, to *)
(* state what the documentation says of a program that has.                *)
(***************************************************************************)
EXTENDS RarsSimulator

VARIABLE ended  \* history: the current run has terminated

EndsInit == SimInit /\ ended = FALSE
EndsNext ==
  /\ SimNext
  /\ ended' = (run' = run /\ (ended \/ status' = "terminated"))

EndsSpec == EndsInit /\ [][EndsNext]_<<simVars, ended>>

(***************************************************************************)
(* README.md says: "A program that has terminated refuses to run until the *)
(* session is reset."  ensureRunnable asks for the status only, which a    *)
(* backstep sets to "paused".                                              *)
(***************************************************************************)
TerminatedRefusesToRun == ended => activity \notin {"step", "continue"}
=============================================================================
