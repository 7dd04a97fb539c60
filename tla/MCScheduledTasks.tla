-------------------------- MODULE MCScheduledTasks --------------------------
(***************************************************************************)
(* Small instances of ScheduledTasks.                                      *)
(***************************************************************************)
EXTENDS ScheduledTasks, TLC

\* The requests play the same part.
SaverSymmetry == Permutations(Savers)
=============================================================================
