-------------------------- MODULE MCSessionMonitor --------------------------
(***************************************************************************)
(* Small instances of SessionMonitor: one session key, one or two items.   *)
(***************************************************************************)
EXTENDS SessionMonitor, TLC

\* Items play the same part.
ItemSymmetry == Permutations(Items)
=============================================================================
