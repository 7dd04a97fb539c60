-------------------------- MODULE MCHistoryDeletion --------------------------
EXTENDS HistoryDeletion, TLC

\* All requests run the same code.
RequestSymmetry == Permutations(Requests)
=============================================================================
