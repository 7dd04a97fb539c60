-------------------------- MODULE MCDatabaseImport --------------------------
\* One play is in both databases, two of the other one share a group, and the
\* first row of this one was deleted.
EXTENDS DatabaseImport, TLC

CONSTANTS ours, theirs, followed, finishing

MCLogged == 2 :> [play |-> ours, reference_id |-> 2]

MCImport == << [play |-> ours, reference_id |-> 1], [play |-> theirs, reference_id |-> 2],
               [play |-> followed, reference_id |-> 2] >>

MCSymmetry == Permutations(Importers)

MCGroupOf == ours :> 1 @@ theirs :> 2 @@ followed :> 2 @@ finishing :> 3
=============================================================================
