----------------------------- MODULE PlayHistory -----------------------------
(***************************************************************************)
(* What write_session_history promises its readers, the history queries:   *)
(* plays are added one at a time, each in the group of the play it         *)
(* continues, and appear under that group or under none.  A play once      *)
(* shown in its group stays there, unless it was added while another play  *)
(* of its view was still on its way into its group.                        *)
(***************************************************************************)
EXTENDS Naturals, Sequences

CONSTANTS Views, Offsets, WatchedOffset

VARIABLES
  plays,      \* [view, offset, group], in the order they were added
  shown,      \* plays that appear in their group
  contended,  \* plays whose way into their group met another play's
  complete    \* plays with their media info and metadata

vars == <<plays, shown, contended, complete>>
-----------------------------------------------------------------------------
Of(view) == {p \in DOMAIN plays : plays[p].view = view}

\* The plays a new one of this view at this offset continues: the last one, when
\* it was not watched to the end and the new one is not at an earlier offset.
Continued(view, offset) ==
  {p \in Of(view) : /\ \A q \in Of(view) : q <= p
                    /\ plays[p].offset < WatchedOffset
                    /\ plays[p].offset <= offset}

Init == plays = << >> /\ shown = {} /\ contended = {} /\ complete = {}

Add(view, offset) ==
  LET new == Len(plays) + 1
  IN  /\ plays' \in {Append(plays, [view |-> view, offset |-> offset, group |-> g]) :
                       g \in IF Continued(view, offset) = {} THEN {new}
                             ELSE {plays[p].group : p \in Continued(view, offset)}}
      /\ \/ UNCHANGED contended
         \/ \E others \in (SUBSET (Of(view) \ complete)) \ {{}} :
              contended' = contended \cup others \cup {new}
      /\ UNCHANGED <<shown, complete>>

\* A play may lose its group again only when it is contended.
Group(p) ==
  /\ \/ shown' = shown \cup {p}
     \/ p \in contended /\ shown' = shown \ {p}
  /\ UNCHANGED <<plays, contended, complete>>

\* A play is complete without its group only when it is contended, or an earlier
\* play of its group is not shown either.
Complete(p) ==
  /\ \/ p \in shown \cup contended
     \/ \E q \in DOMAIN plays \ shown : q < p /\ plays[q].group = plays[p].group
  /\ complete' = complete \cup {p}
  /\ UNCHANGED <<plays, shown, contended>>

Next ==
  \/ \E view \in Views, offset \in Offsets : Add(view, offset)
  \/ \E p \in DOMAIN plays : Group(p) \/ Complete(p)

Spec == Init /\ [][Next]_vars
=============================================================================
