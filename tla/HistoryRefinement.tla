-------------------------- MODULE HistoryRefinement --------------------------
(***************************************************************************)
(* The statements of write_session_history, in whatever order its threads  *)
(* run them, implement PlayHistory.                                        *)
(***************************************************************************)
EXTENDS HistoryWriter

History == INSTANCE PlayHistory WITH
  Offsets   <- {s.offset : s \in Sessions},
  plays     <- [id \in Rows |-> [view |-> history[id].view, offset |-> history[id].offset,
                                 group |-> head[id]]],
  shown     <- {id \in Rows : history[id].reference_id = head[id]},
  contended <- overlapped,
  complete  <- media_info \cap metadata

\* Each statement adds a play, moves one into its group, completes one, or
\* changes nothing a reader of the history sees.
ImplementsPlayHistory == History!Spec
=============================================================================
