--------------------------- MODULE MCHistoryWriter ---------------------------
(***************************************************************************)
(* Threads finish plays of one item at offsets below, at and above each    *)
(* other, or plays of another item right at the watched offset.            *)
(***************************************************************************)
EXTENDS HistoryRefinement, TLC

CONSTANTS AliceFilm, BobTrack

\* One view with an early and a later play, a second view whose plays are watched
\* to the end, a play too short to log and a skipped track.
MCSessions ==
  {[view |-> AliceFilm, offset |-> o, media_type |-> "movie",
    play_time |-> 300, duration |-> 100, kept |-> TRUE] : o \in {10, 50}}
  \cup {[view |-> BobTrack, offset |-> 85, media_type |-> "track",
         play_time |-> t, duration |-> 100, kept |-> TRUE] : t \in {14, 15}}
  \cup {[view |-> BobTrack, offset |-> 85, media_type |-> "movie",
         play_time |-> 119, duration |-> 100, kept |-> TRUE]}

MCViews == {AliceFilm, BobTrack}

\* The threads run the same code.
WriterSymmetry == Permutations(Writers)
=============================================================================
