--------------------------- MODULE MCRecentlyAdded ---------------------------
(***************************************************************************)
(* One show with two seasons, the first of two episodes.                   *)
(***************************************************************************)
EXTENDS RecentlyAdded, TLC

CONSTANTS Show, Season1, Season2, Episode1, Episode2

MCItems == {Show, Season1, Season2, Episode1, Episode2}

MCParent ==
  (Show :> NoItem) @@ (Season1 :> Show) @@ (Season2 :> Show)
    @@ (Episode1 :> Season1) @@ (Episode2 :> Season1)

\* The season is announced by itself, and among the keys of the show.
MCUnavailable == {Season1}

\* The episodes play the same part.
EpisodeSymmetry == Permutations({Episode1, Episode2})
=============================================================================
