--------------------------- MODULE MCRankPipeline ---------------------------
(***************************************************************************)
(* A small instance of RankPipeline for TLC: an HTTP ranking, a batch      *)
(* ranking and an index build, over lists of different lengths.            *)
(***************************************************************************)
EXTENDS RankPipeline, TLC

CONSTANTS r1, r2, r3, b1

MCRanks  == {r1, r2, r3}
MCBatch  == {r2}
MCBuilds == {b1}

\* The longest list is longer than TopN, and long enough for an IVF index;
\* the second is shorter than TopN, and the empty one is refused.
MCSize == (r1 :> 3 @@ r2 :> 1 @@ r3 :> 0 @@ b1 :> 1)
=============================================================================
