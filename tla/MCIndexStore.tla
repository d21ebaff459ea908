---------------------------- MODULE MCIndexStore ----------------------------
(***************************************************************************)
(* A small instance of IndexStore for TLC: three calls, in the mixes that  *)
(* meet in the cache, in memory and in the files.                          *)
(***************************************************************************)
EXTENDS IndexStore, TLC

CONSTANTS c1, c2, c3, x, y, z

MCCalls == {c1, c2, c3}
MCTexts == {x, y, z}

\* x and y share their first characters.
MCPrefix == [t \in MCTexts |-> IF t = y THEN x ELSE t]

Mix(k1, t1, k2, t2, k3, t3) ==
    c1 :> [kind |-> k1, texts |-> t1] @@ c2 :> [kind |-> k2, texts |-> t2]
    @@ c3 :> [kind |-> k3, texts |-> t3]

MCScenarios == {
    Mix("publish", <<x>>, "rank", <<z>>, "warm", <<y>>),
    Mix("publish", <<x>>, "publish", <<z, y>>, "restore", <<x>>),
    Mix("publish", <<z>>, "add", <<y, x>>, "warm", <<y>>),
    Mix("rank", <<z>>, "rank", <<y>>, "add", <<x>>)}
=============================================================================
