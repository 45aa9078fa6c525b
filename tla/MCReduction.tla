---------------------------- MODULE MCReduction ----------------------------
(* Instances of Reduction for TLC.                                           *)
EXTENDS Reduction

\* No element; one warp, partly and exactly populated; two warps; three, the
\* last partly populated; three chunks for two full blocks and a partial one.
MCSizes == {0, 1, 3, 4, 5, 8, 10, 53}

\* Bound: the warps of a full block halve their rows in every interleaving if the
\* block is the first of its grid to run, and one after the other if it is not.
\* Blocks have no shared memory in common.
InTurn ==
    launch = "full" /\ (block # 0 \/ left = {}) =>
        \A t, u \in DOMAIN at :
           Warp(t) < Warp(u) /\ at[u] > Seed => at[t] >= Pairs
=============================================================================
