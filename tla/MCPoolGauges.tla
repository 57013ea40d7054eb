---------------------------- MODULE MCPoolGauges ----------------------------
(***************************************************************************)
(* PoolGauges for TLC: the liquidity providers are interchangeable.        *)
(***************************************************************************)
EXTENDS PoolGauges, TLC

Symmetry == Permutations(Users)

Unboosted == (\A u \in Users : lock[u] = 0 /\ rw.on[u]) /\ rw.excluded = 0

\* Shares were burned at the token, which the pool never hears of.
Burned == SumFunctionOnSet(shares, Users) < totalShares

\* Boosts and opt-outs interfere with one configuration, over two seconds, of
\* a gauge that stays attached; burns with one configuration; everything else
\* with everything.  Nothing that follows a killed claim is of interest.
Focus ==
    /\ ~killed
    /\ IF Unboosted THEN Burned => scheduled <= 1
       ELSE /\ ~Burned /\ ~detached /\ scheduled <= 1
            /\ Cardinality({u \in Users : lock[u] # 0}) <= 1
            /\ rw.excluded <= 1
            /\ \A c \in gauge.configs : c.startAt = 1 /\ c.expiredAt = 3
=============================================================================
