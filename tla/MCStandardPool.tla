--------------------------- MODULE MCStandardPool ---------------------------
(* Values of the constants of StandardPool for the model checker.          *)
EXTENDS StandardPool, TLC

Sym == Permutations(Users)

Unboosted == \A u \in Users : lock[u] = 0 /\ rw.on[u]

\* Shares were burned at the token, which the pool never hears of.
Burned == SumFunctionOnSet(shares, ShareHolders) < totalShares

\* Boosts and opt-outs interfere with deposits, transfers and one running
\* reward; burns with any reward of the first two ledgers; everything else with
\* everything.
Focus ==
    IF Unboosted THEN Burned => rw.acc <= 1 /\ ledger <= 2
    ELSE ~Burned /\ rw.tps # 0 /\ rw.acc <= 2 /\ ledger <= 2
=============================================================================
