---------------------------- MODULE MCStableSwap ----------------------------
(* Values of the constants of StableSwap for the model checker.            *)
EXTENDS StableSwap, TLC

\* A coin of half the decimals' precision beside one of the full precision.
MixedDecimals == <<1, 2>>

\* Beside every trade, at most two of the fee, the pending fee, the protocol's
\* part and the ramp depart from what the pool starts with; or a switch is
\* killed; or there is a reward configuration.
Departures ==
    Cardinality({i \in 1..4 :
        << fee # InitialFee, pendingFee.deadline # 0, pfFraction # 0,
           ramp.t1 # 1 >>[i]})
FewDepartures ==
    LET killedOrPaying ==
            {b \in {1, 2} : << TRUE \in Range(killed), rw.expiredAt # 0 >>[b]}
    IN Departures + 2 * Cardinality(killedOrPaying) <= 2
=============================================================================
