--------------------------- MODULE MCConcentrated ---------------------------
(* Values of the constants of Concentrated and PlaneSteps for the model    *)
(* checker.                                                                *)
EXTENDS PlaneSteps, TLC

CONSTANT MaxGrowth  \* bound on the fee growth explored

\* Square roots of prices: straight lines of the tick.
Prices == [t \in MinTick..MaxTick |-> 64 + 4 * t]
LowTick == -9

\* One range around the first price, and one below it that leaves a gap.
Narrow == {<<-2, 2>>, <<-8, -4>>}

\* Ranges around the price, one inside the other, and the full range.
Nested == {<<-2, 2>>, <<-8, 6>>, <<-8, 8>>}

\* At most two positions, and a few trades; hardly any with a switch killed,
\* another protocol fraction, rewards configured or tokens given, of which there
\* is at most one.
Given == \E i \in Assets :
    bal[Pool][i] > IF i \in Tokens THEN reserve[i] + protocolFee[i] ELSE 0
Departed ==
    Cardinality({i \in 1..4 :
        << TRUE \in Range(killed), pfFraction # InitialProtocolFraction,
           rw.expiredAt # 0, Given >>[i]})
FewTrades ==
    /\ growth[0] + growth[1] + MaxGrowth * Departed <= MaxGrowth
    /\ protocolFee[0] + protocolFee[1] + MaxGrowth * Departed <= MaxGrowth
    /\ Cardinality(AllPositions) <= 2
    /\ Departed <= 1
    /\ ledger > 1 \/ Range(lock) # {0} => rw.expiredAt # 0
=============================================================================
