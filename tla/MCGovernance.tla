---------------------------- MODULE MCGovernance ----------------------------
(* Values of the constants of Governance for the model checker.            *)
EXTENDS Governance, TLC

CONSTANTS h0, h1

Package(pool, token, gauge) ==
    [part \in Parts |-> CASE part = "pool" -> pool
                          [] part = "token" -> token
                          [] part = "gauge" -> gauge]

\* Upgrades of two of the parts.
SomePackages == {Package(h0, h0, h0), Package(h1, h0, h1)}
=============================================================================
