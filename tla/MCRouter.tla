------------------------------ MODULE MCRouter ------------------------------
(* Values of the constants of Router for the model checker.                *)
EXTENDS Router, TLC

AB == {"A", "B"}
ABC == {"A", "B", "C"}
PairAndTriple == {AB, ABC}

\* Both token sets; one of them.
SomeVotes == {(AB :> 6) @@ (ABC :> 4), AB :> 10}
=============================================================================
