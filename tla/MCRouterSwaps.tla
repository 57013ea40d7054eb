---------------------------- MODULE MCRouterSwaps ----------------------------
(* Values of the constants of RouterSwaps for the model checker: two pools *)
(* of the tokens A and B and one of B and C.                               *)
EXTENDS RouterSwaps, TLC

TwoAndOne == ("p1" :> {"A", "B"}) @@ ("p2" :> {"A", "B"}) @@ ("p3" :> {"B", "C"})
PoolNames == DOMAIN TwoAndOne
=============================================================================
