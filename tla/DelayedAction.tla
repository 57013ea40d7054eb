--------------------------- MODULE DelayedAction ----------------------------
(***************************************************************************)
(* What the transfer of a role, the upgrade of a contract and the change   *)
(* of a stable pool's fee promise: a value takes effect only if it was     *)
(* proposed, has been the one pending proposal for Delay since, and was    *)
(* not cancelled.  There is no delay to give a first value to what has     *)
(* none, nor while the delay is waived.                                    *)
(***************************************************************************)
EXTENDS Naturals

CONSTANTS Values, Nobody, Delay

VARIABLES
    active,   \* the value in effect, or Nobody
    pending,  \* the proposal waiting, a set of at most one record
    clock,
    waived    \* whether the delay is waived now

vars == <<active, pending, clock, waived>>

Init ==
    /\ active \in Values \cup {Nobody}
    /\ pending = {}
    /\ clock \in Nat
    /\ waived = FALSE

Propose(v) ==
    /\ pending = {}
    /\ pending' = {[value |-> v, since |-> clock]}
    /\ UNCHANGED <<active, clock, waived>>

Cancel ==
    /\ pending' = {}
    /\ UNCHANGED <<active, clock, waived>>

Enact ==
    \E p \in pending :
        /\ waived \/ active = Nobody \/ clock >= p.since + Delay
        /\ active' = p.value
        /\ pending' = {}
        /\ UNCHANGED <<clock, waived>>

Waive ==
    /\ waived' \in BOOLEAN
    /\ UNCHANGED <<active, pending, clock>>

Tick ==
    /\ clock' \in Nat
    /\ clock' > clock
    /\ UNCHANGED <<active, pending, waived>>

Next ==
    \/ \E v \in Values : Propose(v)
    \/ Cancel
    \/ Enact
    \/ Waive
    \/ Tick

Spec == Init /\ [][Next]_vars
=============================================================================
