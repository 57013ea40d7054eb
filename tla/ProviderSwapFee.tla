--------------------------- MODULE ProviderSwapFee ---------------------------
(***************************************************************************)
(* A provider's fee on top of the router's swaps: the contract of          *)
(* liquidity_pool_provider_swap_fee/src, here the Collector.  It takes the *)
(* user's tokens, calls the router as the user, keeps its fee of the       *)
(* output and passes on the rest.  Fees stay in its balance, which nothing *)
(* but the balance itself records, until its operator has them sent to the *)
(* Destination.                                                            *)
(*                                                                         *)
(* That the caller is the operator is left out.                            *)
(*                                                                         *)
(* An operator whose name starts with Bug is the next one with a plausible *)
(* mistake, for the mutation runs; nothing refers to it.                   *)
(***************************************************************************)
EXTENDS RouterSwaps

CONSTANTS
    Collector, Destination,
    MaxSwapFeeFraction, ProviderDenominator,    \* set when it is deployed
    FeeFractions                                \* what users agree to

ASSUME ProviderSwapFeeAssumption ==
    /\ {Collector, Destination} \subseteq Others /\ Collector # Destination
    /\ {MaxSwapFeeFraction, ProviderDenominator} \subseteq Nat
    /\ FeeFractions \subseteq Nat

VARIABLE due    \* history: fees charged and tokens sent to the Collector since
                \* they were last claimed

ProviderInit == SwapsInit /\ due = [t \in Tokens |-> 0]

-----------------------------------------------------------------------------
(* swap_chained and swap_chained_strict_receive                            *)

Charged(amount, fraction) == CeilDiv(amount * fraction, ProviderDenominator)

\* What has to be bought for "amount" to be left after the fee.
GrossOut(amount, fraction) ==
    CeilDiv(amount * ProviderDenominator, ProviderDenominator - fraction)

\* The user pays the Collector, and the router takes it from there.
PaidIn(u, in, n) == Move(Move(bal, u, Collector, in, n), Collector, Router, in, n)

ProviderSwapChained(u, chain, in, amount, outMin, fraction) ==
    /\ fraction <= MaxSwapFeeFraction /\ ProviderDenominator > 0
    /\ amount <= bal[u][in]
    /\ \E s \in {SwapHops(chain, in, amount, PaidIn(u, in, amount))} :
        LET out == Output(chain)
            fee == Charged(s.n, fraction)
        IN  /\ s.ok /\ s.n >= outMin
            /\ s.n - fee >= outMin
            /\ res' = s.res
            /\ bal' = Move(Move(s.bal, Router, Collector, out, s.n),
                           Collector, u, out, s.n - fee)
            /\ due' = [due EXCEPT ![out] = @ + fee]

BugForgetsFee(in, out, fee) == 0

\* What the balance of the input token has grown by the fee.
FeeInDelta(in, out, fee) == IF in = out THEN fee ELSE 0

\* The router gives its change to the Collector, who gives the user what is
\* above the balance it had before.
ProviderSwapChainedStrictReceive(u, chain, in, outAmount, inMax, fraction) ==
    /\ fraction <= MaxSwapFeeFraction /\ fraction < ProviderDenominator
    /\ inMax <= bal[u][in]
    /\ LET gross == GrossOut(outAmount, fraction)
           out == Output(chain)
           fee == gross - outAmount
       IN \E required \in {Required(chain, in, gross)} :
            /\ \A k \in DOMAIN chain : required[k] > 0
            /\ required[1] <= inMax
            /\ \E s \in {StrictHops(chain, in, gross, required, PaidIn(u, in, inMax))} :
                LET paid == Move(Refund(Collector, in, out, gross, s.bal),
                                 Collector, u, out, outAmount)
                    refund == paid[Collector][in] - bal[Collector][in]
                                - FeeInDelta(in, out, fee)
                IN  /\ s.ok
                    /\ res' = s.res
                    /\ bal' = IF refund > 0 THEN Move(paid, Collector, u, in, refund) ELSE paid
                    /\ due' = [due EXCEPT ![out] = @ + fee]

-----------------------------------------------------------------------------
(* What the operator does                                                  *)

ClaimFees(t) ==
    /\ bal' = Move(bal, Collector, Destination, t, bal[Collector][t])
    /\ due' = [due EXCEPT ![t] = 0]
    /\ UNCHANGED res

\* The fees of one token, sold along a chain.
ClaimFeesAndSwap(chain, t, outMin) ==
    LET n == bal[Collector][t]
    IN \E s \in {SwapHops(chain, t, n, Move(bal, Collector, Router, t, n))} :
        /\ s.ok /\ s.n >= outMin
        /\ res' = s.res
        /\ bal' = Move(s.bal, Router, Destination, Output(chain), s.n)
        /\ due' = [due EXCEPT ![t] = 0]

-----------------------------------------------------------------------------
SendToCollector(u, t, n) ==
    /\ n <= bal[u][t]
    /\ bal' = Move(bal, u, Collector, t, n)
    /\ due' = [due EXCEPT ![t] = @ + n]
    /\ UNCHANGED res

ProviderStep ==
    \/ \E u \in Users, in \in Tokens, f \in FeeFractions : \E chain \in Chains(in) :
        \/ \E n \in InAmounts : ProviderSwapChained(u, chain, in, n, 0, f)
        \/ \E n \in OutAmounts, inMax \in InAmounts :
                ProviderSwapChainedStrictReceive(u, chain, in, n, inMax, f)
    \/ \E t \in Tokens :
        \/ ClaimFees(t)
        \/ \E chain \in Chains(t) : ClaimFeesAndSwap(chain, t, 0)
    \/ \E u \in Users, t \in Tokens, n \in GiftAmounts : SendToCollector(u, t, n)

ProviderNext ==
    \/ SwapsNext /\ UNCHANGED due
    \/ calls < MaxCalls /\ calls' = calls + 1 /\ ProviderStep

ProviderSpec == ProviderInit /\ [][ProviderNext]_<<swapVars, due>>

-----------------------------------------------------------------------------
(* Properties                                                              *)

\* The Collector holds its fees, to the unit, and nothing of its users': the
\* refund of a swap is a difference of balances ("Safe for rebasing tokens"),
\* from which the fee must be taken out when the output is the input token, and
\* in which earlier fees and gifts of that token must not appear.
CollectorHoldsFees == bal[Collector] = due
=============================================================================
