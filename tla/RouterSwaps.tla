---------------------------- MODULE RouterSwaps ----------------------------
(***************************************************************************)
(* Swaps of the router along a chain of pools: swap_chained and            *)
(* swap_chained_strict_receive of liquidity_pool_router/src/contract.rs.   *)
(*                                                                         *)
(* A pool is here what the router sees of it: reserves and the price of a  *)
(* standard pool (liquidity_pool/src/pool.rs), all of the fee going to the *)
(* providers.  The look-up of a pool by its index is in Router; here the   *)
(* pools are given.                                                        *)
(*                                                                         *)
(* An operator whose name starts with Bug is the next one with a plausible *)
(* mistake, for the mutation runs; nothing refers to it.                   *)
(***************************************************************************)
EXTENDS Integers, Sequences

CONSTANTS
    Users, Router,      \* who holds tokens
    Others,             \* contracts that hold tokens and swap only when called
    Pools, TokensOf,    \* the registered pools, and the tokens of each
    FeeMultiplier, FeeFraction,     \* the fee of the pools
    Levels,             \* reserves that others bring a pool to
    InAmounts, OutAmounts, GiftAmounts, InitialBalance,
    MaxHops, MaxCalls,  \* bounds: the length of a chain; swaps and gifts together
    MayRevisit          \* whether a chain may go through a pool twice

Tokens == UNION {TokensOf[p] : p \in Pools}

ASSUME RouterSwapsAssumption ==
    /\ Router \notin Users \cup Others /\ Users \cap Others = {}
    /\ InAmounts \cup OutAmounts \cup GiftAmounts \cup {InitialBalance, MaxHops, MaxCalls} \subseteq Nat
    /\ FeeMultiplier \in Nat \ {0} /\ FeeFraction \in 0..FeeMultiplier - 1
    /\ Levels \subseteq Nat /\ MayRevisit \in BOOLEAN

VARIABLES
    res,    \* the reserves of each pool
    bal,    \* the balances of the users and of the router
    calls   \* swaps and gifts so far

swapVars == <<res, bal, calls>>

SwapsInit ==
    /\ res = [p \in Pools |-> [t \in TokensOf[p] |-> 0]]
    /\ bal = [h \in Users \cup Others \cup {Router} |->
                [t \in Tokens |-> IF h \in Users THEN InitialBalance ELSE 0]]
    /\ calls = 0

-----------------------------------------------------------------------------
(* Chains                                                                  *)

\* A hop names a pool and the token to obtain from it.
Hops == {h \in [pool : Pools, out : Tokens] : h.out \in TokensOf[h.pool]}
Output(chain) == chain[Len(chain)].out

\* The token that goes into each hop of a chain that starts with token "in".
TokenIn(chain, in, k) == IF k = 1 THEN in ELSE chain[k - 1].out

\* first_index_of aborts otherwise, and a pool does not swap a token for itself.
Connected(chain, in) ==
    \A k \in DOMAIN chain :
        TokenIn(chain, in, k) \in TokensOf[chain[k].pool] \ {chain[k].out}
VisitsOnce(chain) == \A j, k \in DOMAIN chain : chain[j].pool = chain[k].pool => j = k
AllChains == UNION {[1..n -> Hops] : n \in 1..MaxHops}
Chains(in) ==
    {chain \in AllChains : Connected(chain, in) /\ (MayRevisit \/ VisitsOnce(chain))}

-----------------------------------------------------------------------------
(* Prices and swaps                                                         *)

CeilDiv(x, y) == (x + y - 1) \div y

\* get_amount_out: what n of "in" buys.
Gets(r, in, out, n) ==
    LET afterFee == (n * (FeeMultiplier - FeeFraction)) \div FeeMultiplier
    IN  IF r[in] = 0 THEN 0 ELSE (afterFee * r[out]) \div (r[in] + afterFee)

\* get_amount_out_strict_receive: what n of "out" costs; 0 where it aborts.
Costs(r, in, out, n) ==
    IF n >= r[out] THEN 0
    ELSE CeilDiv(CeilDiv(r[in] * n, r[out] - n) * FeeMultiplier, FeeMultiplier - FeeFraction)

Move(b, from, to, t, n) ==
    LET taken == [b EXCEPT ![from][t] = @ - n]
    IN  [taken EXCEPT ![to][t] = @ + n]

\* The router pays a pool x of "in" and is paid y of "out": what it makes of the
\* reserves and of the balances.
PoolTrades(r, p, in, out, x, y) == [r EXCEPT ![p][in] = @ + x, ![p][out] = @ - y]
RouterTrades(b, in, out, x, y) == [b EXCEPT ![Router][in] = @ - x, ![Router][out] = @ + y]

\* Hop k, with the n tokens that the last one gave.
SwapHop(chain, in, k, s) ==
    LET p == chain[k].pool
        from == TokenIn(chain, in, k)
        out == chain[k].out
        got == Gets(s.res[p], from, out, s.n)
    IN  [res |-> PoolTrades(s.res, p, from, out, s.n, got),
         bal |-> RouterTrades(s.bal, from, out, s.n, got),
         n |-> got,
         ok |-> s.ok /\ s.n > 0 /\ \A t \in TokensOf[p] : s.res[p][t] > 0]

SwapHops(chain, in, amount, start) ==
    LET Forward[k \in 0..Len(chain)] ==
            IF k = 0 THEN [res |-> res, bal |-> start, n |-> amount, ok |-> TRUE]
            ELSE SwapHop(chain, in, k, Forward[k - 1])
    IN  Forward[Len(chain)]

SwapChained(u, chain, in, amount, outMin) ==
    LET s == SwapHops(chain, in, amount, Move(bal, u, Router, in, amount))
    IN  /\ amount <= bal[u][in]
        /\ s.ok /\ s.n >= outMin
        /\ res' = s.res
        /\ bal' = Move(s.bal, Router, u, Output(chain), s.n)

BugWantsSameHop(chain, in, outAmount, required, k) == outAmount

\* What hop k has to give: what the next one needs, or what was asked for.
Wanted(chain, in, outAmount, required, k) ==
    IF k = Len(chain) THEN outAmount ELSE required[k + 1]

\* The reverse pass, all of it at the reserves before the first swap.
Required(chain, in, outAmount) ==
    LET required[k \in 1..Len(chain)] ==
            Costs(res[chain[k].pool], TokenIn(chain, in, k), chain[k].out,
                  Wanted(chain, in, outAmount, required, k))
    IN  required

\* The forward pass.  A pool takes what was required and returns the difference
\* to what the swap costs now.
StrictHop(chain, in, outAmount, required, k, s) ==
    LET p == chain[k].pool
        from == TokenIn(chain, in, k)
        out == chain[k].out
        want == Wanted(chain, in, outAmount, required, k)
        cost == Costs(s.res[p], from, out, want)
    IN  [res |-> PoolTrades(s.res, p, from, out, cost, want),
         bal |-> RouterTrades(s.bal, from, out, cost, want),
         ok |-> s.ok /\ cost \in 1..required[k]]

StrictHops(chain, in, outAmount, required, start) ==
    LET Forward[k \in 0..Len(chain)] ==
            IF k = 0 THEN [res |-> res, bal |-> start, ok |-> TRUE]
            ELSE StrictHop(chain, in, outAmount, required, k, Forward[k - 1])
    IN  Forward[Len(chain)]

BugRefund(u, in, out, outAmount, b) ==
    LET refund == b[Router][in] - bal[Router][in]
        paid == Move(b, Router, u, out, outAmount)
    IN  IF refund > 0 THEN Move(paid, Router, u, in, refund) ELSE paid

\* The output is sent first, so that what the router then has above its earlier
\* balance of the input token is the change, also when the two are one token.
Refund(u, in, out, outAmount, b) ==
    LET paid == Move(b, Router, u, out, outAmount)
        refund == paid[Router][in] - bal[Router][in]
    IN  IF refund > 0 THEN Move(paid, Router, u, in, refund) ELSE paid

SwapChainedStrictReceive(u, chain, in, outAmount, maxIn) ==
    LET required == Required(chain, in, outAmount)
        s == StrictHops(chain, in, outAmount, required, Move(bal, u, Router, in, maxIn))
    IN  /\ \A k \in DOMAIN chain : required[k] > 0
        /\ required[1] <= maxIn /\ maxIn <= bal[u][in]
        /\ s.ok
        /\ res' = s.res
        /\ bal' = Refund(u, in, Output(chain), outAmount, s.bal)

-----------------------------------------------------------------------------
(* What others do                                                          *)

\* Deposits, withdrawals and swaps at the pool itself, with the same level of
\* all tokens afterwards.
ChangeReserves(p, level) ==
    /\ res' = [res EXCEPT ![p] = [t \in TokensOf[p] |-> level]]
    /\ UNCHANGED <<bal, calls>>

SendToRouter(u, t, n) ==
    /\ n <= bal[u][t]
    /\ bal' = Move(bal, u, Router, t, n)
    /\ UNCHANGED res

SwapStep ==
    \E u \in Users, in \in Tokens : \E chain \in Chains(in) :
        \/ \E n \in InAmounts : SwapChained(u, chain, in, n, 0)
        \/ \E n \in OutAmounts, maxIn \in InAmounts :
                SwapChainedStrictReceive(u, chain, in, n, maxIn)

GiftStep == \E u \in Users, t \in Tokens, n \in GiftAmounts : SendToRouter(u, t, n)

SwapsNext ==
    \/ calls < MaxCalls /\ calls' = calls + 1 /\ (SwapStep \/ GiftStep)
    \/ \E p \in Pools, level \in Levels : ChangeReserves(p, level)

SwapsSpec == SwapsInit /\ [][SwapsNext]_swapVars

-----------------------------------------------------------------------------
(* Properties                                                              *)

SwapsTypeOK ==
    /\ bal \in [Users \cup Others \cup {Router} -> [Tokens -> Nat]]
    /\ calls \in 0..MaxCalls
    /\ DOMAIN res = Pools /\ \A p \in Pools : res[p] \in [TokensOf[p] -> Nat]

\* No swap leaves anything behind in the router or takes what it already had
\* ("safe when Router holds pre-existing balances"): only gifts change it.
RouterKeepsNothing == [][bal'[Router] = bal[Router] \/ GiftStep]_swapVars

\* swap_chained_strict_receive asks for enough: what its reverse pass requires
\* of the first token, sold along the same chain, buys the amount wanted.
QuoteSuffices ==
    \A in \in Tokens, n \in OutAmounts : \A chain \in Chains(in) :
        LET required == Required(chain, in, n)
        IN  (\A k \in DOMAIN chain : required[k] > 0) =>
                SwapHops(chain, in, required[1], bal).n >= n
=============================================================================
