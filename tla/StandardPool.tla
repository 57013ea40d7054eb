---------------------------- MODULE StandardPool ----------------------------
(***************************************************************************)
(* The constant product pool: the contract of liquidity_pool/src, together *)
(* with the share token it owns (token/src, token_share/src) and the       *)
(* reward accounting it embeds (module RewardsManager).  One action per    *)
(* entry point; a call that panics is rolled back as a whole, so a panic   *)
(* is a guard that fails.  Several calls may run in one ledger, in any     *)
(* order; "ledger" is both the sequence number and the timestamp.          *)
(*                                                                         *)
(* The pool has no reward gauge attached, as after initialize, so that the *)
(* gauge checkpoints the entry points make are no-ops.                     *)
(*                                                                         *)
(* An operator whose name starts with Bug is the next one with a plausible *)
(* mistake, for the mutation runs; nothing refers to it.                   *)
(***************************************************************************)
EXTENDS RewardsManager, Functions

CONSTANTS
    Pool, Outside,      \* the pool's own address; every other account
    RewardToken,        \* "A" or "B" when it is a token of the pool
    FeeMultiplier,      \* 10_000 in the code
    FeeFraction,        \* fee of a swap, in units of 1 / FeeMultiplier
    ProtocolFractions,  \* values given to set_protocol_fee_fraction
    Callers,            \* the privileged roles somebody holds and may use
    InitialBalance,     \* balance of each user in each token of the pool
    RewardFunds,        \* reward tokens held outside, to fund the pool with
    DepositAmounts, SwapAmounts, ShareAmounts, GiftAmounts,
                        \* amounts in calls of each kind
    MinAmounts,         \* slippage limits in calls
    TpsValues, Expirations, Diffs, LockAmounts, RewardSwitches,
                        \* arguments of reward calls
    MaxAccumulated,     \* bound on the rewards an adjustment may reach
    MaxLedger           \* bound on the ledgers explored

PoolTokens == {"A", "B"}
Other(t) == IF t = "A" THEN "B" ELSE "A"
Assets  == PoolTokens \cup {RewardToken}
Holders == Users \cup {Pool, Outside}
ShareHolders == Users \cup {Pool}
Switches == {"deposit", "swap", "claim"}

ASSUME PoolAssumption ==
    /\ Pool # Outside /\ {Pool, Outside} \cap Users = {}
    /\ FeeMultiplier \in Nat \ {0}
    /\ FeeFraction \in 0..(FeeMultiplier - 1)
    /\ ProtocolFractions \subseteq Nat
    /\ InitialBalance \in Nat /\ RewardFunds \in Nat
    /\ DepositAmounts \cup SwapAmounts \cup ShareAmounts \subseteq Nat
    /\ GiftAmounts \cup MinAmounts \subseteq Nat
    /\ TpsValues \subseteq Nat /\ Expirations \subseteq Nat
    /\ LockAmounts \subseteq Nat /\ RewardSwitches \subseteq BOOLEAN /\ Diffs \subseteq Int
    /\ MaxAccumulated \in Nat /\ MaxLedger \in Nat

VARIABLES
    bal,         \* balances of the tokens, by holder
    shares,      \* balances of the share token
    totalShares, \* the pool's TotalShares
    reserve,     \* ReserveA and ReserveB
    fee,         \* ProtocolFeeA and ProtocolFeeB
    pfFraction,  \* ProtocolFeeFraction
    killed,      \* the three kill switches
    plane,       \* the reserves last pushed to the plane contract
    syncLedger,  \* ReservesSyncLedger
    ledger,      \* the current ledger
    rw,          \* the reward state
    lock         \* locked (boost) tokens of each user

ammVars  == <<bal, shares, totalShares, reserve, fee, plane, syncLedger>>
cfgVars  == <<pfFraction, killed>>
envVars  == <<ledger, lock>>
vars     == <<bal, shares, totalShares, reserve, fee, pfFraction, killed,
              plane, syncLedger, ledger, rw, lock>>

TypeOK ==
    /\ bal \in [Holders -> [Assets -> Nat]]
    /\ shares \in [ShareHolders -> Nat]
    /\ totalShares \in Nat
    /\ reserve \in [PoolTokens -> Nat]
    /\ fee \in [PoolTokens -> Nat]
    /\ pfFraction \in 0..FeeMultiplier
    /\ killed \in [Switches -> BOOLEAN]
    /\ plane \in [PoolTokens -> Nat]
    /\ syncLedger \in Nat
    /\ ledger \in Nat
    /\ rw \in RewardState
    /\ lock \in [Users -> Nat]

Nothing == [t \in PoolTokens |-> 0]

Init ==
    /\ bal = [h \in Holders |-> [t \in Assets |->
                 IF h \in Users /\ t \in PoolTokens THEN InitialBalance
                 ELSE IF h = Outside /\ t = RewardToken THEN RewardFunds
                 ELSE 0]]
    /\ shares = [h \in ShareHolders |-> 0]
    /\ totalShares = 0
    /\ reserve = Nothing
    /\ fee = Nothing
    /\ pfFraction = 0
    /\ killed = [s \in Switches |-> FALSE]
    /\ plane = Nothing
    /\ syncLedger = 0
    /\ ledger = 1
    /\ rw = EmptyRewards
    /\ lock = [u \in Users |-> 0]

-----------------------------------------------------------------------------
(* Arithmetic of pool.rs                                                   *)

MinOf(x, y) == IF x <= y THEN x ELSE y
MaxOf(x, y) == IF x >= y THEN x ELSE y
CeilDiv(x, y) == (x + y - 1) \div y

BugRoundsRootUp(n) == {r \in 0..n : r * r >= n /\ (r = 0 \/ (r - 1) * (r - 1) < n)}

\* The integer square root of n, as the only element of a set.
FloorRoots(n) == {r \in 0..n : r * r <= n /\ n < (r + 1) * (r + 1)}

\* get_deposit_amounts: the part of the desired amounts in the pool's ratio.
UsedAmounts(res, desired) ==
    LET a == (desired["B"] * res["A"]) \div res["B"]
        b == (desired["A"] * res["B"]) \div res["A"]
    IN IF res = Nothing THEN desired
       ELSE IF b <= desired["B"] THEN [desired EXCEPT !["B"] = b]
       ELSE [desired EXCEPT !["A"] = a]

\* The new total of shares for the reserves grown from old to new.
NewTotals(old, new) ==
    IF old["A"] > 0 /\ old["B"] > 0
    THEN {MinOf((new["A"] * totalShares) \div old["A"],
                (new["B"] * totalShares) \div old["B"])}
    ELSE FloorRoots(new["A"] * new["B"])

\* get_amount_out: the fee is taken on the input.
AfterFee(inAmount) == (inAmount * (FeeMultiplier - FeeFraction)) \div FeeMultiplier
AmountOut(res, in, inAmount) ==
    (AfterFee(inAmount) * res[Other(in)]) \div (res[in] + AfterFee(inAmount))

BugRoundsInputDown(res, in, outAmount) ==
    (res[in] * outAmount) \div (res[Other(in)] - outAmount)

\* get_amount_out_strict_receive, rounded up twice.
InAfterFee(res, in, outAmount) ==
    CeilDiv(res[in] * outAmount, res[Other(in)] - outAmount)
AmountIn(res, in, outAmount) ==
    CeilDiv(InAfterFee(res, in, outAmount) * FeeMultiplier, FeeMultiplier - FeeFraction)

\* The check both swaps make on the product of the reserves, net of the part
\* of the fee that stays in the pool.
Residue == FeeMultiplier - (FeeFraction - (FeeFraction * pfFraction) \div FeeMultiplier)
InvariantHolds(res, in, inAmount, outAmount) ==
    (FeeMultiplier * res[in] + Residue * inAmount)
        * (FeeMultiplier * (res[Other(in)] - outAmount))
      >= (FeeMultiplier * res[in]) * (FeeMultiplier * res[Other(in)])

ProtocolPart(totalFee) == (totalFee * pfFraction) \div FeeMultiplier

-----------------------------------------------------------------------------
(* Token transfers and reserve synchronisation                             *)

Move(b, from, to, t, n) ==
    LET taken == [b EXCEPT ![from][t] = @ - n]
    IN [taken EXCEPT ![to][t] = @ + n]

\* The given amounts of both tokens; one token against the other.
Send(b, from, to, amounts) ==
    Move(Move(b, from, to, "A", amounts["A"]), from, to, "B", amounts["B"])
Exchange(b, u, in, inAmount, outAmount) ==
    Move(Move(b, u, Pool, in, inAmount), Pool, u, Other(in), outAmount)

\* _sync_reserves, once per ledger: balances above reserve and protocol fee
\* become reserve, except for the reward token and for a pool with no shares.
MustSync == syncLedger # ledger /\ totalShares > 0
BugExpectsNoGift ==
    MustSync => \A t \in PoolTokens \ {RewardToken} : bal[Pool][t] = reserve[t] + fee[t]
SyncOK ==
    MustSync => \A t \in PoolTokens \ {RewardToken} : bal[Pool][t] >= fee[t]
BugSyncsFees ==
    [t \in PoolTokens |->
        IF MustSync /\ t # RewardToken THEN MaxOf(reserve[t], bal[Pool][t]) ELSE reserve[t]]
Synced ==
    [t \in PoolTokens |->
        IF MustSync /\ t # RewardToken
        THEN MaxOf(reserve[t], bal[Pool][t] - fee[t])
        ELSE reserve[t]]

TotalLocked == SumFunctionOnSet(lock, Users)

Checkpoint(r, u, total, userShares) ==
    CheckpointUser(r, lock, TotalLocked, ledger, u, total, userShares)
NewWorking(r, u, total, userShares) ==
    UpdateWorkingBalance(r, lock, TotalLocked, u, total, userShares)

-----------------------------------------------------------------------------
(* Liquidity and swaps                                                     *)

Deposit(u, desired, minShares) ==
    LET used == UsedAmounts(Synced, desired)
        new  == [t \in PoolTokens |-> Synced[t] + used[t]]
    IN /\ ~killed["deposit"]
       /\ SyncOK
       /\ Synced = Nothing => \A t \in PoolTokens : desired[t] > 0
       /\ Synced # Nothing => Synced["A"] > 0
       /\ \A t \in PoolTokens : used[t] <= desired[t] /\ desired[t] <= bal[u][t]
       /\ \E total \in NewTotals(Synced, new) :
            LET minted == total - totalShares
            IN /\ minted >= 0 /\ minted >= minShares
               /\ totalShares' = total
               /\ shares' = [shares EXCEPT ![u] = @ + minted]
               /\ rw' = NewWorking(Checkpoint(rw, u, totalShares, shares[u]),
                                   u, total, shares[u] + minted)
       /\ bal' = Send(bal, u, Pool, used)
       /\ reserve' = new
       /\ plane' = new
       /\ syncLedger' = ledger
       /\ UNCHANGED <<fee, cfgVars, envVars>>

\* What both swaps do once the two amounts are known.
Trade(u, in, inAmount, outAmount, totalFee) ==
    LET out == Other(in)
        new == [Synced EXCEPT ![in]  = @ + inAmount - ProtocolPart(totalFee),
                              ![out] = @ - outAmount]
    IN /\ InvariantHolds(Synced, in, inAmount, outAmount)
       /\ outAmount <= bal[Pool][out]
       /\ bal' = Exchange(bal, u, in, inAmount, outAmount)
       /\ reserve' = new
       /\ fee' = [fee EXCEPT ![in] = @ + ProtocolPart(totalFee)]
       /\ plane' = new
       /\ syncLedger' = ledger
       /\ UNCHANGED <<shares, totalShares, rw, cfgVars, envVars>>

Swap(u, in, inAmount, outMin) ==
    /\ ~killed["swap"]
    /\ inAmount > 0
    /\ SyncOK
    /\ \A t \in PoolTokens : Synced[t] > 0
    /\ AmountOut(Synced, in, inAmount) >= outMin
    /\ inAmount <= bal[u][in]
    /\ Trade(u, in, inAmount, AmountOut(Synced, in, inAmount),
             inAmount - AfterFee(inAmount))

\* in_max is taken first and the difference is returned.
SwapStrictReceive(u, in, outAmount, inMax) ==
    LET inAmount == AmountIn(Synced, in, outAmount)
    IN /\ ~killed["swap"]
       /\ outAmount > 0
       /\ SyncOK
       /\ \A t \in PoolTokens : Synced[t] > 0
       /\ outAmount < Synced[Other(in)]
       /\ inAmount <= inMax
       /\ inMax <= bal[u][in]
       /\ Trade(u, in, inAmount, outAmount,
                inAmount - InAfterFee(Synced, in, outAmount))

\* What n shares are worth of a token.
BugRoundsUp(t, n) == CeilDiv(Synced[t] * n, totalShares)
WithdrawnPart(t, n) == (Synced[t] * n) \div totalShares

Withdraw(u, n, minimums) ==
    LET out == [t \in PoolTokens |-> WithdrawnPart(t, n)]
        new == [t \in PoolTokens |-> Synced[t] - out[t]]
    IN /\ SyncOK
       /\ totalShares > 0
       /\ n <= totalShares /\ n <= shares[u]
       /\ \A t \in PoolTokens : minimums[t] <= out[t] /\ out[t] <= bal[Pool][t]
       /\ totalShares' = totalShares - n
       /\ shares' = [shares EXCEPT ![u] = @ - n]
       /\ bal' = Send(bal, Pool, u, out)
       /\ reserve' = new
       /\ plane' = new
       /\ syncLedger' = ledger
       /\ rw' = NewWorking(Checkpoint(rw, u, totalShares, shares[u]),
                           u, totalShares - n, shares[u] - n)
       /\ UNCHANGED <<fee, cfgVars, envVars>>

\* get_reserves and the estimates: they synchronise but leave the plane alone.
SyncReserves ==
    /\ SyncOK
    /\ reserve' = Synced
    /\ syncLedger' = ledger
    /\ UNCHANGED <<bal, shares, totalShares, fee, plane, rw, cfgVars, envVars>>

BugPushesBalance ==
    /\ plane' = [t \in PoolTokens |-> bal[Pool][t]]
    /\ UNCHANGED <<bal, shares, totalShares, reserve, fee, syncLedger, rw,
                   cfgVars, envVars>>
BackfillPlane ==
    /\ plane' = reserve
    /\ UNCHANGED <<bal, shares, totalShares, reserve, fee, syncLedger, rw,
                   cfgVars, envVars>>

-----------------------------------------------------------------------------
(* The share token                                                         *)

BugNoCallback(r, h, balance) == r

\* The token calls the pool back for both sides, before and after the move,
\* with the balance it reads then; the pool's own address is skipped.
CheckpointHolder(r, h, balance) ==
    IF h \in Users THEN Checkpoint(r, h, totalShares, balance) ELSE r

TransferShares(from, to, n) ==
    LET moved  == [[shares EXCEPT ![from] = @ - n] EXCEPT ![to] = @ + n]
        before == CheckpointHolder(CheckpointHolder(rw, from, shares[from]),
                                   to, shares[to])
    IN /\ n <= shares[from]
       /\ shares' = moved
       /\ rw' = CheckpointHolder(CheckpointHolder(before, from, moved[from]),
                                 to, moved[to])
       /\ UNCHANGED <<bal, totalShares, reserve, fee, plane, syncLedger,
                      cfgVars, envVars>>

\* A holder may burn at the token itself, which tells the pool nothing.
BurnShares(u, n) ==
    /\ n <= shares[u]
    /\ shares' = [shares EXCEPT ![u] = @ - n]
    /\ UNCHANGED <<bal, totalShares, reserve, fee, plane, syncLedger, rw,
                   cfgVars, envVars>>

-----------------------------------------------------------------------------
(* Administration: fees and kill switches                                  *)

SetProtocolFeeFraction(caller, fraction) ==
    /\ caller \in {"Admin", "OperationsAdmin"}
    /\ fraction <= FeeMultiplier
    /\ pfFraction' = fraction
    /\ UNCHANGED <<ammVars, rw, killed, envVars>>

ClaimProtocolFees(caller) ==
    /\ caller \in {"Admin", "SystemFeeAdmin"}
    /\ \A t \in PoolTokens : fee[t] <= bal[Pool][t]
    /\ bal' = Send(bal, Pool, Outside, fee)
    /\ fee' = Nothing
    /\ UNCHANGED <<shares, totalShares, reserve, plane, syncLedger, rw,
                   cfgVars, envVars>>

Kill(caller, s) ==
    /\ caller \in {"Admin", "PauseAdmin", "EmergencyPauseAdmin"}
    /\ killed' = [killed EXCEPT ![s] = TRUE]
    /\ UNCHANGED <<ammVars, rw, pfFraction, envVars>>

Unkill(caller, s) ==
    /\ caller \in {"Admin", "PauseAdmin"}
    /\ killed' = [killed EXCEPT ![s] = FALSE]
    /\ UNCHANGED <<ammVars, rw, pfFraction, envVars>>

-----------------------------------------------------------------------------
(* Rewards                                                                 *)

SetRewardsConfig(caller, expiredAt, tps) ==
    /\ caller \in {"Router", "Admin", "RewardsAdmin"}
    /\ RewardConfigAccepted(rw, ledger, expiredAt, tps)
    /\ rw' = SetRewardConfig(rw, ledger, totalShares, expiredAt, tps)
    /\ UNCHANGED <<ammVars, cfgVars, envVars>>

\* Anybody may claim for a user.  When the reward token is in the pool, the
\* claim must leave the reserve and the protocol fee in the balance.
Claim(u) ==
    LET due  == Checkpoint(rw, u, totalShares, shares[u])
        paid == due.user[u].toClaim
    IN /\ ~killed["claim"]
       /\ paid <= bal[Pool][RewardToken]
       /\ RewardToken \in PoolTokens =>
            reserve[RewardToken] + fee[RewardToken] <= bal[Pool][RewardToken] - paid
       /\ bal' = Move(bal, Pool, u, RewardToken, paid)
       /\ rw' = PayUser(due, u)
       /\ UNCHANGED <<shares, totalShares, reserve, fee, plane, syncLedger,
                      cfgVars, envVars>>

\* get_user_reward and get_rewards_info checkpoint the user they are asked for.
GetUserReward(u) ==
    /\ rw' = Checkpoint(rw, u, totalShares, shares[u])
    /\ UNCHANGED <<ammVars, cfgVars, envVars>>

\* The user himself, or an administrator for him, switches his rewards.
SetRewardsState(u, state) ==
    LET i == InitWorking(rw, u, totalShares, shares[u])
    IN /\ rw' = Checkpoint(SetUserRewardsState(i, u, shares[u], state),
                           u, totalShares, shares[u])
       /\ UNCHANGED <<ammVars, cfgVars, envVars>>

\* get_total_accumulated_reward and its siblings, on chain.
GetPoolRewards ==
    /\ rw' = UpdatePool(rw, ledger, totalShares)
    /\ UNCHANGED <<ammVars, cfgVars, envVars>>

\* get_unused_reward: what is above the unclaimed rewards and the reserve.
UnusedReward(r) ==
    MaxOf(0, bal[Pool][RewardToken]
               - (TotalConfigured(r, ledger) - r.claimed
                   + IF RewardToken \in PoolTokens THEN reserve[RewardToken] ELSE 0))

ReturnUnusedReward(caller) ==
    LET r == UpdatePool(rw, ledger, totalShares)
    IN /\ caller \in {"Admin", "RewardsAdmin"}
       /\ TotalConfigured(r, ledger) >= r.claimed
       /\ rw' = r
       /\ bal' = Move(bal, Pool, Outside, RewardToken, UnusedReward(r))
       /\ UNCHANGED <<shares, totalShares, reserve, fee, plane, syncLedger,
                      cfgVars, envVars>>

AdjustTotalAccumulatedReward(caller, diff) ==
    /\ caller \in {"Admin", "RewardsAdmin"}
    /\ UpdatePool(rw, ledger, totalShares).acc + diff \in 0..MaxAccumulated
    /\ rw' = AdjustAccumulated(rw, ledger, totalShares, diff)
    /\ UNCHANGED <<ammVars, cfgVars, envVars>>

-----------------------------------------------------------------------------
(* The surroundings                                                        *)

\* Any token reaches the pool's address by a plain transfer or by a rebase;
\* this is also how the router funds the rewards.
SendToPool(from, t, n) ==
    /\ n <= bal[from][t]
    /\ bal' = Move(bal, from, Pool, t, n)
    /\ UNCHANGED <<shares, totalShares, reserve, fee, plane, syncLedger, rw,
                   cfgVars, envVars>>

\* The locked balance the boost plugin reads changes behind the pool's back.
ChangeLock(u, n) ==
    /\ lock' = [lock EXCEPT ![u] = n]
    /\ UNCHANGED <<ammVars, rw, cfgVars, ledger>>

NextLedger ==
    /\ ledger < MaxLedger
    /\ ledger' = ledger + 1
    /\ UNCHANGED <<ammVars, rw, cfgVars, lock>>

-----------------------------------------------------------------------------
UserStep ==
    \E u \in Users :
        \/ \E d \in [PoolTokens -> DepositAmounts], m \in MinAmounts : Deposit(u, d, m)
        \/ \E t \in PoolTokens, n \in SwapAmounts, m \in MinAmounts : Swap(u, t, n, m)
        \/ \E t \in PoolTokens, n, m \in SwapAmounts : SwapStrictReceive(u, t, n, m)
        \/ \E n \in ShareAmounts, m \in [PoolTokens -> MinAmounts] : Withdraw(u, n, m)
        \/ \E to \in ShareHolders, n \in ShareAmounts : TransferShares(u, to, n)
        \/ \E n \in ShareAmounts : BurnShares(u, n)

RewardStep ==
    \/ \E u \in Users :
        \/ Claim(u)
        \/ GetUserReward(u)
        \/ \E state \in RewardSwitches : SetRewardsState(u, state)
    \/ GetPoolRewards

AdminStep ==
    \E caller \in Callers :
        \/ \E f \in ProtocolFractions : SetProtocolFeeFraction(caller, f)
        \/ ClaimProtocolFees(caller)
        \/ \E s \in Switches : Kill(caller, s) \/ Unkill(caller, s)
        \/ \E e \in Expirations, tps \in TpsValues : SetRewardsConfig(caller, e, tps)
        \/ ReturnUnusedReward(caller)
        \/ \E diff \in Diffs : AdjustTotalAccumulatedReward(caller, diff)

EnvStep ==
    \/ SyncReserves
    \/ BackfillPlane
    \/ \E from \in Users \cup {Outside}, t \in Assets, n \in GiftAmounts :
            SendToPool(from, t, n)
    \/ \E u \in Users, n \in LockAmounts : ChangeLock(u, n)
    \/ NextLedger

Next == UserStep \/ RewardStep \/ AdminStep \/ EnvStep

Spec == Init /\ [][Next]_vars

-----------------------------------------------------------------------------
(* Properties                                                              *)

\* The pool owns what it owes: after any sequence of calls its balance of each
\* token covers the reserve (the liquidity providers') and the protocol fee,
\* which deposit, both swaps, withdraw, _sync_reserves and claim_protocol_fees
\* each move separately.
Solvent ==
    \A t \in PoolTokens : reserve[t] + fee[t] <= bal[Pool][t]

\* The product of the reserves backs the square of the shares: sqrt at the
\* first deposit, floor in the later ones and in withdraw only ever round in
\* favour of the pool; without shares nothing is left behind.
SharesBacked ==
    /\ totalShares * totalShares <= reserve["A"] * reserve["B"]
    /\ totalShares = 0 => reserve = Nothing

\* No deposit, swap, withdrawal or synchronisation dilutes the value of a
\* share, sqrt(reserve_a * reserve_b) / total_shares.
ShareValueNeverFalls ==
    [][totalShares > 0 /\ totalShares' > 0 =>
        reserve["A"] * reserve["B"] * (totalShares' * totalShares')
          <= reserve'["A"] * reserve'["B"] * (totalShares * totalShares)]_vars

\* The share token never holds more than the pool's own TotalShares counts, so
\* that burn_shares cannot underflow; a burn at the token makes it less.
SharesIssued ==
    SumFunctionOnSet(shares, ShareHolders) <= totalShares

\* Whatever the kill switches, fees and earlier calls, a holder can withdraw
\* all his shares at once: no panic on the way (transfer, u128 underflow).
ExitOpen ==
    \A u \in Users : shares[u] > 0 => ENABLED Withdraw(u, shares[u], Nothing)

\* A trade priced by the pool's own formulas always passes the invariant check
\* both swaps make, and selling what swap_strict_receive asks for an amount
\* through swap buys at least that amount.
QuotesAgree ==
    (\A t \in PoolTokens : reserve[t] > 0) =>
        \A in \in PoolTokens, n \in SwapAmounts \ {0} :
            /\ InvariantHolds(reserve, in, n, AmountOut(reserve, in, n))
            /\ n < reserve[Other(in)] =>
                 LET need == AmountIn(reserve, in, n)
                 IN /\ InvariantHolds(reserve, in, need, n)
                    /\ AmountOut(reserve, in, need) >= n

\* The plane may lag behind the pool, as reads synchronise the reserves
\* without it, but it never shows more than the pool has.
PlaneNeverOverstates ==
    \A t \in PoolTokens : plane[t] <= reserve[t]

-----------------------------------------------------------------------------
\* The working supply is the sum of the working balances, through deposits,
\* withdrawals, share transfers, opt-outs and changes of the locked balance,
\* although each call only updates it by one user's difference.
WorkingSupplyIsSum ==
    Stored(rw.ws) = SumFunctionOnSet([u \in Users |-> Stored(rw.wb[u])], Users)

\* A working balance is stored before its owner has shares, so that the
\* defaults of get_working_balance are never a guess ("working balance/supply
\* were initialized, so we don't need defaults here").
DefaultsNeverUsed ==
    \A u \in Users : rw.wb[u] = Unset => shares[u] = 0

\* What all users together can claim, added to what was claimed, was generated.
RewardsCovered ==
    rw.claimed + SumFunctionOnSet([u \in Users |-> Claimable(rw, u)], Users)
      <= rw.acc

Accrued(u) == Claimable(UpdatePool(rw, ledger, totalShares), u)

\* A reward once accrued is paid to its owner or stays claimable: no call of
\* his or of anybody else, no new configuration and no passing of time
\* reduces it.
AccruedNeverLost ==
    [][\A u \in Users :
        \/ Accrued(u)' >= Accrued(u)
        \/ bal'[u][RewardToken] - bal[u][RewardToken] >= Accrued(u)]_vars

Funded ==
    LET r == UpdatePool(rw, ledger, totalShares)
    IN TotalConfigured(r, ledger) - r.claimed
         + (IF RewardToken \in PoolTokens
            THEN reserve[RewardToken] + fee[RewardToken] ELSE 0)
         <= bal[Pool][RewardToken]

\* Once the pool holds the rewards it promised, it keeps them until they are
\* claimed: only a new configuration, or an adjustment of the total, may ask for
\* more than there is.
FundedStays ==
    [][/\ Funded
       /\ rw.tps' = rw.tps /\ rw.expiredAt' = rw.expiredAt
       /\ ~\E c \in Callers, d \in Diffs : AdjustTotalAccumulatedReward(c, d)
       => Funded']_vars

\* "validate reserves after claim - they should be less than or equal to the
\* balance", of a pool whose reward token is one of its tokens.
RewardReserveInBalance ==
    RewardToken \in PoolTokens => reserve[RewardToken] <= bal[Pool][RewardToken]
=============================================================================
