----------------------------- MODULE StableSwap ------------------------------
(***************************************************************************)
(* The stable swap pool: the contract of liquidity_pool_stableswap/src,    *)
(* with the share token it owns and the reward accounting it embeds        *)
(* (module RewardsManager).  One action per entry point; a call that       *)
(* panics is rolled back as a whole, so a panic is a guard that fails.     *)
(* "ledger" is both the sequence number and the timestamp.                 *)
(*                                                                         *)
(* The two numeric solvers of the contract are Newton iterations on        *)
(* integers; they are modelled by the iteration itself, as the rounding    *)
(* of every step is what the properties are about.  The pool has no reward *)
(* gauge attached, as after initialize (see PoolGauges).                   *)
(*                                                                         *)
(* An operator whose name starts with Bug is the next one with a plausible *)
(* mistake, for the mutation runs; nothing refers to it.                   *)
(***************************************************************************)
EXTENDS RewardsManager, Functions

CONSTANTS
    Pool, Outside,      \* the pool's own address; every other account
    NCoins,             \* number of tokens of the pool, at least 2
    Decimals,           \* PrecisionMul: what an amount of a coin is scaled by
    RewardToken,        \* a coin, or the number of another token
    FeeDenominator,     \* 10_000 in the code
    InitialFee, Fees,   \* fee at initialize; values of commit_new_fee
    InitialAmp, Amps,   \* A at initialize; values of ramp_a
    MaxAmp, MaxAmpChange, MinRampTime, AdminDelay,
                        \* MAX_A, MAX_A_CHANGE, MIN_RAMP_TIME, ADMIN_ACTIONS_DELAY
    MaxIterations,      \* rounds of a Newton iteration, 255 in the code
    ProtocolFractions,  \* values of set_protocol_fee_fraction
    Callers,            \* the privileged roles somebody holds and may use
    UsedSwitches,       \* the kill switches they use
    InitialBalance,     \* balance of each user in each coin
    RewardFunds,        \* reward tokens held outside, to fund the pool with
    DepositAmounts, SwapAmounts, ShareAmounts, GiftAmounts,
                        \* amounts in calls of each kind
    TpsValues, Expirations, Diffs, RewardSwitches, LockAmounts,
                        \* arguments of reward calls
    RampEnds,           \* times at which ramp_a ends
    MaxLedger           \* bound on the ledgers explored

Coins   == 1..NCoins
Assets  == Coins \cup {RewardToken}
Holders == Users \cup {Pool, Outside}
ShareHolders == Users \cup {Pool}
Switches == {"deposit", "swap", "claim"}

ASSUME StableAssumption ==
    /\ Pool # Outside /\ {Pool, Outside} \cap Users = {}
    /\ NCoins \in Nat /\ NCoins >= 2
    /\ Decimals \in [Coins -> Nat \ {0}]
    /\ FeeDenominator \in Nat \ {0}
    /\ {InitialFee} \cup Fees \subseteq Nat /\ InitialFee < FeeDenominator
    /\ {InitialAmp} \cup Amps \subseteq Nat /\ InitialAmp > 0
    /\ {MaxAmp, MaxAmpChange, MinRampTime, AdminDelay} \subseteq Nat
    /\ MaxIterations \in Nat \ {0}
    /\ ProtocolFractions \subseteq Nat
    /\ DepositAmounts \cup SwapAmounts \cup ShareAmounts \cup GiftAmounts \subseteq Nat
    /\ InitialBalance \in Nat /\ RewardFunds \in Nat /\ MaxLedger \in Nat
    /\ RampEnds \cup TpsValues \cup Expirations \cup LockAmounts \subseteq Nat
    /\ RewardSwitches \subseteq BOOLEAN /\ Diffs \subseteq Int
    /\ UsedSwitches \subseteq Switches

VARIABLES
    bal,         \* balances of the tokens, by holder
    shares,      \* balances of the share token
    totalShares, \* TotalShares
    reserve,     \* Reserves
    protocolFee, \* ProtocolFees
    fee,         \* Fee
    pfFraction,  \* ProtocolFeeFraction
    ramp,        \* InitialA, InitialATime, FutureA, FutureATime
    pendingFee,  \* FutureFee and AdminActionsDeadline (0: none)
    killed,      \* the three kill switches
    plane,       \* what the plane contract was last told
    syncLedger,  \* ReservesSyncLedger
    ledger,      \* the current ledger
    rw,          \* the reward state
    lock         \* locked (boost) tokens of each user

ammVars == <<bal, shares, totalShares, reserve, protocolFee, syncLedger>>
cfgVars == <<fee, pfFraction, ramp, pendingFee, killed>>
envVars == <<ledger, lock>>
vars == <<bal, shares, totalShares, reserve, protocolFee, fee, pfFraction, ramp,
          pendingFee, killed, plane, syncLedger, ledger, rw, lock>>

Nothing == [i \in Coins |-> 0]

TypeOK ==
    /\ bal \in [Holders -> [Assets -> Nat]]
    /\ shares \in [ShareHolders -> Nat] /\ totalShares \in Nat
    /\ reserve \in [Coins -> Nat] /\ protocolFee \in [Coins -> Nat]
    /\ fee \in 0..(FeeDenominator - 1) /\ pfFraction \in 0..FeeDenominator
    /\ ramp \in [a0 : Nat \ {0}, t0 : Nat, a1 : Nat \ {0}, t1 : Nat]
    /\ pendingFee \in [fee : Nat, deadline : Nat]
    /\ killed \in [Switches -> BOOLEAN]
    /\ plane \in [fee : Nat, ramp : [a0 : Nat, t0 : Nat, a1 : Nat, t1 : Nat],
                  xp : [Coins -> Nat]]
    /\ syncLedger \in Nat /\ ledger \in Nat
    /\ rw \in RewardState /\ lock \in [Users -> Nat]

-----------------------------------------------------------------------------
(* The amplification coefficient                                           *)

\* a: between the two times a straight line, the way down rounded up.
AmpAt(r, now) ==
    IF now >= r.t1 THEN r.a1
    ELSE IF r.a1 > r.a0
    THEN r.a0 + ((r.a1 - r.a0) * (now - r.t0)) \div (r.t1 - r.t0)
    ELSE r.a0 - ((r.a0 - r.a1) * (now - r.t0)) \div (r.t1 - r.t0)
Amp == AmpAt(ramp, ledger)

-----------------------------------------------------------------------------
(* The invariant D and its solvers.  Fail stands for a panic: a division   *)
(* by zero, an underflow or an iteration that does not settle.  Newton *)
(* is indexed by the rounds left, MaxIterations at first.                  *)

Fail == -1
CeilDiv(x, y) == (x + y - 1) \div y
MinOf(x, y) == IF x <= y THEN x ELSE y
MaxOf(x, y) == IF x >= y THEN x ELSE y
Settled(x, y) == x - y \in {-1, 0, 1}

\* _xp: the reserves, all in the same precision.
Scaled(amounts) == [i \in Coins |-> amounts[i] * Decimals[i]]
Total(xp) == SumFunctionOnSet(xp, Coins)

\* d * d / (xp[1] n) * d / (xp[2] n) ..., over the given coins, divided by
\* floor at every factor; the order is that of the coins.
Product(xp, coins, d) ==
    LET f[i \in 0..NCoins] ==
            IF i = 0 THEN d
            ELSE IF i \in coins THEN (f[i - 1] * d) \div (xp[i] * NCoins)
            ELSE f[i - 1]
    IN f[NCoins]

NextD(xp, amp, d) ==
    LET ann == amp * NCoins
        dp  == Product(xp, Coins, d)
    IN ((ann * Total(xp) + dp * NCoins) * d)
          \div ((ann - 1) * d + (NCoins + 1) * dp)

\* _get_d
GetD(xp, amp) ==
    LET Newton[left \in 0..MaxIterations] ==
            [d \in Nat |->
                LET next == NextD(xp, amp, d)
                IN IF left = 0 \/ d = 0 THEN Fail
                   ELSE IF Settled(next, d) THEN next
                   ELSE Newton[left - 1][next]]
    IN IF Total(xp) = 0 THEN 0
       ELSE IF \E i \in Coins : xp[i] = 0 THEN Fail
       ELSE Newton[MaxIterations][Total(xp)]

\* The common part of _get_y and _get_y_d: the amount of coin out that keeps
\* the invariant at d, given the amounts xp of the others.
SolveY(xp, amp, d, out) ==
    LET others == Coins \ {out}
        ann == amp * NCoins
        c == (Product(xp, others, d) * d) \div (ann * NCoins)
        b == SumFunctionOnSet(xp, others) + d \div ann
        Newton[left \in 0..MaxIterations] ==
            [y \in Nat |->
                LET next == (y * y + c) \div (2 * y + b - d)
                IN IF left = 0 \/ 2 * y + b <= d THEN Fail
                   ELSE IF Settled(next, y) THEN next
                   ELSE Newton[left - 1][next]]
    IN IF d < 0 \/ \E i \in others : xp[i] = 0 THEN Fail
       ELSE Newton[MaxIterations][d]

\* _get_y: coin in is set to x, the invariant is that of xp before.
GetY(xp, amp, in, out, x) == SolveY([xp EXCEPT ![in] = x], amp, GetD(xp, amp), out)

-----------------------------------------------------------------------------
(* Prices                                                                  *)

FeeOn(n) == CeilDiv(n * fee, FeeDenominator)
ProtocolPart(n) == CeilDiv(n * pfFraction, FeeDenominator)

\* The fee of a balance that is not in the proportion of the others.
ImbalanceFee(n) == CeilDiv(n * fee * NCoins, 4 * (NCoins - 1) * FeeDenominator)

\* What a swap of dx pays out (swap, _get_dy): one unit less than the solver
\* says, "just in case there were some rounding errors".
AmountOut(res, in, out, dx) ==
    LET xp == Scaled(res)
        y  == GetY(xp, Amp, in, out, xp[in] + (dx - FeeOn(dx)) * Decimals[in])
    IN IF y = Fail \/ y + 1 > xp[out] THEN Fail
       ELSE (xp[out] - y - 1) \div Decimals[out]

BugRoundsInputDown(res, in, out, dy) ==
    LET xp == Scaled(res)
        x  == GetY(xp, Amp, out, in, xp[out] - dy * Decimals[out])
    IN IF x = Fail \/ x < xp[in] THEN Fail ELSE (x - xp[in]) \div (2 * Decimals[in])

\* What a swap for exactly dy takes in, without and with the fee
\* (swap_strict_receive, _get_dx).
NetIn(res, in, out, dy) ==
    LET xp == Scaled(res)
        x  == GetY(xp, Amp, out, in, xp[out] - dy * Decimals[out])
    IN IF x = Fail \/ x + 1 < xp[in] THEN Fail
       ELSE (x + 1 - xp[in]) \div Decimals[in]
GrossIn(net) == CeilDiv(net * FeeDenominator, FeeDenominator - fee)

Difference(x, y) == IF x > y THEN x - y ELSE y - x

\* The fees of moving the reserves from old to new, when d0 and d1 are the
\* invariants of the two: every coin pays for its distance from its share.
ImbalanceFees(old, new, d0, d1) ==
    [i \in Coins |-> ImbalanceFee(Difference((d1 * old[i]) \div d0, new[i]))]

\* _calc_withdraw_one_coin: the amount and its fee, or Fail as the amount.
OneCoin(res, n, i) ==
    LET xp == Scaled(res)
        d0 == GetD(xp, Amp)
        d1 == d0 - (n * d0) \div totalShares
        y  == SolveY(xp, Amp, d1, i)
        ideal == [j \in Coins |-> (xp[j] * d1) \div d0]
        moved == [j \in Coins |-> IF j = i THEN ideal[j] - y ELSE xp[j] - ideal[j]]
        left  == [j \in Coins |-> xp[j] - ImbalanceFee(moved[j])]
        y2 == SolveY(left, Amp, d1, i)
        dy == (left[i] - y2 - 1) \div Decimals[i]
        refused == [dy |-> Fail, fee |-> 0]
    IN IF d0 <= 0 \/ d1 < 0 THEN refused
       ELSE IF y = Fail \/ y > xp[i] THEN refused
       ELSE IF \E j \in Coins : moved[j] < 0 \/ left[j] < 0 THEN refused
       ELSE IF y2 = Fail \/ left[i] < y2 + 1 THEN refused
       ELSE [dy |-> dy, fee |-> (xp[i] - y) \div Decimals[i] - dy]

BugMintsForFees(old, new) ==
    LET d0 == GetD(Scaled(old), Amp)
        d1 == GetD(Scaled(new), Amp)
    IN IF d1 = Fail \/ d1 <= MaxOf(0, d0) \/ (d0 <= 0 /\ totalShares > 0)
       THEN [shares |-> Fail, fees |-> Nothing]
       ELSE IF totalShares = 0 THEN [shares |-> d1, fees |-> Nothing]
       ELSE [shares |-> (totalShares * (d1 - d0)) \div d0,
             fees |-> ImbalanceFees(old, new, d0, d1)]

\* The shares minted for new reserves, and the fees of the deposit.
Minted(old, new) ==
    LET d0 == GetD(Scaled(old), Amp)
        d1 == GetD(Scaled(new), Amp)
        fees == ImbalanceFees(old, new, d0, d1)
        net  == [i \in Coins |-> new[i] - fees[i]]
        d2 == GetD(Scaled(net), Amp)
        refused == [shares |-> Fail, fees |-> Nothing]
    IN IF d1 = Fail THEN refused
       ELSE IF totalShares = 0
       THEN IF d1 > 0 THEN [shares |-> d1, fees |-> Nothing] ELSE refused
       ELSE IF d0 <= 0 \/ d1 <= d0 THEN refused
       ELSE IF (\E i \in Coins : net[i] < 0) \/ d2 < d0 THEN refused
       ELSE [shares |-> (totalShares * (d2 - d0)) \div d0, fees |-> fees]

BugBurnsRoundedDown(old, new) ==
    LET d0 == GetD(Scaled(old), Amp)
        d1 == GetD(Scaled(new), Amp)
        fees == ImbalanceFees(old, new, d0, d1)
        d2 == GetD(Scaled([i \in Coins |-> new[i] - fees[i]]), Amp)
    IN IF d0 <= 0 \/ d1 = Fail \/ \E i \in Coins : new[i] <= fees[i]
       THEN [shares |-> Fail, fees |-> Nothing]
       ELSE [shares |-> ((d0 - d2) * totalShares) \div d0, fees |-> fees]

\* The shares remove_liquidity_imbalance burns for new reserves, one more than
\* computed, and its fees.
Burned(old, new) ==
    LET d0 == GetD(Scaled(old), Amp)
        d1 == GetD(Scaled(new), Amp)
        fees == ImbalanceFees(old, new, d0, d1)
        net  == [i \in Coins |-> new[i] - fees[i]]
        d2 == GetD(Scaled(net), Amp)
        n  == ((d0 - d2) * totalShares) \div d0
        refused == [shares |-> Fail, fees |-> Nothing]
    IN IF d0 <= 0 \/ d1 = Fail THEN refused
       ELSE IF \E i \in Coins : net[i] <= 0 THEN refused
       ELSE IF d2 = Fail \/ d2 > d0 \/ n = 0 THEN refused
       ELSE [shares |-> n + 1, fees |-> fees]

\* calc_token_amount: the shares of a deposit or a removal if it were free.
TokenAmount(old, new) ==
    LET d0 == GetD(Scaled(old), Amp)
        d1 == GetD(Scaled(new), Amp)
    IN IF d0 <= 0 \/ d1 = Fail THEN Fail
       ELSE (Difference(d1, d0) * totalShares) \div d0

-----------------------------------------------------------------------------
(* Token transfers and reserve synchronisation                             *)

Move(b, from, to, t, n) ==
    LET taken == [b EXCEPT ![from][t] = @ - n]
    IN [taken EXCEPT ![to][t] = @ + n]
SendAll(b, from, to, amounts) ==
    [b EXCEPT ![from] = [t \in Assets |-> IF t \in Coins THEN @[t] - amounts[t] ELSE @[t]],
              ![to]   = [t \in Assets |-> IF t \in Coins THEN @[t] + amounts[t] ELSE @[t]]]

\* _sync_reserves, once per ledger; see StandardPool.
MustSync == syncLedger # ledger /\ totalShares > 0
SyncOK == MustSync => \A i \in Coins \ {RewardToken} : bal[Pool][i] >= protocolFee[i]
BugSyncsFees ==
    [i \in Coins |->
        IF MustSync /\ i # RewardToken THEN MaxOf(reserve[i], bal[Pool][i]) ELSE reserve[i]]
Synced ==
    [i \in Coins |->
        IF MustSync /\ i # RewardToken
        THEN MaxOf(reserve[i], bal[Pool][i] - protocolFee[i])
        ELSE reserve[i]]

\* update_plane: the fee, the ramp and the scaled reserves.
PlaneOf(f, r, res) == [fee |-> f, ramp |-> r, xp |-> Scaled(res)]

TotalLocked == SumFunctionOnSet(lock, Users)
Checkpoint(r, u, total, userShares) ==
    CheckpointUser(r, lock, TotalLocked, ledger, u, total, userShares)

\* Shares of u change by n: the user is brought up to date before, and his
\* working balance is set after.
ChangeShares(u, n) ==
    /\ totalShares' = totalShares + n
    /\ shares' = [shares EXCEPT ![u] = @ + n]
    /\ rw' = UpdateWorkingBalance(Checkpoint(rw, u, totalShares, shares[u]),
                 lock, TotalLocked, u, totalShares + n, shares[u] + n)

\* What every call that moves tokens leaves in the pool's books.
Book(newReserve, newFees) ==
    /\ \A i \in Coins : newReserve[i] >= 0
    /\ reserve' = newReserve
    /\ protocolFee' = newFees
    /\ plane' = PlaneOf(fee, ramp, newReserve)
    /\ syncLedger' = ledger

AddFees(fees) == [i \in Coins |-> protocolFee[i] + ProtocolPart(fees[i])]
LessProtocol(res, fees) == [i \in Coins |-> res[i] - ProtocolPart(fees[i])]

Init ==
    /\ bal = [h \in Holders |-> [t \in Assets |->
                 IF h \in Users /\ t \in Coins THEN InitialBalance
                 ELSE IF h = Outside /\ t = RewardToken THEN RewardFunds
                 ELSE 0]]
    /\ shares = [h \in ShareHolders |-> 0]
    /\ totalShares = 0
    /\ reserve = Nothing /\ protocolFee = Nothing
    /\ ledger = 1
    /\ fee = InitialFee /\ pfFraction = 0
    /\ ramp = [a0 |-> InitialAmp, t0 |-> ledger, a1 |-> InitialAmp, t1 |-> ledger]
    /\ pendingFee = [fee |-> 0, deadline |-> 0]
    /\ killed = [s \in Switches |-> FALSE]
    /\ plane = PlaneOf(fee, ramp, reserve)
    /\ syncLedger = 0
    /\ rw = EmptyRewards
    /\ lock = [u \in Users |-> 0]

-----------------------------------------------------------------------------
(* Liquidity                                                               *)

Deposit(u, amounts) ==
    /\ ~killed["deposit"]
    /\ SyncOK
    /\ totalShares = 0 => \A i \in Coins : amounts[i] > 0
    /\ \A i \in Coins : amounts[i] <= bal[u][i]
    /\ \E new \in {[i \in Coins |-> Synced[i] + amounts[i]]} :
       \E mint \in {Minted(Synced, new)} :
          /\ mint.shares # Fail
          /\ ChangeShares(u, mint.shares)
          /\ Book(LessProtocol(new, mint.fees), AddFees(mint.fees))
    /\ bal' = SendAll(bal, u, Pool, amounts)
    /\ UNCHANGED <<cfgVars, envVars>>

\* Open whatever is killed.
ShareOf(n) == [i \in Coins |-> (Synced[i] * n) \div totalShares]
Withdraw(u, n) ==
    /\ SyncOK
    /\ totalShares > 0
    /\ n <= shares[u] /\ n <= totalShares
    /\ \A i \in Coins : ShareOf(n)[i] <= MinOf(Synced[i], bal[Pool][i])
    /\ ChangeShares(u, -n)
    /\ bal' = SendAll(bal, Pool, u, ShareOf(n))
    /\ Book([i \in Coins |-> Synced[i] - ShareOf(n)[i]], protocolFee)
    /\ UNCHANGED <<cfgVars, envVars>>

\* maxBurn is burned first and the difference minted back.
RemoveLiquidityImbalance(u, amounts, maxBurn) ==
    /\ ~killed["swap"]
    /\ SyncOK
    /\ totalShares > 0
    /\ \A i \in Coins : amounts[i] < Synced[i] /\ amounts[i] <= bal[Pool][i]
    /\ maxBurn <= shares[u] /\ maxBurn <= totalShares
    /\ \E new \in {[i \in Coins |-> Synced[i] - amounts[i]]} :
       \E burn \in {Burned(Synced, new)} :
          /\ burn.shares # Fail /\ burn.shares <= maxBurn
          /\ ChangeShares(u, -burn.shares)
          /\ Book(LessProtocol(new, burn.fees), AddFees(burn.fees))
    /\ bal' = SendAll(bal, Pool, u, amounts)
    /\ UNCHANGED <<cfgVars, envVars>>

WithdrawOneCoin(u, n, i, minAmount) ==
    /\ ~killed["swap"]
    /\ SyncOK
    /\ totalShares > 0
    /\ n <= shares[u] /\ n <= totalShares
    /\ \E one \in {OneCoin(Synced, n, i)} :
       \E fees \in {[Nothing EXCEPT ![i] = one.fee]} :
          /\ one.dy # Fail /\ one.dy >= minAmount /\ one.fee >= 0
          /\ one.dy <= bal[Pool][i]
          /\ bal' = Move(bal, Pool, u, i, one.dy)
          /\ Book(LessProtocol([Synced EXCEPT ![i] = @ - one.dy], fees), AddFees(fees))
    /\ ChangeShares(u, -n)
    /\ UNCHANGED <<cfgVars, envVars>>

-----------------------------------------------------------------------------
(* Swaps                                                                   *)

Trade(u, in, out, dx, dy, dxFee) ==
    LET fees == [Nothing EXCEPT ![in] = dxFee]
        new  == [Synced EXCEPT ![in] = @ + dx, ![out] = @ - dy]
    IN /\ dy <= bal[Pool][out]
       /\ bal' = Move(Move(bal, u, Pool, in, dx), Pool, u, out, dy)
       /\ Book(LessProtocol(new, fees), AddFees(fees))
       /\ UNCHANGED <<shares, totalShares, rw, cfgVars, envVars>>

Swap(u, in, out, dx, outMin) ==
    /\ ~killed["swap"]
    /\ in # out /\ dx > 0
    /\ SyncOK
    /\ dx <= bal[u][in]
    /\ Synced[in] > 0 /\ Synced[out] > 0
    /\ \E dy \in {AmountOut(Synced, in, out, dx)} :
          /\ dy # Fail /\ dy >= outMin
          /\ Trade(u, in, out, dx, dy, FeeOn(dx))

\* in_max is taken first and the difference returned.
SwapStrictReceive(u, in, out, dy, inMax) ==
    /\ ~killed["swap"]
    /\ in # out /\ dy > 0
    /\ SyncOK
    /\ inMax <= bal[u][in]
    /\ Synced[in] > 0 /\ dy < Synced[out]
    /\ \E net \in {NetIn(Synced, in, out, dy)} :
          /\ net # Fail /\ GrossIn(net) <= inMax
          /\ Trade(u, in, out, GrossIn(net), dy, GrossIn(net) - net)

\* get_reserves, get_virtual_price, calc_token_amount, calc_withdraw_one_coin
\* and the estimates synchronise the reserves; the plane is not told.
SyncReserves ==
    /\ SyncOK
    /\ reserve' = Synced
    /\ syncLedger' = ledger
    /\ UNCHANGED <<bal, shares, totalShares, protocolFee, plane, rw, cfgVars, envVars>>

BackfillPlane ==
    /\ plane' = PlaneOf(fee, ramp, reserve)
    /\ UNCHANGED <<ammVars, rw, cfgVars, envVars>>

-----------------------------------------------------------------------------
(* The share token, which calls the pool back; see StandardPool            *)

CheckpointHolder(r, h, balance) ==
    IF h \in Users THEN Checkpoint(r, h, totalShares, balance) ELSE r

TransferShares(from, to, n) ==
    LET moved  == [[shares EXCEPT ![from] = @ - n] EXCEPT ![to] = @ + n]
        before == CheckpointHolder(CheckpointHolder(rw, from, shares[from]),
                                   to, shares[to])
    IN /\ n <= shares[from]
       /\ shares' = moved
       /\ rw' = CheckpointHolder(CheckpointHolder(before, from, moved[from]),
                                 to, moved[to])
       /\ UNCHANGED <<bal, totalShares, reserve, protocolFee, plane, syncLedger,
                      cfgVars, envVars>>

-----------------------------------------------------------------------------
(* Administration                                                          *)

Operations == {"Admin", "OperationsAdmin"}

RampA(caller, a, t) ==
    /\ caller \in Operations
    /\ ledger >= ramp.t0 + MinRampTime
    /\ t >= ledger + MinRampTime
    /\ a > 0 /\ a < MaxAmp
    /\ \/ a >= Amp /\ a <= Amp * MaxAmpChange
       \/ a < Amp /\ a * MaxAmpChange >= Amp
    /\ ramp' = [a0 |-> Amp, t0 |-> ledger, a1 |-> a, t1 |-> t]
    /\ plane' = PlaneOf(fee, ramp', reserve)
    /\ UNCHANGED <<ammVars, fee, pfFraction, pendingFee, killed, rw, envVars>>

BugLeavesPlaneRamping(caller) ==
    /\ caller \in Operations
    /\ ramp' = [a0 |-> Amp, t0 |-> ledger, a1 |-> Amp, t1 |-> ledger]
    /\ UNCHANGED <<ammVars, fee, pfFraction, pendingFee, killed, plane, rw, envVars>>

StopRampA(caller) ==
    /\ caller \in Operations
    /\ ramp' = [a0 |-> Amp, t0 |-> ledger, a1 |-> Amp, t1 |-> ledger]
    /\ plane' = PlaneOf(fee, ramp', reserve)
    /\ UNCHANGED <<ammVars, fee, pfFraction, pendingFee, killed, rw, envVars>>

CommitNewFee(caller, newFee) ==
    /\ caller \in Operations
    /\ pendingFee.deadline = 0
    /\ newFee < FeeDenominator
    /\ pendingFee' = [fee |-> newFee, deadline |-> ledger + AdminDelay]
    /\ UNCHANGED <<ammVars, fee, pfFraction, ramp, killed, plane, rw, envVars>>

BugAppliesEarly(caller) ==
    /\ caller \in Operations
    /\ pendingFee.deadline # 0
    /\ pendingFee' = [pendingFee EXCEPT !.deadline = 0]
    /\ fee' = pendingFee.fee
    /\ plane' = PlaneOf(pendingFee.fee, ramp, reserve)
    /\ UNCHANGED <<ammVars, pfFraction, ramp, killed, rw, envVars>>

ApplyNewFee(caller) ==
    /\ caller \in Operations
    /\ pendingFee.deadline # 0 /\ ledger >= pendingFee.deadline
    /\ pendingFee' = [pendingFee EXCEPT !.deadline = 0]
    /\ fee' = pendingFee.fee
    /\ plane' = PlaneOf(pendingFee.fee, ramp, reserve)
    /\ UNCHANGED <<ammVars, pfFraction, ramp, killed, rw, envVars>>

RevertNewParameters(caller) ==
    /\ caller \in Operations
    /\ pendingFee' = [pendingFee EXCEPT !.deadline = 0]
    /\ UNCHANGED <<ammVars, fee, pfFraction, ramp, killed, plane, rw, envVars>>

SetProtocolFeeFraction(caller, fraction) ==
    /\ caller \in Operations
    /\ fraction <= FeeDenominator
    /\ pfFraction' = fraction
    /\ UNCHANGED <<ammVars, fee, ramp, pendingFee, killed, plane, rw, envVars>>

ClaimProtocolFees(caller) ==
    /\ caller \in {"Admin", "SystemFeeAdmin"}
    /\ \A i \in Coins : protocolFee[i] <= bal[Pool][i]
    /\ bal' = SendAll(bal, Pool, Outside, protocolFee)
    /\ protocolFee' = Nothing
    /\ UNCHANGED <<shares, totalShares, reserve, syncLedger, plane, rw, cfgVars, envVars>>

Kill(caller, s) ==
    /\ caller \in {"Admin", "PauseAdmin", "EmergencyPauseAdmin"}
    /\ killed' = [killed EXCEPT ![s] = TRUE]
    /\ UNCHANGED <<ammVars, fee, pfFraction, ramp, pendingFee, plane, rw, envVars>>
Unkill(caller, s) ==
    /\ caller \in {"Admin", "PauseAdmin"}
    /\ killed' = [killed EXCEPT ![s] = FALSE]
    /\ UNCHANGED <<ammVars, fee, pfFraction, ramp, pendingFee, plane, rw, envVars>>

-----------------------------------------------------------------------------
(* Rewards                                                                 *)

\* The calls that only touch the reward state.
RewardsBecome(r) ==
    /\ rw' = r
    /\ UNCHANGED <<ammVars, plane, cfgVars, envVars>>

SetRewardsConfig(caller, expiredAt, tps) ==
    /\ caller \in {"Router", "Admin", "RewardsAdmin"}
    /\ RewardConfigAccepted(rw, ledger, expiredAt, tps)
    /\ RewardsBecome(SetRewardConfig(rw, ledger, totalShares, expiredAt, tps))

\* Anybody may claim for a user; the reserve is read as it is stored.
Claim(u) ==
    LET due  == Checkpoint(rw, u, totalShares, shares[u])
        paid == due.user[u].toClaim
    IN /\ ~killed["claim"]
       /\ paid <= bal[Pool][RewardToken]
       /\ RewardToken \in Coins =>
            reserve[RewardToken] + protocolFee[RewardToken] <= bal[Pool][RewardToken] - paid
       /\ bal' = Move(bal, Pool, u, RewardToken, paid)
       /\ rw' = PayUser(due, u)
       /\ UNCHANGED <<shares, totalShares, reserve, protocolFee, syncLedger, plane,
                      cfgVars, envVars>>

GetUserReward(u) == RewardsBecome(Checkpoint(rw, u, totalShares, shares[u]))

SetRewardsState(u, state) ==
    LET i == InitWorking(rw, u, totalShares, shares[u])
    IN RewardsBecome(Checkpoint(SetUserRewardsState(i, u, shares[u], state),
                                u, totalShares, shares[u]))

GetPoolRewards == RewardsBecome(UpdatePool(rw, ledger, totalShares))

\* get_unused_reward, after which the reserves are synchronised when the
\* reward token is a coin; the protocol fees are not kept.
ReturnUnusedReward(caller) ==
    LET r == UpdatePool(rw, ledger, totalShares)
        inPool == RewardToken \in Coins
        keep == TotalConfigured(r, ledger) - r.claimed
                  + IF inPool THEN Synced[RewardToken] ELSE 0
    IN /\ caller \in {"Admin", "RewardsAdmin"}
       /\ TotalConfigured(r, ledger) >= r.claimed
       /\ inPool => SyncOK
       /\ rw' = r
       /\ bal' = Move(bal, Pool, Outside, RewardToken,
                      MaxOf(0, bal[Pool][RewardToken] - keep))
       /\ reserve' = IF inPool THEN Synced ELSE reserve
       /\ syncLedger' = IF inPool THEN ledger ELSE syncLedger
       /\ UNCHANGED <<shares, totalShares, protocolFee, plane, cfgVars, envVars>>

AdjustTotalAccumulatedReward(caller, diff) ==
    /\ caller \in {"Admin", "RewardsAdmin"}
    /\ UpdatePool(rw, ledger, totalShares).acc + diff >= 0
    /\ RewardsBecome(AdjustAccumulated(rw, ledger, totalShares, diff))

-----------------------------------------------------------------------------
(* The surroundings                                                        *)

SendToPool(from, t, n) ==
    /\ n <= bal[from][t]
    /\ bal' = Move(bal, from, Pool, t, n)
    /\ UNCHANGED <<shares, totalShares, reserve, protocolFee, syncLedger, plane, rw,
                   cfgVars, envVars>>

ChangeLock(u, n) ==
    /\ lock' = [lock EXCEPT ![u] = n]
    /\ UNCHANGED <<ammVars, plane, rw, cfgVars, ledger>>

NextLedger ==
    /\ ledger < MaxLedger
    /\ ledger' = ledger + 1
    /\ UNCHANGED <<ammVars, plane, rw, cfgVars, lock>>

-----------------------------------------------------------------------------
UserStep ==
    \E u \in Users :
        \/ \E amounts \in [Coins -> DepositAmounts] : Deposit(u, amounts)
        \/ \E n \in ShareAmounts : Withdraw(u, n)
        \/ \E amounts \in [Coins -> SwapAmounts \cup {0}], n \in ShareAmounts :
                RemoveLiquidityImbalance(u, amounts, n)
        \/ \E n \in ShareAmounts, i \in Coins : WithdrawOneCoin(u, n, i, 0)
        \/ \E in, out \in Coins, n \in SwapAmounts :
            \/ Swap(u, in, out, n, 0)
            \/ SwapStrictReceive(u, in, out, n, bal[u][in])
        \/ \E to \in ShareHolders, n \in ShareAmounts : TransferShares(u, to, n)

RewardStep ==
    \/ \E u \in Users :
        \/ Claim(u)
        \/ GetUserReward(u)
        \/ \E state \in RewardSwitches : SetRewardsState(u, state)
    \/ GetPoolRewards

AdminStep ==
    \E caller \in Callers :
        \/ \E a \in Amps, t \in RampEnds : RampA(caller, a, t)
        \/ StopRampA(caller)
        \/ \E f \in Fees : CommitNewFee(caller, f)
        \/ ApplyNewFee(caller)
        \/ RevertNewParameters(caller)
        \/ \E f \in ProtocolFractions : SetProtocolFeeFraction(caller, f)
        \/ ClaimProtocolFees(caller)
        \/ \E s \in UsedSwitches : Kill(caller, s) \/ Unkill(caller, s)
        \/ \E e \in Expirations, tps \in TpsValues : SetRewardsConfig(caller, e, tps)
        \/ ReturnUnusedReward(caller)
        \/ \E diff \in Diffs : AdjustTotalAccumulatedReward(caller, diff)

EnvStep ==
    \/ SyncReserves
    \/ BackfillPlane
    \/ \E from \in Users \cup {Outside}, t \in Assets, n \in GiftAmounts :
            SendToPool(from, t, n)
    \/ \E u \in Users, n \in LockAmounts : ChangeLock(u, n)
    \/ NextLedger

Next == UserStep \/ RewardStep \/ AdminStep \/ EnvStep

Spec == Init /\ [][Next]_vars

-----------------------------------------------------------------------------
(* Properties                                                              *)

\* The pool owns what it owes: reserve and protocol fee of every coin are in
\* its balance, whichever of the six calls that move tokens came before.
Solvent ==
    \A i \in Coins : reserve[i] + protocolFee[i] <= bal[Pool][i]

\* The value of a share, get_virtual_price, survives every call: a deposit to a
\* pool that others have shares of, with its fees taken off, mints no more than
\* it adds, and no removal or swap takes more than it costs.  The value before is
\* that of the reserves as the call finds them, gifts included (_sync_reserves).
\* D itself is an integer that settles within one unit, so one unit is allowed for.
ShareValueNeverFalls ==
    [][/\ <<reserve, totalShares>>' # <<reserve, totalShares>>
       /\ ledger' = ledger /\ totalShares > 0 /\ totalShares' > 0
       /\ \A i \in Coins : reserve[i] > 0 /\ reserve'[i] > 0
       =>
        GetD(Scaled(Synced), Amp) * totalShares'
            <= (GetD(Scaled(reserve'), Amp) + 1) * totalShares]_vars

\* The quotes of the pool fit together: selling what swap_strict_receive asks
\* for an amount through swap buys that amount, but for the unit lost to a coin
\* of fewer decimals, although the two solve for different coins; and deposits
\* and imbalanced removals never give more than calc_token_amount, which knows
\* no fees.
QuotesAgree ==
    (\A i \in Coins : reserve[i] > 0) /\ totalShares > 0 =>
        \A in \in Coins, n \in SwapAmounts :
            /\ \A out \in Coins \ {in} :
                  n < reserve[out] =>
                     \A net \in {NetIn(reserve, in, out, n)} :
                        net # Fail =>
                           AmountOut(reserve, in, out, GrossIn(net)) >= n - 1
            /\ \A more \in {[reserve EXCEPT ![in] = @ + n]} :
                  Minted(reserve, more).shares <= TokenAmount(reserve, more)
            /\ n < reserve[in] =>
                  \A less \in {[reserve EXCEPT ![in] = @ - n]} :
                     \A burn \in {Burned(reserve, less).shares} :
                        burn # Fail => burn >= TokenAmount(reserve, less)

\* The plane describes the pool: always its fee and its ramp, and never more
\* than its reserves, which the reads synchronise without telling the plane.
PlaneFollows ==
    /\ plane.fee = fee /\ plane.ramp = ramp
    /\ \A i \in Coins : plane.xp[i] <= Scaled(reserve)[i]

\* A fee takes effect only when it was committed, not reverted, and
\* ADMIN_ACTIONS_DELAY has passed since.  There is always a fee, and
\* FeeDenominator is none.
FeeChange == INSTANCE DelayedAction WITH
    Values <- Fees \cup {InitialFee}, Nobody <- FeeDenominator, Delay <- AdminDelay,
    active <- fee, clock <- ledger, waived <- FALSE,
    pending <- IF pendingFee.deadline = 0 THEN {}
               ELSE {[value |-> pendingFee.fee, since |-> pendingFee.deadline - AdminDelay]}
FeeDelayed == FeeChange!Spec

=============================================================================
