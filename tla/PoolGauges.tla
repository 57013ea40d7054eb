----------------------------- MODULE PoolGauges -----------------------------
(***************************************************************************)
(* A pool and one of its reward gauges: liquidity_pool/src/contract.rs     *)
(* with the gauge operations of liquidity_pool_reward_gauge/src, the       *)
(* working balances of RewardsManager and the gauge of RewardsGauge.       *)
(*                                                                         *)
(* The gauge never sees shares: the pool tells it a working balance and    *)
(* the working supply, and must do so before either changes, in every one  *)
(* of the entry points that change them.  Here is who calls what in which  *)
(* order; the amounts of StandardPool are left out (a deposit mints, a     *)
(* withdrawal burns any of the given amounts), and the pool's own reward   *)
(* stays zero (no configuration), as gauges and rewards only share the     *)
(* working balances.  The gauges of a pool are independent of each other,  *)
(* so there is one; what the router deploys after this one was removed is  *)
(* another gauge.                                                          *)
(***************************************************************************)
EXTENDS RewardsManager, Functions

CONSTANTS
    MaxRewardConfigs,       \* MAX_REWARD_CONFIGS, 10 in the code
    ShareAmounts,           \* amounts minted, burned and transferred
    MaxShares,              \* bound on the total of shares, and on the counter of
                            \* excluded shares, which otherwise grows for ever
    LockAmounts,            \* boost tokens a user may lock
    RewardSwitches,         \* arguments of set_rewards_state
    KillSwitches,           \* TRUE: kill_gauges_claim, FALSE: unkill_gauges_claim
    StartDelays, Durations, TpsValues, \* arguments of gauge_schedule_reward
    MaxScheduled,           \* bound on the configurations scheduled
    MayDetach,              \* whether the admin removes the gauge
    MaxLedger               \* bound on the ledgers explored

ASSUME PoolGaugesAssumption ==
    /\ MaxRewardConfigs \in Nat
    /\ ShareAmounts \subseteq Nat /\ MaxShares \in Nat
    /\ LockAmounts \subseteq Nat /\ RewardSwitches \cup KillSwitches \subseteq BOOLEAN
    /\ StartDelays \subseteq Nat /\ Durations \subseteq Nat /\ TpsValues \subseteq Nat
    /\ MaxScheduled \in Nat /\ MayDetach \in BOOLEAN /\ MaxLedger \in Nat

VARIABLES
    shares,      \* balances of the share token
    totalShares, \* the pool's TotalShares
    rw,          \* the pool's reward state; here only its working balances
    lock,        \* locked (boost) tokens of each user
    ledger,      \* the current timestamp
    gauge,       \* the state of the gauge
    attached,    \* whether the pool's RewardGaugesMap has the gauge
    killed,      \* IsKilledGaugesClaim
    scheduled,   \* how many configurations were scheduled
    detached,    \* history: the gauge was removed at least once
    owed         \* history: what each user earned second by second, less what
                 \* the gauge transferred to him; until it is detached

poolVars == <<shares, totalShares, rw, lock>>
mapVars  == <<attached, killed, scheduled, detached>>
vars == <<poolVars, ledger, gauge, mapVars, owed>>

Gauge == INSTANCE RewardsGauge

TypeOK ==
    /\ shares \in [Users -> Nat] /\ totalShares \in Nat
    /\ rw \in RewardState /\ lock \in [Users -> Nat]
    /\ ledger \in Nat
    /\ gauge \in Gauge!GaugeState
    /\ attached \in BOOLEAN /\ killed \in BOOLEAN /\ detached \in BOOLEAN
    /\ scheduled \in Nat
    /\ owed \in [Users -> Int]

Init ==
    /\ shares = [u \in Users |-> 0]
    /\ totalShares = 0
    /\ rw = EmptyRewards
    /\ lock = [u \in Users |-> 0]
    /\ ledger = 1
    /\ gauge = Gauge!EmptyGauge
    /\ attached = FALSE /\ killed = FALSE /\ scheduled = 0
    /\ detached = FALSE
    /\ owed = [u \in Users |-> 0]

-----------------------------------------------------------------------------
(* One call inside a transaction: from a pair of reward state and gauge    *)
(* state to the pair it leaves behind.                                     *)

State == [rw |-> rw, gauge |-> gauge]

\* operations::checkpoint_user, with the working balance and supply as they
\* are stored now (and stored now if they were not).
CheckpointGauge(s, u, userShares, total) ==
    LET r == InitWorking(s.rw, u, total, userShares)
    IN  [rw |-> r,
         gauge |-> IF attached
                   THEN Gauge!CheckpointUser(s.gauge, ledger, u, r.wb[u], r.ws)
                   ELSE s.gauge]

TotalLocked == SumFunctionOnSet(lock, Users)

CheckpointRewards(s, u, userShares, total) ==
    [s EXCEPT !.rw = CheckpointUser(@, lock, TotalLocked, ledger, u, total, userShares)]

SetWorking(s, u, userShares, total) ==
    [s EXCEPT !.rw = UpdateWorkingBalance(@, lock, TotalLocked, u, total, userShares)]

BugRewardsFirst(s, u, userShares, total) ==
    CheckpointGauge(CheckpointRewards(s, u, userShares, total), u, userShares, total)

\* Both checkpoints, in the order of every entry point: the rewards' one may
\* change the working balance.
CheckpointBoth(s, u, userShares, total) ==
    CheckpointRewards(CheckpointGauge(s, u, userShares, total), u, userShares, total)

\* A checkpoint that would abort aborts the whole call.
GaugeOK == attached => Gauge!CheckpointOK(gauge, ledger)

Become(s) == rw' = s.rw /\ gauge' = s.gauge

-----------------------------------------------------------------------------
(* Entry points of the pool that checkpoint the gauge                      *)

\* "Checkpoint resulting working balance": a second gauge checkpoint.
Deposit(u, minted) ==
    LET total == totalShares + minted
        before == CheckpointBoth(State, u, shares[u], totalShares)
        second == CheckpointGauge(before, u, 0, 0)
    IN  /\ total <= MaxShares
        /\ GaugeOK
        /\ shares' = [shares EXCEPT ![u] = @ + minted]
        /\ totalShares' = total
        /\ Become(SetWorking(second, u, shares[u] + minted, total))
        /\ UNCHANGED <<lock, ledger, mapVars, owed>>

Withdraw(u, n) ==
    LET before == CheckpointBoth(State, u, shares[u], totalShares)
        second == CheckpointGauge(before, u, shares[u] - n, totalShares - n)
    IN  /\ n <= shares[u] /\ totalShares > 0
        /\ GaugeOK
        /\ shares' = [shares EXCEPT ![u] = @ - n]
        /\ totalShares' = totalShares - n
        /\ Become(SetWorking(second, u, shares[u] - n, totalShares - n))
        /\ UNCHANGED <<lock, ledger, mapVars, owed>>

\* The share token calls checkpoint_reward for both sides before it moves the
\* shares and checkpoint_working_balance for both sides after.
TransferShares(from, to, n) ==
    LET moved == [[shares EXCEPT ![from] = @ - n] EXCEPT ![to] = @ + n]
        s1 == CheckpointBoth(State, from, shares[from], totalShares)
        s2 == CheckpointBoth(s1, to, shares[to], totalShares)
        s3 == CheckpointBoth(s2, from, moved[from], totalShares)
    IN  /\ n <= shares[from]
        /\ GaugeOK
        /\ shares' = moved
        /\ Become(CheckpointBoth(s3, to, moved[to], totalShares))
        /\ UNCHANGED <<totalShares, lock, ledger, mapVars, owed>>

\* A holder may burn at the token itself, which tells the pool nothing.
BurnShares(u, n) ==
    /\ n <= shares[u]
    /\ shares' = [shares EXCEPT ![u] = @ - n]
    /\ UNCHANGED <<totalShares, rw, lock, ledger, gauge, mapVars, owed>>

\* claim of the pool's own reward (here zero), between two gauge checkpoints.
Claim(u) ==
    LET before == CheckpointBoth(State, u, shares[u], totalShares)
    IN  /\ GaugeOK
        /\ Become(CheckpointGauge([before EXCEPT !.rw = PayUser(@, u)],
                                  u, shares[u], totalShares))
        /\ UNCHANGED <<shares, totalShares, lock, ledger, mapVars, owed>>

\* get_user_reward and get_rewards_info, for anybody by anybody.
GetUserReward(u) ==
    /\ GaugeOK
    /\ Become(CheckpointBoth(State, u, shares[u], totalShares))
    /\ UNCHANGED <<shares, totalShares, lock, ledger, mapVars, owed>>

\* set_rewards_state and admin_set_rewards_state
SetRewardsState(u, value) ==
    LET first == CheckpointGauge(State, u, shares[u], totalShares)
        switched == [first EXCEPT !.rw = SetUserRewardsState(@, u, shares[u], value)]
        settled == CheckpointRewards(switched, u, shares[u], totalShares)
    IN  /\ switched.rw.excluded <= MaxShares
        /\ GaugeOK
        /\ Become(CheckpointGauge(settled, u, shares[u], totalShares))
        /\ UNCHANGED <<shares, totalShares, lock, ledger, mapVars, owed>>

-----------------------------------------------------------------------------
(* The gauge interface of the pool                                         *)

\* gauges_get_reward_info checkpoints the gauge, not the rewards.
GaugesGetRewardInfo(u) ==
    /\ GaugeOK
    /\ Become(CheckpointGauge(State, u, shares[u], totalShares))
    /\ UNCHANGED <<shares, totalShares, lock, ledger, mapVars, owed>>

GaugesClaim(u) ==
    LET s == CheckpointGauge(State, u, shares[u], totalShares)
    IN  /\ attached /\ ~killed
        /\ GaugeOK
        /\ Become([s EXCEPT !.gauge = Gauge!Pay(@, u)])
        /\ owed' = IF detached THEN owed
                   ELSE [owed EXCEPT ![u] = @ - Gauge!TransferAmount(s.gauge, u)]
        /\ UNCHANGED <<shares, totalShares, lock, ledger, mapVars>>

\* pool_gauge_schedule_reward of the router: attaches a gauge when the pool has
\* none for the token, then has the pool schedule the reward.
GaugeScheduleReward(delay, duration, tps) ==
    LET r == InitWorkingSupply(rw, totalShares)
    IN  /\ attached \/ ~detached
        /\ scheduled < MaxScheduled
        /\ Gauge!CheckpointOK(gauge, ledger)
        /\ Gauge!ConfigAccepted(gauge, ledger, ledger + delay, duration, tps)
        /\ Become([rw |-> r,
                   gauge |-> Gauge!ScheduleRewardsConfig(gauge, scheduled, ledger,
                                        ledger + delay, duration, tps, r.ws)])
        /\ attached' = TRUE
        /\ scheduled' = scheduled + 1
        /\ UNCHANGED <<shares, totalShares, lock, ledger, killed, detached, owed>>

\* gauge_add: the operations admin may also put a removed gauge back.
GaugeAdd ==
    /\ ~attached
    /\ attached' = TRUE
    /\ UNCHANGED <<poolVars, ledger, gauge, killed, scheduled, detached, owed>>

GaugeRemove ==
    /\ MayDetach /\ attached
    /\ attached' = FALSE
    /\ detached' = TRUE
    /\ owed' = [u \in Users |-> 0]
    /\ UNCHANGED <<poolVars, ledger, gauge, killed, scheduled>>

\* kill_gauges_claim and unkill_gauges_claim
SwitchGaugesClaim(value) ==
    /\ killed' = value
    /\ UNCHANGED <<poolVars, ledger, gauge, attached, scheduled, detached, owed>>

-----------------------------------------------------------------------------
(* The surroundings                                                        *)

ChangeLock(u, n) ==
    /\ lock' = [lock EXCEPT ![u] = n]
    /\ UNCHANGED <<shares, totalShares, rw, ledger, gauge, mapVars, owed>>

\* A second passes; everybody earns his part of what it generates.
Tick ==
    /\ ledger < MaxLedger
    /\ ledger' = ledger + 1
    /\ owed' = [u \in Users |->
                owed[u] + IF detached \/ Stored(rw.ws) = 0 THEN 0
                         ELSE (Gauge!Rate(gauge, ledger) * Stored(rw.wb[u])) \div rw.ws]
    /\ UNCHANGED <<poolVars, gauge, mapVars>>

Next ==
    \/ \E u \in Users :
        \/ \E n \in ShareAmounts :
            \/ Deposit(u, n)
            \/ Withdraw(u, n)
            \/ BurnShares(u, n)
            \/ \E to \in Users : TransferShares(u, to, n)
        \/ Claim(u)
        \/ GetUserReward(u)
        \/ \E value \in RewardSwitches : SetRewardsState(u, value)
        \/ GaugesGetRewardInfo(u)
        \/ GaugesClaim(u)
        \/ \E n \in LockAmounts : ChangeLock(u, n)
    \/ \E delay \in StartDelays, duration \in Durations, tps \in TpsValues :
            GaugeScheduleReward(delay, duration, tps)
    \/ GaugeAdd
    \/ GaugeRemove
    \/ \E value \in KillSwitches : SwitchGaugesClaim(value)
    \/ Tick

Spec == Init /\ [][Next]_vars

-----------------------------------------------------------------------------
(* Properties                                                              *)

\* The gauge after a checkpoint of everybody, now.
Settled ==
    LET all == Gauge!CheckpointGlobal(gauge, ledger, Stored(rw.ws))
    IN  [all EXCEPT !.user = [u \in Users |->
            Gauge!SettleUser(all, u, Stored(rw.wb[u])).user[u]]]

\* The lazy index pays what a second-by-second distribution would have paid:
\* whatever the order of deposits, withdrawals, share transfers, opt-outs and
\* claims, each user is owed exactly his part of every second.  Stated for
\* instances whose amounts divide without a rest (see the run).
PaysTheStream ==
    ~detached => \A u \in Users : Settled.user[u].toClaim = owed[u]

\* The cap of claim withholds nothing: as long as the gauge was not taken off
\* the pool, what all users can claim was accumulated and not claimed yet.
CapNeverBites ==
    ~detached =>
        SumFunctionOnSet([u \in Users |-> Settled.user[u].toClaim], Users)
            <= Settled.accumulated - Settled.claimed

\* The gauge holds exactly what it still has to stream and what it accumulated
\* and did not pay; removing it, putting it back and a late checkpoint included.
GaugeFunded ==
    gauge.bal = gauge.accumulated - gauge.claimed + Gauge!Unstreamed(gauge)

\* "reward_end - reward_start" never underflows: a gauge that kept an expired
\* configuration would abort every deposit, withdrawal and share transfer of
\* the pool from then on.
NeverBlocksPool == Gauge!CheckpointOK(gauge, ledger)

=============================================================================
