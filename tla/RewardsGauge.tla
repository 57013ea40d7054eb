---------------------------- MODULE RewardsGauge ----------------------------
(***************************************************************************)
(* A reward gauge: the contract of rewards_gauge/src, which streams one    *)
(* token to the liquidity providers of one pool.  The pool calls it before *)
(* it changes a working balance; the gauge never calls back.  As the pool  *)
(* makes several calls in one transaction, the contract is given here as   *)
(* operators from the gauge's state (a record, see GaugeState) to the      *)
(* state a call leaves behind, which module PoolGauges puts in sequence.   *)
(*                                                                         *)
(* An operator whose name starts with Bug is the next one with a plausible *)
(* mistake, for the mutation runs; nothing refers to it.                   *)
(***************************************************************************)
EXTENDS Integers, FiniteSets, Functions

CONSTANTS
    Users,           \* the liquidity providers
    RewardPrecision, \* scale of the reward-per-share index
    MaxRewardConfigs \* MAX_REWARD_CONFIGS, 10 in the code

\* The code keeps the configurations in a vector whose order nothing depends
\* on; in the set, "id" keeps equal ones apart.
RewardConfig == [id : Nat, startAt : Nat, expiredAt : Nat, tps : Nat]
UserRewardData == [epoch : Nat, lastInv : Nat, toClaim : Nat]

(***************************************************************************)
(* RewardConfigs, GlobalRewardData, UserRewardData and the gauge's balance *)
(* of its reward token.  A user without data reads as all zero.            *)
(***************************************************************************)
GaugeState ==
    [configs : SUBSET RewardConfig,
     epoch : Nat, inv : Nat, accumulated : Nat, claimed : Nat,
     user : [Users -> UserRewardData],
     bal : Nat]

EmptyGauge ==
    [configs |-> {}, epoch |-> 0, inv |-> 0, accumulated |-> 0, claimed |-> 0,
     user |-> [u \in Users |-> [epoch |-> 0, lastInv |-> 0, toClaim |-> 0]],
     bal |-> 0]

-----------------------------------------------------------------------------
(* gauge.rs                                                                *)

\* The part of a configuration that lies between the last epoch and now.
RewardStart(g, c) == IF c.startAt < g.epoch THEN g.epoch ELSE c.startAt
RewardEnd(c, now) == IF c.expiredAt > now THEN now ELSE c.expiredAt
GeneratedTokens(g, c, now) == (RewardEnd(c, now) - RewardStart(g, c)) * c.tps

Started(g, now) == {c \in g.configs : c.startAt <= now}

BugKeepsExpired(g, now) == g.configs

\* The configurations a checkpoint leaves: the future and the running ones.
Remaining(g, now) ==
    {c \in g.configs : c.startAt > now \/ c.expiredAt > now}

\* reward_end - reward_start is on u64: were it negative, the call would abort.
CheckpointOK(g, now) ==
    \A c \in Started(g, now) : RewardStart(g, c) <= RewardEnd(c, now)

\* Tokens generated since the last epoch, and what they are per share.
Generated(g, now) ==
    SumFunctionOnSet([c \in Started(g, now) |-> GeneratedTokens(g, c, now)],
                     Started(g, now))
RewardPerShare(g, now, workingSupply) ==
    IF workingSupply = 0 THEN 0
    ELSE SumFunctionOnSet(
            [c \in Started(g, now) |->
                (GeneratedTokens(g, c, now) * RewardPrecision) \div workingSupply],
            Started(g, now))

BugAccumulatesForSomebody(g, now, workingSupply) ==
    [g EXCEPT !.epoch = now,
              !.configs = Remaining(g, now),
              !.inv = @ + RewardPerShare(g, now, workingSupply),
              !.accumulated = @ + IF workingSupply = 0 THEN 0 ELSE Generated(g, now)]

\* checkpoint_global: each configuration is spread over the working supply on
\* its own; with no supply its tokens are accumulated, for nobody.
CheckpointGlobal(g, now, workingSupply) ==
    [g EXCEPT !.epoch = now,
              !.configs = Remaining(g, now),
              !.inv = @ + RewardPerShare(g, now, workingSupply),
              !.accumulated = @ + Generated(g, now)]

BugSkipsEmptyUser(g, u, workingBalance) ==
    IF workingBalance = 0 \/ g.user[u].epoch = g.epoch THEN g
    ELSE [g EXCEPT !.user[u] =
            [epoch |-> g.epoch, lastInv |-> g.inv,
             toClaim |-> @.toClaim
                           + (workingBalance * (g.inv - @.lastInv)) \div RewardPrecision]]
\* checkpoint_user of gauge.rs, after the global one; at most once per epoch.
SettleUser(g, u, workingBalance) ==
    IF g.user[u].epoch = g.epoch THEN g
    ELSE [g EXCEPT !.user[u] =
            [epoch |-> g.epoch, lastInv |-> g.inv,
             toClaim |-> @.toClaim
                           + IF workingBalance = 0 THEN 0
                             ELSE (workingBalance * (g.inv - @.lastInv)) \div RewardPrecision]]

-----------------------------------------------------------------------------
(* contract.rs                                                             *)

\* checkpoint_user of the contract; get_user_reward leaves the same state.
CheckpointUser(g, now, u, workingBalance, workingSupply) ==
    SettleUser(CheckpointGlobal(g, now, workingSupply), u, workingBalance)

\* What claim transfers, on a gauge whose user is settled: never more than was
\* accumulated and not claimed yet.
TransferAmount(g, u) ==
    LET maxPayable == IF g.accumulated > g.claimed THEN g.accumulated - g.claimed ELSE 0
    IN  IF g.user[u].toClaim < maxPayable THEN g.user[u].toClaim ELSE maxPayable

\* The rest of claim; what the cap withholds is lost to the user.
Pay(g, u) ==
    [g EXCEPT !.claimed = @ + TransferAmount(g, u),
              !.user[u].toClaim = 0,
              !.bal = @ - TransferAmount(g, u)]

\* The checks of schedule_rewards_config (the transfer is the distributor's).
ConfigAccepted(g, now, startAt, duration, tps) ==
    /\ duration > 0 /\ tps > 0
    /\ startAt >= now
    /\ Cardinality(Remaining(g, now)) < MaxRewardConfigs

\* schedule_rewards_config: the whole reward is transferred in at once.
ScheduleRewardsConfig(g, id, now, startAt, duration, tps, workingSupply) ==
    [CheckpointGlobal(g, now, workingSupply) EXCEPT
        !.bal = @ + tps * duration,
        !.configs = @ \cup {[id |-> id, startAt |-> startAt,
                             expiredAt |-> startAt + duration, tps |-> tps]}]

-----------------------------------------------------------------------------
(* Views the properties use.                                               *)

\* Tokens the configurations will still generate.
Unstreamed(g) ==
    SumFunctionOnSet([c \in g.configs |-> (c.expiredAt - RewardStart(g, c)) * c.tps],
                     g.configs)

\* Tokens generated in the second that begins at t.
Rate(g, t) ==
    SumFunctionOnSet([c \in g.configs |->
                        IF c.startAt <= t /\ t < c.expiredAt THEN c.tps ELSE 0],
                     g.configs)
=============================================================================
