--------------------------- MODULE RewardsManager ---------------------------
(***************************************************************************)
(* The reward accounting that every pool contract embeds: the crate        *)
(* rewards/src, mainly manager.rs with its locked_boost and opt_out        *)
(* plugins.  The crate is a library, so this module declares no variables: *)
(* each operator maps the state of the library (a record, see RewardState) *)
(* to the state the Rust method leaves behind, and the pool modules apply  *)
(* them inside their own actions.                                          *)
(*                                                                         *)
(* Abstraction of the data.  The crate numbers the snapshots ("blocks")    *)
(* and stores one reward-per-share value per block, in aggregated pages;   *)
(* a user's reward is the sum of the values of the blocks after his        *)
(* last_block.  Here "cum" is the sum of the values of all the blocks so   *)
(* far and a user keeps the value of "cum" at his last_block, so that the  *)
(* sum over a range of blocks is a difference.                             *)
(*                                                                         *)
(* An operator whose name starts with Bug is the next one with a plausible *)
(* mistake, for the mutation runs; nothing refers to it.                   *)
(***************************************************************************)
EXTENDS Integers, FiniteSets

CONSTANTS
    Users,           \* the liquidity providers
    RewardPrecision  \* scale of the reward-per-share values

ASSUME RewardPrecisionAssumption == RewardPrecision \in Nat \ {0}
ASSUME UsersAssumption == IsFiniteSet(Users)

(***************************************************************************)
(* A working balance, or the working supply, that was never stored.        *)
(***************************************************************************)
Unset == -1
Stored(x) == IF x = Unset THEN 0 ELSE x

(***************************************************************************)
(* PoolRewardConfig (tps, expiredAt), PoolRewardData (acc, claimed,        *)
(* lastTime), the sum of the reward-per-share values (cum), the working    *)
(* supply and balances, the opt-out switches and the counter of excluded   *)
(* shares, and UserRewardData for the users that have one ("seen").        *)
(***************************************************************************)
UserReward ==
    [seen : BOOLEAN, lastCum : Nat, poolAcc : Nat, toClaim : Nat]

RewardState ==
    [tps : Nat, expiredAt : Nat,
     acc : Nat, claimed : Nat, lastTime : Nat, cum : Nat,
     ws : Nat \cup {Unset}, wb : [Users -> Nat \cup {Unset}],
     on : [Users -> BOOLEAN], excluded : Nat,
     user : [Users -> UserReward]]

EmptyRewards ==
    [tps |-> 0, expiredAt |-> 0,
     acc |-> 0, claimed |-> 0, lastTime |-> 0, cum |-> 0,
     ws |-> Unset, wb |-> [u \in Users |-> Unset],
     on |-> [u \in Users |-> TRUE], excluded |-> 0,
     user |-> [u \in Users |->
                [seen |-> FALSE, lastCum |-> 0, poolAcc |-> 0, toClaim |-> 0]]]

AtMost(x, bound) == IF x > bound THEN bound ELSE x

-----------------------------------------------------------------------------
(* Working balances                                                        *)

\* get_working_supply and get_working_balance store their default argument
\* when nothing was stored before.
InitWorkingSupply(r, totalShares) ==
    IF r.ws = Unset THEN [r EXCEPT !.ws = totalShares] ELSE r

InitWorkingBalance(r, u, userShares) ==
    IF r.wb[u] = Unset THEN [r EXCEPT !.wb[u] = userShares] ELSE r

InitWorking(r, u, totalShares, userShares) ==
    InitWorkingSupply(InitWorkingBalance(r, u, userShares), totalShares)

\* The opt-out plugin zeroes the balance of a user who opted out, then the
\* boost plugin raises it with the user's locked tokens, up to 2.5 times.
EffectiveBalance(r, lock, totalLocked, u, userShares, totalShares) ==
    LET share    == IF r.on[u] THEN userShares ELSE 0
        adjusted == IF totalLocked > 0
                    THEN share + (3 * ((lock[u] * totalShares) \div totalLocked)) \div 2
                    ELSE share
    IN AtMost(adjusted, (share * 5) \div 2)

BugKeepsOldBalance(r, lock, totalLocked, u, totalShares, userShares) ==
    LET i   == InitWorking(r, u, totalShares, userShares)
        new == EffectiveBalance(r, lock, totalLocked, u, userShares, totalShares)
    IN [i EXCEPT !.ws = @ + new, !.wb[u] = new]
\* In the code the subtraction is on u128 and a negative result aborts the
\* transaction; that ws \in Nat always holds says that it never does.
UpdateWorkingBalance(r, lock, totalLocked, u, totalShares, userShares) ==
    LET i   == InitWorking(r, u, totalShares, userShares)
        new == EffectiveBalance(r, lock, totalLocked, u, userShares, totalShares)
    IN [i EXCEPT !.ws = @ + new - i.wb[u], !.wb[u] = new]

-----------------------------------------------------------------------------
(* Pool and user snapshots                                                 *)

\* A new snapshot at time t: the tokens generated since the last one are
\* accumulated and spread over the working supply; with no supply none are
\* generated.
Yield(r, t, supply) ==
    LET generated == (t - r.lastTime) * r.tps
    IN IF supply = 0
       THEN [r EXCEPT !.lastTime = t]
       ELSE [r EXCEPT !.lastTime = t,
                      !.acc = @ + generated,
                      !.cum = @ + (RewardPrecision * generated) \div supply]

BugYieldsPastExpiration(r, now, supply) == Yield(r, now, supply)

\* update_rewards_data: up to now, or up to the expiration once it has passed.
UpdateRewardsData(r, now, supply) ==
    IF now <= r.expiredAt THEN Yield(r, now, supply)
    ELSE IF r.lastTime < r.expiredAt THEN Yield(r, r.expiredAt, supply)
    ELSE r

\* The reward of the blocks since the user's last one.
NewUserReward(r, u, balance) ==
    ((r.cum - r.user[u].lastCum) * balance) \div RewardPrecision

CreateUserData(r, u, toClaim) ==
    [r EXCEPT !.user[u] = [seen |-> TRUE, lastCum |-> r.cum,
                           poolAcc |-> r.acc, toClaim |-> toClaim]]

\* "If no new accumulation, just return": then lastCum is left behind too.
UpdateUserReward(r, u, balance) ==
    IF ~r.user[u].seen THEN CreateUserData(r, u, 0)
    ELSE IF r.user[u].poolAcc = r.acc THEN r
    ELSE CreateUserData(r, u,
            r.user[u].toClaim + IF balance = 0 THEN 0
                                ELSE NewUserReward(r, u, balance))

BugPaysNewBalance(r, lock, totalLocked, now, u, totalShares, userShares) ==
    LET next == UpdateWorkingBalance(r, lock, totalLocked, u, totalShares, userShares)
    IN UpdateUserReward(UpdateRewardsData(next, now, next.ws), u, next.wb[u])

\* checkpoint_user: the new working balance is stored first, but both the pool
\* and the user are brought up to date with the previous ones.
CheckpointUser(r, lock, totalLocked, now, u, totalShares, userShares) ==
    LET prev == InitWorking(r, u, totalShares, userShares)
        next == UpdateWorkingBalance(r, lock, totalLocked, u, totalShares, userShares)
    IN UpdateUserReward(UpdateRewardsData(next, now, prev.ws), u, prev.wb[u])

\* update_rewards_data with the stored supply, as the pool-wide getters do.
UpdatePool(r, now, totalShares) ==
    LET i == InitWorkingSupply(r, totalShares)
    IN UpdateRewardsData(i, now, i.ws)

-----------------------------------------------------------------------------
(* Operations                                                              *)

RewardConfigAccepted(r, now, expiredAt, tps) ==
    \/ tps = 0
    \/ expiredAt # r.expiredAt /\ expiredAt >= now

BugForgetsOldConfig(r, now, totalShares, expiredAt, tps) ==
    IF tps = 0 /\ r.expiredAt < now
    THEN r
    ELSE [r EXCEPT !.lastTime = now, !.tps = tps,
                   !.expiredAt = IF tps = 0 THEN now ELSE expiredAt]

\* set_reward_config: stopping (tps = 0) an expired configuration does nothing;
\* otherwise the old configuration is brought up to now before it is replaced.
SetRewardConfig(r, now, totalShares, expiredAt, tps) ==
    IF tps = 0 /\ r.expiredAt < now
    THEN r
    ELSE [UpdatePool(r, now, totalShares) EXCEPT
            !.lastTime = now,
            !.tps = tps,
            !.expiredAt = IF tps = 0 THEN now ELSE expiredAt]

\* claim_reward without the transfer of r.user[u].toClaim after the checkpoint.
PayUser(r, u) ==
    [r EXCEPT !.claimed = @ + r.user[u].toClaim, !.user[u].toClaim = 0]

\* set_user_rewards_state: the counter moves by the shares the user has now.
SetUserRewardsState(r, u, userShares, value) ==
    IF r.on[u] = value THEN r
    ELSE [r EXCEPT !.on[u] = value,
                   !.excluded = IF ~value THEN @ + userShares
                                ELSE IF @ > userShares THEN @ - userShares ELSE 0]

\* adjust_total_accumulated_reward, for a diff that does not make it negative.
AdjustAccumulated(r, now, totalShares, diff) ==
    [UpdatePool(r, now, totalShares) EXCEPT !.acc = @ + diff]

\* get_total_configured_reward, on a state that is up to date.
TotalConfigured(r, now) ==
    r.acc + IF r.expiredAt <= now THEN 0 ELSE (r.expiredAt - now) * r.tps

-----------------------------------------------------------------------------
(* What a user could claim if he were checkpointed now, at the state of r. *)
Claimable(r, u) ==
    LET d == r.user[u]
    IN IF d.seen /\ d.poolAcc # r.acc /\ r.wb[u] # Unset
       THEN d.toClaim + NewUserReward(r, u, r.wb[u])
       ELSE d.toClaim
=============================================================================
