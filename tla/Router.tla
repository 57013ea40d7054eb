------------------------------- MODULE Router -------------------------------
(***************************************************************************)
(* The router, liquidity_pool_router/src: the registry of pools and the    *)
(* distribution of the global reward over token sets and their pools.      *)
(* Swaps along a chain of pools are in RouterSwaps.                        *)
(*                                                                         *)
(* A pool is here what the router sees of it: the liquidity that the       *)
(* calculator estimates and a reward configuration.  The check that the    *)
(* caller has a role is left out; who has one is the subject of            *)
(* Governance.                                                             *)
(*                                                                         *)
(* An operator whose name starts with Bug is the next one with a plausible *)
(* mistake, for the mutation runs; nothing refers to it.                   *)
(***************************************************************************)
EXTENDS Integers, Sequences, FiniteSets, Functions

CONSTANTS
    Missing,            \* an entry of the storage that was never stored
    TokenSets,          \* the sets of tokens that may have pools
    StandardFees, ConcentratedFees,     \* the fee tiers
    StableswapMaxPools, ConcentratedMaxPools, MaxPoolsForPair,
    VoteScale,          \* what all voting shares may sum up to
    TpsValues, Expirations, Votes,      \* what the rewards admin configures
    LiquidityLevels,    \* what others bring the liquidity of a pool to
    MaxCounter, MaxLedger   \* bounds

ASSUME RouterAssumption ==
    /\ \A ts \in TokenSets : IsFiniteSet(ts)
    /\ IsFiniteSet(StandardFees) /\ IsFiniteSet(ConcentratedFees)
    /\ {StableswapMaxPools, ConcentratedMaxPools, MaxPoolsForPair} \subseteq Nat
    /\ Cardinality(ConcentratedFees) <= ConcentratedMaxPools
    /\ Cardinality(StandardFees) + Cardinality(ConcentratedFees) + StableswapMaxPools
         <= MaxPoolsForPair
    /\ VoteScale \in Nat \ {0}
    /\ TpsValues \subseteq Nat /\ Expirations \subseteq Nat
    /\ \A votes \in Votes : DOMAIN votes \subseteq TokenSets /\ votes \in [DOMAIN votes -> Nat]
    /\ LiquidityLevels \subseteq Nat
    /\ MaxCounter \in Nat /\ MaxLedger \in Nat \ {0}

VARIABLES
    pools,          \* TokensSetPools: token set -> pool index -> address
    tokensSets,     \* TokensSet(0), TokensSet(1), ...
    poolCounter,    \* PoolCounter
    rewardsConfig,  \* RewardsConfig: the global reward
    rewardTokens,   \* RewardTokensList: token set -> share, processed, liquidity
    detailed,       \* RewardTokensPoolsLiquidity: token set -> pool index -> liquidity
    contract,       \* the deployed pools, those removed from the registry included
    ledger

registryVars == <<pools, tokensSets, poolCounter>>
rewardVars == <<rewardsConfig, rewardTokens, detailed>>
vars == <<registryVars, rewardVars, contract, ledger>>

EmptyMap == [x \in {} |-> 0]

\* f with the value v for k
With(f, k, v) == [x \in DOMAIN f \cup {k} |-> IF x = k THEN v ELSE f[x]]
Without(f, k) == [x \in DOMAIN f \ {k} |-> f[x]]

\* The salt of a pool of the registry, and of a deployment.
Standard(fee) == <<"standard", fee>>
Concentrated(fee) == <<"concentrated", fee>>
Stable(n) == <<"stable", n>>
Address(ts, index, n) == <<ts, index, n>>

Indexes ==
    {Standard(fee) : fee \in StandardFees} \cup {Concentrated(fee) : fee \in ConcentratedFees}
        \cup {Stable(n) : n \in 1..MaxCounter}

\* PoolRewardInfo per token set, and what the snapshot of a set says of a pool.
Infos == [share : Nat, processed : BOOLEAN, total : Nat]
Entries == [liquidity : Nat, configured : BOOLEAN]

\* What was stored is told from what was not.
ASSUME MissingAssumption ==
    /\ \A voted \in SUBSET TokenSets : Missing \notin [voted -> Infos]
    /\ \A indexes \in SUBSET Indexes : Missing \notin [indexes -> Entries]

\* expiredAt is the pool's; "given" is the tps that the router has set there since
\* the last global configuration (history).
NewContract == [liquidity |-> 0, expiredAt |-> 0, given |-> 0]

Init ==
    /\ pools = [ts \in TokenSets |-> EmptyMap]
    /\ tokensSets = <<>>
    /\ poolCounter = 0
    /\ rewardsConfig = [tps |-> 0, expiredAt |-> 0]
    /\ rewardTokens = Missing
    /\ detailed = [ts \in TokenSets |-> Missing]
    /\ contract = EmptyMap
    /\ ledger = 1

-----------------------------------------------------------------------------
(* The registry                                                            *)

OfKind(kind, indexes) == {index \in indexes : index[1] = kind}

\* The limits that add_pool checks on the pools of a token set.
FitsLimits(indexes, kind) ==
    /\ kind = "stable" => Cardinality(OfKind(kind, indexes)) <= StableswapMaxPools
    /\ kind = "concentrated" => Cardinality(OfKind(kind, indexes)) <= ConcentratedMaxPools
    /\ Cardinality(indexes) <= MaxPoolsForPair

BugAddTokensSet(ts) == tokensSets

\* Called before the pool is added: the first pool makes a set known.
AddTokensSet(ts) ==
    IF DOMAIN pools[ts] # {} THEN tokensSets ELSE Append(tokensSets, ts)

\* Deploying to an address in use aborts.
DeployPool(ts, index, n) ==
    LET address == Address(ts, index, n)
    IN  /\ address \notin DOMAIN contract
        /\ FitsLimits(DOMAIN pools[ts] \cup {index}, index[1])
        /\ contract' = With(contract, address, NewContract)
        /\ tokensSets' = AddTokensSet(ts)
        /\ pools' = [pools EXCEPT ![ts] = With(@, index, address)]
        /\ UNCHANGED <<rewardVars, ledger>>

BugDeployWithCounter(ts, index) ==
    /\ index \notin DOMAIN pools[ts]
    /\ DeployPool(ts, index, poolCounter)
    /\ poolCounter' = poolCounter

\* A pool whose index says its parameters: one that exists is returned.
DeployWithCounter(ts, index) ==
    /\ index \notin DOMAIN pools[ts]
    /\ DeployPool(ts, index, poolCounter)
    /\ poolCounter' = poolCounter + 1

InitStandardPool(ts, fee) == DeployWithCounter(ts, Standard(fee))

InitConcentratedPool(ts, fee) ==
    /\ Cardinality(ts) = 2
    /\ DeployWithCounter(ts, Concentrated(fee))

\* The index is the counter.  It is drawn twice, first for a look-up that never
\* finds a pool and then for the deployment.
InitStableswapPool(ts) ==
    /\ Cardinality(ts) <= 3
    /\ Stable(poolCounter) \notin DOMAIN pools[ts]
    /\ DeployPool(ts, Stable(poolCounter + 1), poolCounter + 1)
    /\ poolCounter' = poolCounter + 2

RemovePool(ts, index) ==
    /\ index \in DOMAIN pools[ts]
    /\ pools' = [pools EXCEPT ![ts] = Without(@, index)]
    /\ UNCHANGED <<tokensSets, poolCounter, rewardVars, contract, ledger>>

-----------------------------------------------------------------------------
(* The global reward                                                       *)

Sum(f) == SumFunctionOnSet(f, DOMAIN f)

BugKeepsProcessed(ts, share) ==
    [share |-> share, total |-> 0,
     processed |-> rewardTokens # Missing /\ ts \in DOMAIN rewardTokens
                     /\ rewardTokens[ts].processed]

NewRewardInfo(ts, share) == [share |-> share, processed |-> FALSE, total |-> 0]

ConfigGlobalRewards(tps, expiredAt, votes) ==
    /\ Sum(votes) <= VoteScale
    /\ rewardTokens' = [ts \in DOMAIN votes |-> NewRewardInfo(ts, votes[ts])]
    /\ rewardsConfig' = [tps |-> tps, expiredAt |-> expiredAt]
    /\ contract' = [a \in DOMAIN contract |-> [contract[a] EXCEPT !.given = 0]]
    /\ UNCHANGED <<registryVars, detailed, ledger>>

FillLiquidity(ts) ==
    LET liquidity == [i \in DOMAIN pools[ts] |-> contract[pools[ts][i]].liquidity]
    IN  /\ rewardTokens # Missing /\ ts \in DOMAIN rewardTokens
        /\ ~rewardTokens[ts].processed
        /\ rewardTokens' = [rewardTokens EXCEPT
                                ![ts].processed = TRUE, ![ts].total = Sum(liquidity)]
        /\ detailed' = [detailed EXCEPT ![ts] =
                [i \in DOMAIN pools[ts] |-> [liquidity |-> liquidity[i], configured |-> FALSE]]]
        /\ UNCHANGED <<registryVars, rewardsConfig, contract, ledger>>

\* set_rewards_config of the pool, as RewardsManager has it.
RewardConfigAccepted(pool, tps) ==
    tps = 0 \/ (rewardsConfig.expiredAt # pool.expiredAt /\ rewardsConfig.expiredAt >= ledger)

WithRewardConfig(pool, tps) ==
    IF tps = 0 /\ pool.expiredAt < ledger THEN [pool EXCEPT !.given = 0]
    ELSE [pool EXCEPT !.given = tps,
                      !.expiredAt = IF tps = 0 THEN ledger ELSE rewardsConfig.expiredAt]

BugMarkConfigured(ts, index) == detailed

\* "mark pool as configured to avoid reentrancy"
MarkConfigured(ts, index) == [detailed EXCEPT ![ts][index].configured = TRUE]

\* A pool of a set that is not voted for is switched off; one that the snapshot
\* of its set does not have gets nothing.
ConfigPoolRewards(ts, index) ==
    LET voted == ts \in DOMAIN rewardTokens
        known == voted /\ index \in DOMAIN detailed[ts]
        info  == rewardTokens[ts]
        share == detailed[ts][index].liquidity
        tps   == IF known /\ share > 0
                 THEN ((rewardsConfig.tps * info.share * share) \div info.total)
                        \div VoteScale
                 ELSE 0
        address == pools[ts][index]
    IN  /\ index \in DOMAIN pools[ts]
        /\ detailed[ts] # Missing /\ rewardTokens # Missing
        /\ known => ~detailed[ts][index].configured
        /\ voted => info.processed
        /\ RewardConfigAccepted(contract[address], tps)
        /\ contract' = [contract EXCEPT ![address] = WithRewardConfig(@, tps)]
        /\ detailed' = IF tps > 0 THEN MarkConfigured(ts, index) ELSE detailed
        /\ UNCHANGED <<registryVars, rewardsConfig, rewardTokens, ledger>>

-----------------------------------------------------------------------------
(* What others do                                                          *)

\* Deposits, withdrawals and swaps at the pool.
ChangeLiquidity(address, level) ==
    /\ contract' = [contract EXCEPT ![address].liquidity = level]
    /\ UNCHANGED <<registryVars, rewardVars, ledger>>

NextLedger ==
    /\ ledger < MaxLedger
    /\ ledger' = ledger + 1
    /\ UNCHANGED <<registryVars, rewardVars, contract>>

RegistryStep ==
    \E ts \in TokenSets :
        \/ poolCounter < MaxCounter /\ \E fee \in StandardFees : InitStandardPool(ts, fee)
        \/ poolCounter < MaxCounter /\ \E fee \in ConcentratedFees : InitConcentratedPool(ts, fee)
        \/ poolCounter < MaxCounter - 1 /\ InitStableswapPool(ts)
        \/ \E index \in DOMAIN pools[ts] : RemovePool(ts, index)

RewardStep ==
    \/ \E tps \in TpsValues, e \in Expirations, votes \in Votes :
            ConfigGlobalRewards(tps, e, votes)
    \/ \E ts \in TokenSets : FillLiquidity(ts)
    \/ \E ts \in TokenSets : \E index \in DOMAIN pools[ts] : ConfigPoolRewards(ts, index)

Next ==
    \/ RegistryStep \/ RewardStep
    \/ \E address \in DOMAIN contract, level \in LiquidityLevels :
            ChangeLiquidity(address, level)
    \/ NextLedger

Spec == Init /\ [][Next]_vars

-----------------------------------------------------------------------------
(* Properties                                                              *)

\* Types; the keys of the maps of the registry and of the snapshots are pools
\* of their token set, and every registered pool was deployed.
TypeOK ==
    /\ DOMAIN pools = TokenSets /\ DOMAIN detailed = TokenSets
    /\ tokensSets \in Seq(TokenSets)
    /\ poolCounter \in 0..MaxCounter /\ ledger \in 1..MaxLedger
    /\ rewardsConfig \in [tps : Nat, expiredAt : Nat]
    /\ rewardTokens # Missing => rewardTokens \in [DOMAIN rewardTokens -> Infos]
    /\ \A ts \in TokenSets : \A a \in Range(pools[ts]) : a \in DOMAIN contract /\ a[1] = ts
    /\ \A a \in DOMAIN contract :
         contract[a] \in [liquidity : Nat, expiredAt : Nat, given : Nat]

\* Whoever pages through the token sets (get_tokens_sets_count, get_tokens)
\* finds every pool, although the sets are recorded before the pools are.
EveryPoolListed ==
    \A ts \in TokenSets : DOMAIN pools[ts] # {} => ts \in Range(tokensSets)

AddressesFresh(ts) ==
    /\ \A fee \in StandardFees : Address(ts, Standard(fee), poolCounter) \notin DOMAIN contract
    /\ \A fee \in ConcentratedFees :
            Address(ts, Concentrated(fee), poolCounter) \notin DOMAIN contract
    /\ Address(ts, Stable(poolCounter + 1), poolCounter + 1) \notin DOMAIN contract
    /\ Stable(poolCounter) \notin DOMAIN pools[ts]

TiersFit(ts) ==
    /\ \A fee \in StandardFees :
            FitsLimits(DOMAIN pools[ts] \cup {Standard(fee)}, "standard")
    /\ \A fee \in ConcentratedFees :
            FitsLimits(DOMAIN pools[ts] \cup {Concentrated(fee)}, "concentrated")

\* Whatever was created and removed, a pool can be created again and next to
\* any other: the address it would get is never in use, and only the number of
\* stableswap pools is limited, there is room for each fee tier of the others.
RoomForEveryTier == \A ts \in TokenSets : AddressesFresh(ts) /\ TiersFit(ts)

\* The liquidity of a token set that fill_liquidity has stored is the sum over
\* the pools of its snapshot, also when the set was in an earlier configuration,
\* when pools come and go and when their reserves change.
SnapshotAddsUp ==
    rewardTokens # Missing =>
        \A ts \in DOMAIN rewardTokens : rewardTokens[ts].processed =>
            /\ detailed[ts] # Missing
            /\ rewardTokens[ts].total =
                 Sum([i \in DOMAIN detailed[ts] |-> detailed[ts][i].liquidity])

GivenTo(ts) ==
    LET mine == {a \in DOMAIN contract : a[1] = ts}
    IN  Sum([a \in mine |-> contract[a].given])

\* What config_pool_rewards hands out to the pools of a token set, those that
\* were removed since and go on included, is within the set's voting share of
\* the global reward; so all pools together get no more than the global reward.
WithinShare ==
    \A ts \in TokenSets :
        IF rewardTokens # Missing /\ ts \in DOMAIN rewardTokens
        THEN GivenTo(ts) * VoteScale <= rewardsConfig.tps * rewardTokens[ts].share
        ELSE GivenTo(ts) = 0
=============================================================================
