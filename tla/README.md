# A verification model of the Aquarius AMM (soroban-amm)

TLA+ modules that model the contracts of this repository, TLC configurations
that check them on small instances, and theorems about them checked by TLAPS.
Paths are relative to the repository.

## 1. The system

The repository is a set of Soroban (Rust, Stellar) smart contracts that form an
automated market maker with liquidity mining. A transaction is atomic: a call
that panics is rolled back with everything it called. Arithmetic is on `u128`,
`u64` and 256-bit integers with `overflow-checks = true`, so an overflow is a
panic as well. There is no concurrency inside a transaction, but any number of
users, administrators and other contracts send transactions in any order, also
several in one ledger. What is hard is therefore:

* the order of calls of several actors over a long time, and calls that never
  come (rewards are computed lazily, at the next call);
* copies of the same quantity in several places (reserve, protocol fee, token
  balance and plane; shares, total shares, working balances and working supply)
  that each call updates separately and rounds separately;
* values that change behind a contract's back: gifts and rebases, burnt shares,
  locked tokens, passing time.

### Components

| component | state | operations | what makes it correct |
|---|---|---|---|
| `liquidity_pool`: constant product pool | reserves, protocol fees, shares, kill switches, sync ledger, rewards | deposit, swap, swap_strict_receive, withdraw, claim, fees, switches, getters that store | the balance covers the books; shares are never diluted; everybody can leave |
| `token`, `token_share`: share token | balances, allowances; total in the pool | transfer, burn, mint by the pool; calls the pool back | total bounds the balances; callbacks see the right balances |
| `rewards`: reward manager, a library in each pool | configuration, snapshots, working balances and supply, opt-outs, users | checkpoint, configure, claim, adjust | no more is paid than generated; nothing accrued is lost |
| `rewards_gauge`, `liquidity_pool_reward_gauge` | scheduled configurations, accumulated reward, users; the pool's list of gauges | schedule, checkpoint, claim; add, remove | funds cover schedules; no user eats another's part |
| `liquidity_pool_router` | pools by token set, global reward configuration, liquidity per epoch | register, swap through pools, distribute rewards | every pool is known once; a distribution never exceeds the total |
| `liquidity_pool_stableswap` | reserves, protocol fees, shares, A and its ramp, pending fee | as the pool, plus imbalanced and one-coin withdrawal, ramp, fee commit/apply/revert | the invariant D per share never falls; quotes fit the swaps; the plane has fee and ramp |
| `liquidity_pool_concentrated` | price and tick, ticks and their index, positions, fee growth, reward weights | open, close and claim positions, swaps across ticks | active liquidity is the sum over positions; the index finds every tick; the reserves cover all positions and fees, and fees reach the providers |
| `access_control`, `upgrade` | roles, pending transfers, pending upgrade, emergency mode | commit, apply, revert | nothing takes effect before its delay |
| `liquidity_pool_provider_swap_fee`, its factory | provider fee, collected fees | swap with fee, claim | its balance is its fees, nothing of its users' |
| `fees_collector`, `config_storage`, `locker_feed`, `liquidity_pool_plane` | a few stored values | set, get | only the right role writes |
| `liquidity_pool_liquidity_calculator`, `batcher`, `guard`, `utils` | none | pure | - |

Interactions: users call pools directly or through the router; the share token
calls its pool back on a transfer; a pool pushes its reserves to the plane and
checkpoints its gauges; the router configures the rewards of pools from the
liquidity that the calculator derives from the plane; the boost reads a token
balance and a feed of another contract.

`PROJECT.json` lists every component with its sources and status, and the
hazards each with its line.

## 2. The modules

| module | models | what it is |
|---|---|---|
| `RewardsManager` | `rewards/src` | the reward library as operators on a record |
| `StandardPool` | `liquidity_pool/src`, `token/src`, `token_share/src` | the pool, its share token and its rewards: one action per entry point |
| `MCStandardPool` | - | constants for TLC |
| `Arithmetic` | - | lemmas on products and roundings, on sums over finite sets and on recursion over a number |
| `RewardsProofs` | - | what each operator of `RewardsManager` keeps |
| `StandardPoolProofs` | - | theorems about `StandardPool`: its tokens and shares, its rewards, what it promises over time |
| `RewardPages` | `rewards/src/manager.rs` (pages) | the aggregated store of the reward values of blocks |
| `RewardsGauge` | `rewards_gauge/src` | the gauge contract as operators on a record |
| `PoolGauges` | `liquidity_pool_reward_gauge/src`, the pool's entry points that checkpoint gauges, the router's scheduling | a pool with a gauge, on the working balances of `RewardsManager` |
| `MCPoolGauges` | - | symmetry and state constraint for TLC |
| `RewardStreamProofs` | - | theorems about `PoolGauges` and `RewardPages` |
| `Router` | `liquidity_pool_router/src` | the registry of pools and the distribution of the global reward |
| `MCRouter` | - | constants for TLC |
| `RouterProofs` | - | theorems about `Router`, `RouterSwaps` and `ProviderSwapFee` |
| `RouterSwaps` | `liquidity_pool_router/src/contract.rs` (chained swaps) | swaps along a chain of pools |
| `ProviderSwapFee` | `liquidity_pool_provider_swap_fee/src` | a provider's fee contract on top of `RouterSwaps` |
| `MCRouterSwaps`, `MCProviderSwapFee` | - | constants for TLC |
| `StableSwap` | `liquidity_pool_stableswap/src` | the stable pool with its shares and rewards, one action per entry point |
| `MCStableSwap` | - | constants and state constraint for TLC |
| `StableSwapProofs` | - | theorems about `StableSwap` |
| `TickBitmap` | `liquidity_pool_concentrated/src/{storage,bitmap}.rs`, index part of `contract/internal.rs` | ticks in chunks and their index, as operators on a record |
| `Concentrated` | `liquidity_pool_concentrated/src/{math.rs,contract}`, `rewards/src/concentrated_weight.rs` | the concentrated pool, one action per entry point |
| `PlaneSteps` | `liquidity_pool_concentrated/src/plane.rs` | what the concentrated pool tells the plane |
| `MCConcentrated` | - | constants and state constraint for TLC |
| `ConcentratedProofs` | - | theorems about `TickBitmap` and `Concentrated` |
| `DelayedAction` | - | abstract specification: a value takes effect only after a delay |
| `Governance` | `access_control/src`, `upgrade/src`, as the pool exposes them | roles, upgrades, emergency mode |
| `MCGovernance` | - | constants for TLC |
| `GovernanceProofs` | - | `Governance` implements `DelayedAction` |

Operators whose name starts with `Bug` are the next definition with a plausible
mistake. Nothing refers to them; `PROJECT.json` ("mutants") says which property
fails when such a mistake is put in.

### RewardsManager and StandardPool

A panic rolls everything back, so a panic is a guard that fails. The state is
the contract's storage:

| TLA+ | code |
|---|---|
| `reserve`, `fee`, `pfFraction`, `killed`, `syncLedger` | `ReserveA/B`, `ProtocolFeeA/B`, `ProtocolFeeFraction`, `IsKilled*`, `ReservesSyncLedger` (`liquidity_pool/src/storage.rs`) |
| `totalShares`, `shares` | `TotalShares` (`token_share/src/lib.rs`) and the token's balances, two separate counts |
| `bal` | balances in the pool's tokens and the reward token |
| `plane` | the reserves last pushed by `update_plane` |
| `rw` | the storage of the `rewards` crate, with `cum` for the sum of the stored reward-per-share values |
| `lock` | what the boost plugin reads of the locked tokens |
| `ledger` | sequence number and timestamp |

* Each entry point that stores something is an action with its guards in
  the code's order of meaning: `Deposit`, `Swap`, `SwapStrictReceive`,
  `Withdraw`, `Claim`, `SetRewardsConfig`, `ReturnUnusedReward`,
  `AdjustTotalAccumulatedReward`, `SetRewardsState`, `SetProtocolFeeFraction`,
  `ClaimProtocolFees`, `Kill`, `Unkill`, `BackfillPlane`. Getters that write
  (Soroban getters may) are actions too: `SyncReserves` (`get_reserves` and the
  estimates), `GetUserReward`, `GetPoolRewards`.
* `TransferShares` contains the four callbacks of the token, in their order and
  with the balances each one reads. `BurnShares` is the holder's burn at the
  token, which tells the pool nothing.
* `SendToPool` stands for gifts, rebases and the router's funding of rewards;
  `ChangeLock` for the locked tokens.
* Arithmetic is the code's: floor and ceiling divisions at the same places.
  The square root is the natural number with the defining property of the floor
  root. Overflow is not reached at these sizes and is a panic in the code.
* Aggregated pages: the code adds the reward-per-share value of each block into
  pages and sums the blocks since the user's last one. The model keeps the total
  of all the values and the total at the user's last block, whose difference is
  that sum. `RewardPages` is where the pages themselves are, and shows that they
  compute it.
* Not in this module: gauges (see `PoolGauges`), storing of addresses (router, plane,
  boost token), allowances of the share token, time-to-live of storage.

### RewardPages

`pages` is `RewardInvDataV2`: for each level and page number the cells written
so far. `AddRewardInv` is `add_reward_inv` with the guard that no `Vec::set` is
out of bounds (that would abort), `CalculateReward` is the jump loop of
`calculate_reward`. The history `added` has the value of each block; the pages of
the older format, which a deployment may still read, are left out.

### RewardsGauge and PoolGauges

A gauge pays a stream of its own token to the holders of a pool, by the working
balances the pool tells it. `RewardsGauge` has the gauge's storage as a record:
`configs` (`RewardConfigs`; a set, each with an identity, as the order does not
matter), `epoch`, `inv`, `accumulated`, `claimed` (`GlobalRewardData`), `user`
(`UserRewardData`), and `bal`, the gauge's balance of its reward token.
`CheckpointGlobal`, `SettleUser`, `Pay`, `ScheduleRewardsConfig` are its entry
points and helpers. `CheckpointOK` is that no subtraction of the checkpoint
underflows: where it is false the code aborts, and with it the pool's call.

`PoolGauges` is who calls the gauge when. The entry points of the pool are here
once more with their calls in the order of the code: a deposit checkpoints the
gauge, then the rewards, then the gauge again, then stores the new working
balance; a share transfer does all of it for both sides, before and after. What
`StandardPool` has in addition (amounts, fees, reserves) is left out: a deposit
mints any of the given amounts. There is one gauge, as the gauges of a pool do
not affect each other, and the pool's own reward is zero, as the two only share
the working balances. `attached` is whether the pool's `RewardGaugesMap` has
the gauge, `killed` the switch of gauge claims. `Tick` lets a second pass and
records in `owed` what a distribution second by second would have given each
user. `set_reward_state` of the gauge has no caller in the repository and is not
modelled.

### Router and RouterSwaps

| TLA+ | code |
|---|---|
| `pools`, `tokensSets`, `poolCounter` | `TokensSetPools`, `TokensSet` with its counter, `PoolCounter` (`liquidity_pool_router/src/storage.rs`) |
| `rewardsConfig`, `rewardTokens`, `detailed` | `RewardsConfig`, `RewardTokensList`, `RewardTokensPoolsLiquidity` |
| `contract` | each deployed pool: its estimated liquidity, when its reward expires, and as history what this epoch gave it |

A salt is the tuple of what is hashed into it, so that two addresses are equal
when the code's are. A pool that is removed leaves the registry only: its
contract, its liquidity and its reward go on. The rewards admin's three calls
(`ConfigGlobalRewards`, `FillLiquidity`, `ConfigPoolRewards`) are three actions
with anything in between. The router is the only one who configures rewards here;
that the admin may also do so at the pool is in `StandardPool`.

`RouterSwaps` is a module of its own, as a swap reads nothing of the registry but
the address of the pool. The hops of a chain are one step (a transaction); the
recursive functions `Required` and `Forward` are the two loops of the code. A
pool has the prices of `StandardPool` and keeps all of its fee. The model follows
the tokens of the users and of the router; `ChangeReserves` sets the
reserves of a pool.

`ProviderSwapFee` puts a caller of another kind on top of it: the fee contract
takes the user's tokens, calls the router as the user, keeps its fee and passes
on the rest, all in one step. It records its fees nowhere, its balance is the
record; `due` is the history it has to agree with. The factory that deploys such
contracts keeps a counter per operator only and is left out.

### StableSwap

The state is that of `StandardPool` by coin, and in addition `ramp` (`InitialA`,
`InitialATime`, `FutureA`, `FutureATime`) and `pendingFee` (`FutureFee`,
`AdminActionsDeadline`). `plane` is what `update_plane` sends: the fee, the ramp
and the reserves in normalised form. The two numeric solvers, `GetD` and
`SolveY`, are the Newton iterations of the code with the division of every round
and its criterion to stop, as functions of the number of rounds left; where the code panics (no
convergence, a denominator that vanishes, an unsigned subtraction) they return
`Fail`. Deposits, balanced, imbalanced and one-coin withdrawals, both swaps, the
fee claim, ramp, fee change, switches and reward calls are an action each. The
pool has no gauge attached.

### TickBitmap, Concentrated and PlaneSteps

| TLA+ | code |
|---|---|
| `price`, `tick`, `liquidity`, `growth` | `Slot0`, `Liquidity`, `FeeGrowthGlobal0/1X128` |
| `map` | tick chunks, chunk bitmap, word bitmap, tick bounds |
| `pos`, `fullRange`, `raw` | positions, `FullRangeLiquidity`, raw liquidity of a user and in total |
| `weighted` | `weighted_liquidity` of a user, `TotalWeightedLiquidity` |
| `reserve`, `protocolFee`, `pfFraction`, `killed`, `rw`, `lock` | as in `StandardPool` |

A swap is one action; `SwapLoop` is the loop of the code, a function from the number
of rounds to what the loop carries: `BeforeSwap` at first, then one `Round` after the
other until `Stops`. A round searches the next tick by the index, `SwapStep` has the
amounts of its step up to `Target`, `Advance` and `CrossTick` the crossing; then
`Surplus` is what an exact input leaves over. The code's loop has no bound of its own
but the budget of a transaction, beyond which the call panics: here, after `MaxRounds`. The estimates are the same loop without storing.
All roundings are kept. Three things differ in size only: square roots of prices
are small integers of scale `Q` and the function of the tick is a constant of the
module, any increasing one, as no code depends on it being 1.0001^(tick/2); the
fee growth wraps at `GrowthModulus`; chunks and bitmap words have `TicksPerChunk`
and `WordBits` members. Amounts near 2^128, where the code saturates, are out of
reach. The shares that rewards go by are weights, larger the nearer a position is
to the price; `Reweigh`, `MoveWeight` and `Checkpoint` are what each call does
with them, in order.

`PlaneSteps` is the snapshot of the curve that is sent to the plane, a function
of the pool's state, and not part of it: the walk over a few steps on both sides
of the price, the full-range positions taken out.

### Governance and DelayedAction

`Governance` has the storage of the two crates: the holder, the deadline and
the future address of each delayed role, the other roles, the installed code,
the committed code and the emergency mode. The future address and the committed
code are never cleared, as in the code, so that after a revert or an apply they
hold old values; only the deadline says whether something is pending.
`DelayedAction` does not know deadlines: it has a proposal and when it was made.
The refinement maps "deadline not 0" to a proposal made `Delay` before the
deadline, for each of the two roles and for the upgrade. An upgrade replaces the
code of the pool, of the token and of the gauges at once; the new code is taken
to keep this part of the contract.

## 3. The runs

A contract does nothing by itself and nobody is obliged to call it, so the runs
are of `Spec == Init /\ [][Next]_vars`, without fairness. The one exception is
time: `FairSpec` of `Governance` adds weak fairness of `Tick`, as ledgers close
whether or not anybody calls. Under it `CommitmentsMature` is a liveness
property: whatever is committed and neither reverted nor applied can be applied
from some moment on and for good. That somebody does apply it is up to him.
`ExitOpen` is the other promise of this kind, a safety property in the form of
enabledness: a holder can withdraw whenever he likes.

| run | checks | shows |
|---|---|---|
| `PoolTrading` | `Solvent`, `SharesBacked`, `QuotesAgree`, `ExitOpen`, `PlaneNeverOverstates`, `ShareValueNeverFalls` | trading, deposits, withdrawals, gifts, fee claims and kill switches in any order |
| `PoolRewards` | `WorkingSupplyIsSum`, `DefaultsNeverUsed`, `RewardsCovered`, `AccruedNeverLost`, `FundedStays` | two holders who transfer, burn, opt out and leave with boosted balances, while configurations start, stop, expire and are replaced and the total is adjusted upwards; the reward token is a token of the pool |
| `RewardPages` | `RangeSumsExact` | every history of twelve blocks on pages of two and of three cells: each range is summed exactly, no page overflows |
| `GaugeStream` | `PaysTheStream`, `GaugeFunded`, `NeverBlocksPool`, `CapNeverBites` | deposits, withdrawals, transfers, burns, boosts, opt-outs and claims over two streams that may overlap: everybody gets what the stream gave second by second; the gauge is removed, working balances change unseen, it is put back |
| `Router` | `EveryPoolListed`, `RoomForEveryTier`, `SnapshotAddsUp`, `WithinShare` | pools that come, go and come back while the reward is distributed and liquidity changes |
| `RouterSwaps` | `QuoteSuffices`, `CollectorHoldsFees`, `RouterKeepsNothing` | chains of up to three hops over three pools, cycles included, by users and by the fee contract, with tokens that lie in both contracts |
| `StableSwap` | `Solvent`, `QuotesAgree`, `PlaneFollows`, `FeeDelayed`, `ShareValueNeverFalls` | a pool of two coins of different decimals, topped up in and out of proportion, traded and left in every way while A ramps, a fee is pending and the protocol takes its part |
| `Concentrated` | `LiquidityAddsUp`, `IndexExact`, `ReservesCoverPositions`, `Solvent`, `WeightsAddUp`, `TickMatchesPrice`, `QuotesFit`, `FeesReachProviders` | positions on two ranges with a gap between them; swaps of both kinds cross their ends in both directions, run out of liquidity and leave a surplus |
| `Governance` | `CommitmentsMature`, `AdminDelayed`, `EmergencyAdminDelayed`, `UpgradeDelayed` | both delayed roles, upgrades and the emergency mode |

Three runs show that the code does not do what a comment or a test says; TLC
prints the trace:

* `PoolUnusedReward`: `get_unused_reward` (`liquidity_pool/src/contract.rs:1411`)
  keeps the reserve but not the protocol fee when the reward token is a token of
  the pool. `return_unused_reward` then gives the protocol's fee away, and the
  fee claim that follows is paid from the reserve, whose balance falls short. The
  stable pool has the same lines (`liquidity_pool_stableswap/src/contract.rs:2187`),
  the concentrated one keeps the fee.
* `RouterResidue`: when a chain of `swap_chained_strict_receive` goes through one
  pool twice, the later hop costs less than was computed beforehand
  (`liquidity_pool_router/src/contract.rs:1837`), and what the pool returns stays
  in the router, which refunds the first token only.
* `ConcentratedPlane`: the walk of `update_plane` over the ticks below the price
  ends a step at a boundary and starts the next one there; a tick with liquidity
  at the boundary is found, and its liquidity subtracted, twice
  (`liquidity_pool_concentrated/src/plane.rs:475`).

Three more things were met that no run shows:

* A negative adjustment can bring the accumulated total back to a value a user has
  stored, and the early return of `update_user_reward`
  (`rewards/src/manager.rs:307`) then skips blocks that have rewards.
* When the last provider of a stable pool withdraws in one coin, the reserves of
  the others stay although no shares are left, against the comment at
  `liquidity_pool_stableswap/src/contract.rs:800`.
* The surplus of a swap that ends at the greatest tick would be accounted outside
  all positions if that tick were usable, which it is not with the spacings that
  the router deploys.

The passing runs leave these out: `Diffs` holds no negative adjustment,
`PoolRewards` has no protocol fee, so that `return_unused_reward` gives none of it
away, `RouterSwaps` has only chains that visit a pool once (`MayRevisit` is
false).

### Bounds

Amounts are chosen so that every rounding is exact in some calls and not in
others: a fee of 1/2, half or all of it the protocol's, deposits of 1 to 3 and
swaps of 1 to 3 reach ratios that do not divide. Two users suffice for anything that one
user's calls do to another, except for gains of a coalition, which is a user of
its own here. Two or three ledgers suffice for a configuration to start, expire
and be replaced and for reserves to be synchronised before and after a gift.
`MaxLedger` and `MaxClock` bound time, `MaxAccumulated` bounds adjustments, and
the balances bound all else. `RewardPrecision` is 6 in place of 10^15 and
divides by 1, 2 and 3 but not by 4 or 5, so that exact and rounded quotients
both occur. Users are symmetric where `Sym` or `Symmetry` is used: no property
or constant distinguishes them.

Four runs bound the combinations of features by a `CONSTRAINT`, which the MC
module defines: each feature meets all trading, and only some meet each other.

* `Focus` of `PoolRewards`: boosts and opt-outs together with one running
  reward, without burns at the token; burns with any reward of the first two
  ledgers.
* `Focus` of `GaugeStream`: boosts and opt-outs with one configuration of a gauge
  that stays attached; removal of the gauge with unboosted balances.
* `FewDepartures` of `StableSwap`: at most two of another fee, a pending fee, a
  protocol fee and a ramp; or a killed switch; or a reward configuration.
* `FewTrades` of `Concentrated`: at most two positions, a bounded fee growth and
  one of a killed switch, another protocol fraction, rewards, and a gift.

`RewardPages`: with pages of two cells, twelve blocks reach the fourth level, and
with three cells the third, so that jumps of several sizes are combined and
levels begun late are read. `GaugeStream` needs amounts that divide without a
rest, as `PaysTheStream` is an equality: 60 tokens a second over working balances
that add up to 1 to 6 and a precision of 60. At most two configurations fit in
it, so the limit on them is reached. A configuration lasts
one or two seconds of three, so that calls fall before, in and after it,
and several in one ledger. `PaysTheStream` and `CapNeverBites` are about a gauge
that was never taken off: a gauge put back later meets working balances it was
not told of. What each user is owed is therefore recorded only until the gauge
is removed; `GaugeStream` goes on past that with the properties that still hold.
The gauge run and `RewardPages` say
`CHECK_DEADLOCK FALSE`, as time, shares or blocks run out there; the other runs
check that some call is always possible.

`Router` has a token set of two and one of three tokens, one fee tier of each
kind and limits that these just reach, and three deployments (`MaxCounter`),
enough to remove a pool after any step of the distribution and to create it again
beside another one (a stableswap pool draws the counter twice). Votes of 6 and 4
tenths, or of the whole, of 7 tokens a second over liquidity 0 or 3 give quotients
with and without a rest. In `RouterSwaps` two calls (`MaxCalls`) suffice, as a swap
leaves only reserves and balances behind; at reserves of 20 and a fee of one tenth
a payment of 8 just crosses three hops. The fee contract charges 2 of 8, and
refuses 3 of 8.

`StableSwap` has a coin whose amounts count double beside one of full precision, A
ramps from 2 to 4 and may be stopped on its way, a swap of 2 of at most 4 moves
the price across much of the curve. Deposits are of 0, 1 or 3 of each of the 4 coins there
are, so a pool that has shares is topped up in one coin or in both, before and after
swaps, gifts and their synchronisation, with imbalance fees of which the protocol takes
half or nothing; what a call does to the others shows in the value of a share, whoever
holds the shares. In `Concentrated`, ticks go from -9 to 9 at
a spacing of 2, chunks and words have two members, so that a search runs through
all three levels within a few ticks, to both sides of zero. Square roots of prices are
`64 + 4 t` at scale 64. A swap has at most 12 rounds (`MaxRounds`), more than one across the
whole grid needs. `FeesReachProviders` allows `RoundedOff` units of a swap to
be left to nobody: a step rounds its fee and its input up, each crossing the growth
down. `ConcentratedPlane` has nested ranges and the full range.

## 4. What is proved

All theorems are for every value of the constants under their assumptions
(`RewardPrecisionAssumption`, `UsersAssumption`, `PoolAssumption`, `PoolGaugesAssumption`,
`RouterAssumption`, `MissingAssumption`, `RouterSwapsAssumption`, `ProviderSwapFeeAssumption`,
`PagesAssumption`, `StableAssumption`, `GovernanceAssumption`,
`TickBitmapAssumption`, `SearchAssumption`, `ConcentratedAssumption`): any
finite set of users, any fee below one, any amounts, any delay, any token sets and tiers,
chains of any length, any page size from two on, any number of coins, any increasing table
of prices. `PagesAssumption` bounds the chain by what its 254 levels can hold: a level has
at least twice the blocks of the level below, and blocks are counted in 64 bits. `SearchAssumption` is that neither
the least nor the greatest tick is a multiple of the spacing and that two words of the
upper level cover all ticks. It holds of the spacings 20, 60 and 200 of the router
(`liquidity_pool_router/src/constants.rs:15`), and is needed: the searches return the
least and the greatest tick for "none".

`Arithmetic` has the facts that several modules need:

* products and roundings: a floor is below its quotient, proportional parts keep the
  ratio, the product of the reserves does not fall in a swap;
* `SumFunctionOnSet`: an element may be taken out, a changed value changes the sum by
  the difference, a part is at most the whole, a sum may be pulled back along an
  injection. Sums are folds with a recursive function and a choice of the next
  element, so each fact needs induction; it is done on sets: among the finite sets
  that violate a fact take one of the least size (`SmallestSet`, from
  `LeastElement`, from the well-foundedness of `<` on the natural numbers);
* quotients of quotients (`DivNext`, `DivIs`, `DivTwice`), which say where a block is on
  each level of pages;
* `Recursion`: a function defined from its value one round before exists and stays in
  its type (`RecursionExists`, `RecursionStays`), with which an iteration enters a
  proof by its type; `BoundedInduction`, with which its values do.

`StandardPoolProofs`, on tokens and shares:

* `PlainTokensCovered`, `PoolSolvent`: `reserve + fee <= balance` of each pool
  token that is not the reward token, hence `Solvent` when the reward token is
  not in the pool.
* `SharesAlwaysBacked`: `totalShares^2 <= reserve_a * reserve_b`, and no reserve
  without shares.
* `ShareValueKept`: no step dilutes a share.
* `PlaneBounded`: the plane never shows more than the reserves.
* `QuotesAlwaysAgree`: both quotes pass the check of the swap, and selling what
  `swap_strict_receive` asks buys the amount.

The inductive invariant is `PoolInv`: types, `PlainSolvent`, `SharesBacked` and
`PlaneNeverOverstates` together. The parts need each other: the synchronisation
of the reserves stays within the balance only because of solvency, and the
subtraction of the shares a deposit mints and of a withdrawal is right only for
backed shares. The reward state is left out, as reward calls move no plain token.
The proof of each action has one step per conjunct.

`StandardPoolProofs`, on rewards:

* `PoolTypeCorrect`: the type invariant of the whole state. As every stored
  number is a natural number in it, it also says that the unsigned subtractions
  of the code (balances, reserves, shares, working supply, time since the last
  snapshot) never underflow in a call that passes its guards.
* `SupplyIsTheSum`: the working supply is the sum of the working balances.
* `DefaultsAreZero`: whoever has shares has a stored working balance.
* `IssuedWithinTotal`: the share token never holds more than `TotalShares`.
* `RewardsAlwaysCovered`: what all users together can claim was accumulated and not
  claimed before, as long as no accumulated reward is taken back (`Diffs` holds no
  negative adjustment). The assumption is needed: the admin may subtract what users
  have already been promised, and the code does not stop him.

The invariant is `BooksInv`, on top of `PoolInv`. Its part on the rewards,
`RewardsOK`, joins the last three: a working balance that was never stored is
first filled with the user's shares, which keeps the sum only because he has
none; and the supply minus the old balance plus the new one is a natural number
only because the supply is the sum. It also has that the last snapshot is not in
the future and that no user is ahead of the pool, which the type of the
differences needs. One lemma per operator of `RewardsManager` (`RewardsProofs`) shows
that it keeps `RewardsOK`, one per action that it keeps `BooksInv`. For the cover, `Covered`
compares at full precision, before anything is divided: each user's stored reward and
his working balance times what was added since his last block, summed over the users,
against what was accumulated. A checkpoint moves reward from the second part to the
first; a new block adds the same value per unit of supply, rounded down, to the one
side and all of it to the other. `NothingHidden` is what the early return of
`update_user_reward` relies on: a user who stored the pool's accumulated total is at the
pool's last block, which holds only while nothing is taken back.

`StandardPoolProofs`, over time:

* `AccruedAlwaysKept`: `AccruedNeverLost`, under the same assumption on `Diffs`. What a
  user has coming after an update of the pool (`Due`) is never lowered but by his own
  claim: `Brought` says of two reward states that the one is the other after such
  updates, some users settled and any working balances changed after their owner was
  settled. It is transitive, so the four callbacks of a transfer are four steps of it.
  Everything else is time: the value of a block only grows with the ledger.
* `FundedAlwaysStays`: `FundedStays`, where the reward token is not a token of the pool or
  the pool keeps no protocol fee of it (`NoFeeInReward`). This is needed, not a
  convenience: see the finding of `PoolUnusedReward`. What the pool holds of the reward
  token beyond what it owes as a pool (`TokensOwed`) never falls but by claims and by
  `return_unused_reward`; a claim lowers what is promised (`Promised`) by as much, and
  `get_unused_reward` leaves it untouched.

`RewardStreamProofs`, on the gauge:

* `GaugesTypeCorrect`: the types of the pool's side and of the gauge.
* `GaugeNeverBlocksPool`: `CheckpointOK` always holds, so that a gauge never makes the
  calls of its pool abort.
* `GaugeAlwaysFunded`: the gauge holds what it accumulated and did not pay and what its
  configurations still have to stream, exactly, even after it was detached.
* `GaugePaysEveryone`: while the gauge was never detached, the cap of a claim never cuts
  one: all users together are owed no more than what is accumulated and unpaid.

Why no checkpoint underflows is an invariant over time: every configuration that the
gauge keeps ends after its last epoch, as the checkpoint that passes the end also drops
it. The pots of the users (`GaugePots`) are covered only if each working balance changes when the
user's index is the index of the epoch; this is the reason for the order of the calls in
a deposit or a transfer (gauge, rewards, gauge, working balance), and the proof follows
it, call by call.

`RewardStreamProofs`, on the pages:

* `RangeSumsAlwaysExact`: `RangeSumsExact`. For any page size and any history, the jumps of
  `calculate_reward` return the sum of the blocks they pass, and `add_reward_inv` never sets
  a cell beyond the end of its page.

The invariant is `PagesInv`: a page is as long as the number of its cells that were begun
(`PageLength`), and each cell is the sum of the values of its blocks (`BlocksOf`), *of those
that its level was already in use for*. That is less than the sum over the cell: blocks
added before the level was begun are missing from its first cell. A jump never starts in
that cell, as no block but 0 does and a user's first block is at least 1 (`CellSpan`); and
the last cell of a jump holds nothing beyond the last block. So a jump is a part of the
sum (`JumpIsExact`), and the sum is that of its parts by induction on what is left
(`CalculateRewardIsExact`). The recursive functions of the model are a choice of a
function that satisfies its equation; the proofs exhibit one (`PowersAreThere`, and in
`CalculateRewardIsExact`) and derive the values of any other from the equation.

`RouterProofs`, on the registry and the distribution: `RouterTypeCorrect`, `PoolsAlwaysListed`, `RoomAlways`,
`SnapshotAlwaysAddsUp` and `ShareNeverExceeded`, from `RouterInv`. Its parts: a pool's
address and the index of a stableswap pool carry a number that the counter has passed
(`PoolsOK`, `ContractsOK`), so a new address is fresh; a snapshot is the sum of its
entries (`RewardsTyped`); and the budget (`Budget`): a set that is not processed was given
nothing yet, and what the pools of a processed one were given, times the total of the
snapshot, is within the reward of the set times the part of the snapshot that was
configured. It is stated without a division, so that the floors of the code add up, and
it sums over all deployed contracts, also those that left the registry since.

`RouterProofs`, on swaps (the specification is that of `ProviderSwapFee`, whose steps
include all of `RouterSwaps`):

* `FeesAlwaysHeld`: `CollectorHoldsFees`. The fee contract's balance is its fees, for any
  chain of pools, cycles included: what a strict receive refunds is what the router did
  not take, whatever the hops cost.
* `QuoteAlwaysSuffices`: `QuoteSuffices`, where no chain visits a pool twice (`~MayRevisit`).
* `RouterIsNeutral`: `RouterKeepsNothing`, where no chain visits a pool twice. With a pool
  visited twice it is false, which is the run `RouterResidue`.

The invariant is `SwapsInv`: reserves and balances are natural numbers, and the fees are
there. The loops over the hops are taken apart by `BoundedInduction`: up to hop k, the
pools of later hops have their reserves of the start, so a hop costs just what the
reverse pass computed for it (`StrictHopsFacts`), and the router has what it had and the
token of hop k. That what `Costs` asks buys the amount (`CostBuys`) is the two roundings
up against the two roundings down; that it suffices for a chain (`QuoteIsEnough`) adds
that a hop gives no less for more.

`StableSwapProofs`:

* `PlainCoinsCovered`, `StableSolvent`: `Solvent` of every coin that is not the reward
  token. That exception is the finding of `PoolUnusedReward`, which the stable pool
  shares: `get_unused_reward` does not keep the protocol's fee.
* `PlaneAlwaysFollows`: the plane has the pool's fee and ramp, and never more than its
  reserves, which the reads synchronise without telling it.
* `AmpAlwaysPositive`: A is positive at any time of any ramp.
* `FeeAlwaysDelayed`: commit, revert and apply of the fee implement `DelayedAction`.

The invariant is `StableInv` (`SettingsOK`, `FundsTyped`, `PlainSolvent`, `PlaneFollows`). The
solvers enter by their type alone: an iteration ends with a natural number or fails, and
a quote that fails panics. Solvency holds whatever they compute, as each call pays only
what it takes from the reserve.

`ConcentratedProofs`:

* `IndexAlwaysExact`: in either direction, the search finds exactly the next tick with
  liquidity, and the bounds are those of the ticks.
* `LiquidityAlwaysAddsUp`: the liquidity in use is the sum of the positions around the tick,
  and each tick knows what begins and what ends there.
* `TickAlwaysMatches`: the tick is that of the price.
* `ConcentratedSolvent`: `Solvent`, also when the reward token is one of the pool's, as this
  pool keeps the protocol's fee when it returns unused rewards and checks its balance after
  a claim.
* `WeightsAlwaysAddUp`: the total weight and the working supply are sums.
* `QuotesAlwaysFit`: paying what the estimate of an exact output asks for buys at least that
  output, over any number of ticks.
* `ConcentratedTypes`: the types of the whole state, so that no price leaves the table and
  no unsigned subtraction underflows.

The invariant is `PoolInv`, of three parts. `CurveInv` is the curve with the positions:
price and tick belong together; the index is right (`Indexed`: each bit of each level is set
exactly when something below it has liquidity, and the bounds are the extremes); the ticks
know the positions (`TicksKnow`); the liquidity is what the positions around the tick hold
(`Held`), and so are the raw and the full-range totals. No smaller invariant is inductive: a
swap changes the liquidity by the net of the ticks it crosses, which is right only if the
ticks know the positions *and* no tick is missed, and no tick is missed only if the index is
right at all three levels.

The argument on the index goes from the inside out. A search by bits or slots is the extreme
of a set (`BitSearch`, `Scan`); in its own chunk, else in its own word, else in the adjacent
one, it finds the extreme of the live ticks there (`ChunkSearch`, `WordSearch`,
`Adjacent`), as an empty part can be skipped (`ExtremeByBlocks`); hence `IndexedSearch`.
An update flips at most one bit at each level, and flips it at the next one only when
the last or the first below it came or went (`ReindexKeeps`).

A round of a swap keeps `LoopState`: a price not past the limit, its tick, and the liquidity
around that tick (`RoundKeeps`). Between the tick and the next live one no position begins
or ends, so the liquidity stays; across it, `HeldAcross` adds what begins and takes away
what ends there. `SwapStepFacts` bounds the price of a step by its target for all four
kinds of step, from the roundings alone. `Landing` finds the tick for a price between two.

`QuotesAlwaysFit` relates two runs of the loop, by induction on the rounds. As long as the
quote goes on and the paying swap has not got the output, they are `Along`: at the same price
and tick, with what the quote has spent left for the other to spend, and what the other has
got left for the quote to get (`RoundsAlong`, `QuoteBuys`). When the quote's step reaches its
target, so does the other's, for the same amounts: the input with its fee on top covers
itself once the fee is set aside (`NetCovers`), which is the reason for rounding the fee up.
In its last round the quote stops short of the target; there the other goes at least as far
(`InputLeads`), and a step that goes further gives more (`GivesMore`), although the amounts
are rounded against the trader and the price of an output is rounded too (`OutputGiven`).

`RewardsInv` has the sums and that a user without a stored working balance has no
liquidity: only then does the default, which the code takes from his weight, add nothing.
A weight may fall to zero while its owner keeps his position, far from the price, so
this cannot be said of weights. The saturating subtraction of the total is exact as
each weight is part of it. `BookInv` has the balances, reserves and fees.

`GovernanceProofs`: `TypeCorrect`, and `AdminTransferDelayed`,
`EmergencyTransferDelayed` and `UpgradesDelayed`, which say that `Governance`
implements the three instances of `DelayedAction`. The strengthening is
`Committed`: while a deadline is set, the value is there and the deadline is not
before one whole delay (so that the mapped time of the proposal is a natural
number).

## 5. What is only model-checked

* `PaysTheStream` of the gauge: it compares with a distribution second by second that
  divides without a rest, which only the constants of the run guarantee.
* `QuotesAgree` and `ShareValueNeverFalls` of the stable pool, which depend on where the
  two iterations converge.
* `ReservesCoverPositions` and `FeesReachProviders` of `Concentrated`: they compare what
  all positions are worth, each rounded by itself, with reserves that a swap changed by
  one rounded amount for all of them. The invariant would have to carry the growth
  outside each tick modulo `GrowthModulus` along with the products of liquidity and price,
  nonlinear integer arithmetic that the provers do not find.
* `ExitOpen` is about `ENABLED`, `CommitmentsMature` about `ENABLED` and fairness, which
  are out of the prover's reach.

Outside both, as they fail there and no run or theorem claims them: `Solvent` of the
constant product pool and of the stable pool when the reward token is one of the pool's
and a protocol fee is kept (see the finding), `RewardsCovered` and `AccruedNeverLost`
under negative adjustments, `RouterKeepsNothing` of chains that visit a pool twice.

## 6. Not modelled

Time-to-live of storage, events, error codes, authorisation signatures
(a caller is who he says), the bytes of wasm hashes, the numerical estimates of
the liquidity calculator, 256- and 512-bit arithmetic and its saturation,
allowances of the share token, the factory of the fee contracts, `batcher` and
`guard` (stateless), `config_storage`, `locker_feed` and `fees_collector` (values
that a role sets), tests and compiled contracts. The router's
`distribute_outstanding_reward` and the thresholds of its gauge schedules are not
modelled yet. See "components" in `PROJECT.json`.

## 7. Plan

1. Done: the three pools with their rewards and share tokens, gauges, governance,
   the router and the provider's fee; theorems about each of them.
2. Left to model: allowances and their expiration in the share token, gauges at
   the stable and the concentrated pool, `distribute_outstanding_reward`.
3. Theorems to come: that all token sets together stay within the global reward of
   the router; the rewards of the stable pool, by the lemmas of `RewardsProofs`;
   `ReservesCoverPositions`.
