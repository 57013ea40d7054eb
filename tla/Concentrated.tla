---------------------------- MODULE Concentrated ----------------------------
(***************************************************************************)
(* The concentrated liquidity pool: the contract of                        *)
(* liquidity_pool_concentrated/src, with the tick map of TickBitmap and    *)
(* the reward accounting of RewardsManager that it embeds.  One action per *)
(* entry point; a call that panics is rolled back as a whole, so a panic   *)
(* is a guard that fails.                                                  *)
(*                                                                         *)
(* Square roots of prices are integers of scale Q, Q64.96 in the code, and *)
(* sqrt_ratio_at_tick is any increasing function of the tick: nothing the  *)
(* pool does needs that it is 1.0001^(tick/2).  All roundings are kept.    *)
(* Amounts stay far below 2^128, where the code saturates or panics.  The  *)
(* pool has no reward gauge attached, as after initialize (see PoolGauges).*)
(*                                                                         *)
(* An operator whose name starts with Bug is the next one with a plausible *)
(* mistake, for the mutation runs; nothing refers to it.                   *)
(***************************************************************************)
EXTENDS TickBitmap, RewardsManager, Functions

CONSTANTS
    Pool, Outside,      \* the pool's own address; every other account
    Q,                  \* scale of a square root of a price, 2^96
    SqrtRatio,          \* sqrt_ratio_at_tick
    GrowthScale,        \* scale of the fee growth, 2^128
    Fee, FeeDenominator,\* the fee of the pool; 10_000
    InitialProtocolFraction, ProtocolFractions,
                        \* at initialize; values of set_protocol_fee_fraction
    MaxLiquidityPerTick, MaxUserPositions,
                        \* max_liquidity_per_tick, MAX_USER_POSITIONS
    MaxRounds,          \* rounds of a swap that the network's budget allows
    MaxDistance,        \* max_distance_for_fee: where the reward weight ends
    BpsDenominator,     \* BPS_DENOMINATOR
    RewardToken,        \* 0, 1 or another number
    InitialBalance,     \* balance of each user in each token
    RewardFunds,        \* reward tokens held outside
    UsedRanges,         \* the ranges users open positions on
    DepositAmounts, SwapAmounts, LiquidityAmounts, GiftAmounts,
                        \* amounts in calls of each kind
    Callers, UsedSwitches,
                        \* the privileged roles somebody holds; the switches they use
    TpsValues, Expirations, Diffs, RewardSwitches, LockAmounts,
                        \* arguments of reward calls
    RoundedOff,         \* what a swap may leave to nobody, see FeesReachProviders
    MaxLedger           \* bound on the ledgers explored

Assets   == Tokens \cup {RewardToken}
Holders  == Users \cup {Pool, Outside}
Switches == {"deposit", "swap", "claim"}

ASSUME ConcentratedAssumption ==
    /\ Pool # Outside /\ {Pool, Outside} \cap Users = {}
    /\ {Q, GrowthScale, FeeDenominator, MaxDistance, BpsDenominator} \subseteq Nat \ {0}
    /\ Fee \in 0..(FeeDenominator - 1)
    /\ SqrtRatio \in [MinTick..MaxTick -> Nat \ {0}]
    /\ \A t \in MinTick..(MaxTick - 1) : SqrtRatio[t] < SqrtRatio[t + 1]
    /\ UsedRanges \subseteq Ranges
    /\ InitialProtocolFraction \in 0..FeeDenominator /\ ProtocolFractions \subseteq Nat
    /\ {MaxLiquidityPerTick, MaxUserPositions, InitialBalance, RewardFunds, MaxRounds,
        MaxLedger} \subseteq Nat
    /\ DepositAmounts \cup SwapAmounts \cup LiquidityAmounts \cup GiftAmounts \subseteq Nat
    /\ UsedSwitches \subseteq Switches /\ RewardSwitches \subseteq BOOLEAN
    /\ TpsValues \cup Expirations \cup LockAmounts \subseteq Nat /\ Diffs \subseteq Int

VARIABLES
    bal,        \* balances of the tokens, by holder
    price, tick,\* Slot0
    liquidity,  \* Liquidity, that of the positions around the price
    map,        \* tick chunks, chunk bitmap, word bitmap, tick bounds
    growth,     \* FeeGrowthGlobal0X128, FeeGrowthGlobal1X128
    pos,        \* the positions of each user
    fullRange,  \* FullRangeLiquidity
    raw,        \* raw_liquidity of each user; TotalRawLiquidity
    weighted,   \* weighted_liquidity of each user; TotalWeightedLiquidity
    reserve,    \* Reserve0, Reserve1
    protocolFee,\* ProtocolFees
    pfFraction, \* ProtocolFeeFraction
    killed,     \* the three kill switches
    ledger,     \* the current ledger, sequence number and timestamp
    rw,         \* the reward state
    lock        \* locked (boost) tokens of each user

curveVars == <<price, tick, liquidity, map, growth>>
posVars   == <<pos, fullRange, raw>>
bookVars  == <<bal, reserve, protocolFee>>
rewVars   == <<weighted, rw>>
envVars   == <<ledger, lock>>
cfgVars   == <<pfFraction, killed>>
vars == <<bal, price, tick, liquidity, map, growth, pos, fullRange, raw, weighted,
          reserve, protocolFee, pfFraction, killed, ledger, rw, lock>>

\* A position exists while it has liquidity: the call that takes the last of
\* it pays its fees and removes it, together with the user's range.
Position == [liq : Nat, last : [Tokens -> Growth], owed : [Tokens -> Nat]]
NoPosition == [liq |-> 0, last |-> NoGrowth, owed |-> [i \in Tokens |-> 0]]

TypeOK ==
    /\ bal \in [Holders -> [Assets -> Nat]]
    /\ price \in SqrtRatio[MinTick]..SqrtRatio[MaxTick] /\ tick \in MinTick..MaxTick
    /\ liquidity \in Nat /\ map \in TickMap /\ growth \in [Tokens -> Growth]
    /\ pos \in [Users -> [UsedRanges -> Position]] /\ fullRange \in Nat
    /\ raw \in [user : [Users -> Nat], total : Nat]
    /\ weighted \in [user : [Users -> Nat], total : Nat]
    /\ reserve \in [Tokens -> Nat] /\ protocolFee \in [Tokens -> Nat]
    /\ pfFraction \in 0..FeeDenominator /\ killed \in [Switches -> BOOLEAN]
    /\ ledger \in Nat /\ rw \in RewardState /\ lock \in [Users -> Nat]

-----------------------------------------------------------------------------
(* Arithmetic of prices (math.rs)                                          *)

Fail == -1
CeilDiv(x, y) == (x + y - 1) \div y
MinOf(x, y) == IF x <= y THEN x ELSE y
MaxOf(x, y) == IF x >= y THEN x ELSE y
Divide(x, y, roundUp) == IF roundUp THEN CeilDiv(x, y) ELSE x \div y

\* amount0_delta: L Q (b - a) / (a b), divided by b first.
Amount0(a, b, l, roundUp) ==
    LET lo == MinOf(a, b)
        hi == MaxOf(a, b)
    IN Divide(Divide(l * Q * (hi - lo), hi, roundUp), lo, roundUp)

\* amount1_delta: L (b - a) / Q.
BugRoundsDown(a, b, l, roundUp) == (l * (MaxOf(a, b) - MinOf(a, b))) \div Q
Amount1(a, b, l, roundUp) == Divide(l * (MaxOf(a, b) - MinOf(a, b)), Q, roundUp)

LiquidityFor0(a, b, n) == (n * ((a * b) \div Q)) \div (b - a)
LiquidityFor1(a, b, n) == (n * Q) \div (b - a)

\* get_next_sqrt_price_from_amount0, _from_amount1: the price after adding or
\* removing an amount of the token, rounded against the caller.
NextFrom0(p, l, n, add) ==
    IF n = 0 THEN p
    ELSE IF add THEN CeilDiv(l * Q * p, l * Q + n * p)
    ELSE IF l * Q <= n * p THEN Fail
    ELSE CeilDiv(l * Q * p, l * Q - n * p)
NextFrom1(p, l, n, add) ==
    IF add THEN p + (n * Q) \div l
    ELSE IF p <= CeilDiv(n * Q, l) THEN Fail
    ELSE p - CeilDiv(n * Q, l)
NextFromInput(p, l, n, down)  == IF down THEN NextFrom0(p, l, n, TRUE) ELSE NextFrom1(p, l, n, TRUE)
NextFromOutput(p, l, n, down) == IF down THEN NextFrom1(p, l, n, FALSE) ELSE NextFrom0(p, l, n, FALSE)

\* tick_at_sqrt_ratio
TickAt(p) == CHOOSE t \in MinTick..MaxTick :
    /\ SqrtRatio[t] <= p
    /\ t < MaxTick => p < SqrtRatio[t + 1]

Root(n) == CHOOSE r \in 0..n : r * r <= n /\ n < (r + 1) * (r + 1)

\* sqrt_price_from_amounts
PriceOfAmounts(n) ==
    LET p == Root((n[1] * Q * Q) \div n[0])
    IN IF p < SqrtRatio[MinTick] \/ p >= SqrtRatio[MaxTick] THEN Fail ELSE p

\* amounts_for_liquidity: what a range holds at price p.
AmountsFor(r, p, l, roundUp) ==
    LET lo == SqrtRatio[r[1]]
        hi == SqrtRatio[r[2]]
        at == MaxOf(lo, MinOf(p, hi))
    IN [i \in Tokens |-> IF i = 0 THEN Amount0(at, hi, l, roundUp)
                         ELSE Amount1(lo, at, l, roundUp)]

\* max_liquidity_for_amounts_at_slot
MaxLiquidityFor(r, p, n) ==
    LET lo == SqrtRatio[r[1]]
        hi == SqrtRatio[r[2]]
    IN IF p <= lo THEN LiquidityFor0(lo, hi, n[0])
       ELSE IF p >= hi THEN LiquidityFor1(lo, hi, n[1])
       ELSE MinOf(LiquidityFor0(p, hi, n[0]), LiquidityFor1(lo, p, n[1]))

FeeGrowthDelta(n, l) == IF n = 0 \/ l = 0 THEN 0 ELSE (n * GrowthScale) \div l
FeePart(n) == (n * pfFraction) \div FeeDenominator

-----------------------------------------------------------------------------
(* Swaps: swap_loop of internal.rs                                         *)

\* The fee on top of an input that is used up to the target.
BugRoundsFeeDown(in) == (in * Fee) \div (FeeDenominator - Fee)
FeeOnTop(in) == CeilDiv(in * Fee, FeeDenominator - Fee)

\* compute_swap_step: towards "target" with what is "left" of the input or of
\* the output.  An input that reaches the target pays the fee on top of what
\* it needs, one that does not pays all it has.
SwapStep(p, target, l, left, down, exactIn) ==
    LET net == (left * (FeeDenominator - Fee)) \div FeeDenominator
        in(q)  == IF down THEN Amount0(q, p, l, TRUE) ELSE Amount1(p, q, l, TRUE)
        out(q) == IF down THEN Amount1(q, p, l, FALSE) ELSE Amount0(p, q, l, FALSE)
        reached == IF exactIn THEN net >= in(target) ELSE left >= out(target)
        far == IF exactIn THEN NextFromInput(p, l, net, down)
               ELSE NextFromOutput(p, l, left, down)
        next == IF reached THEN target
                ELSE IF far = Fail THEN Fail
                ELSE IF down THEN MaxOf(far, target) ELSE MinOf(far, target)
    IN IF l = 0 THEN [next |-> target, in |-> 0, out |-> 0, fee |-> 0]
       ELSE IF next = Fail THEN [next |-> Fail, in |-> 0, out |-> 0, fee |-> 0]
       ELSE [next |-> next, in |-> in(next),
             out |-> IF exactIn THEN out(next) ELSE MinOf(out(next), left),
             fee |-> IF exactIn /\ next # target THEN MaxOf(0, left - in(next))
                     ELSE FeeOnTop(in(next))]

\* validate_price_limit, of a call without a limit of its own.
PriceLimit(down) == IF down THEN SqrtRatio[MinTick] + 1 ELSE SqrtRatio[MaxTick] - 1
LimitAhead(down) == IF down THEN PriceLimit(down) < price ELSE PriceLimit(down) > price

\* What the loop carries: the slot, the liquidity and the last that was not 0,
\* the last tick crossed (at most one), what is left and what it is worth, the
\* protocol's part, the global growth and the ticks.
BeforeSwap(n) ==
    [price |-> price, tick |-> tick, liq |-> liquidity, last |-> liquidity,
     crossed |-> {}, left |-> n, worth |-> 0, cut |-> 0,
     growth |-> growth, ticks |-> map.tick]

Stops(s, down) ==
    \/ s.left = 0
    \/ s.price \in {PriceLimit(down), Fail}
    \/ s.liq < 0
    \/ IF down THEN s.tick < map.min ELSE s.tick >= map.max

\* cross_tick
CrossTick(ticks, c, g) ==
    [ticks EXCEPT ![c].out = [i \in Tokens |-> WrappingSub(g[i], @[i])]]

\* The liquidity that a crossing adds.
BugForgetsDirection(ticks, c, down) == ticks[c].net
NetAcross(ticks, c, down) == IF down THEN -ticks[c].net ELSE ticks[c].net

\* Where the tick is once the price is that of the next one.
BugStepsAUsableTick(next, down) ==
    IF down THEN MaxOf(next.tick - TickSpacing, MinTick) ELSE next.tick
TickReached(next, down) == IF down THEN MaxOf(next.tick - 1, MinTick) ELSE next.tick

\* One round of the loop, when its step and its next tick are known.
Advance(s, step, next, down, exactIn) ==
    LET token == IF down THEN 0 ELSE 1
        cut == FeePart(step.fee)
        g == [s.growth EXCEPT ![token] =
                WrappingAdd(@, FeeGrowthDelta(step.fee - cut, s.liq))]
        c == CompressTick(next.tick)
        reached == step.next = SqrtRatio[next.tick]
        crossing == reached /\ next.init
    IN [price |-> step.next,
        tick |-> IF reached THEN TickReached(next, down)
                 ELSE IF step.next # s.price /\ step.next # Fail THEN TickAt(step.next)
                 ELSE s.tick,
        liq |-> IF crossing THEN s.liq + NetAcross(s.ticks, c, down) ELSE s.liq,
        last |-> IF s.liq > 0 THEN s.liq ELSE s.last,
        crossed |-> IF crossing THEN {next.tick} ELSE s.crossed,
        left |-> MaxOf(0, s.left - IF exactIn THEN step.in + step.fee ELSE step.out),
        worth |-> s.worth + IF exactIn THEN step.out ELSE step.in + step.fee,
        cut |-> s.cut + cut,
        growth |-> g,
        ticks |-> IF crossing THEN CrossTick(s.ticks, c, g) ELSE s.ticks]

Target(next, down) ==
    IF down THEN MaxOf(SqrtRatio[next.tick], PriceLimit(down))
    ELSE MinOf(SqrtRatio[next.tick], PriceLimit(down))

\* The search reads the chunks as they were stored before the swap, whose
\* crossings do not change where the liquidity begins and ends.
Round(s, down, exactIn) ==
    LET next == FindInitializedTick(map, s.tick, down)
        step == SwapStep(s.price, Target(next, down), s.liq, s.left, down, exactIn)
    IN Advance(s, step, next, down, exactIn)

\* The loop, round by round; a swap that is not done after MaxRounds panics.
SwapLoop(n, down, exactIn) ==
    LET after[i \in 0..MaxRounds] ==
            IF i = 0 THEN BeforeSwap(n)
            ELSE LET s == after[i - 1]
                 IN IF Stops(s, down) THEN s ELSE Round(s, down, exactIn)
        end == after[MaxRounds]
    IN IF Stops(end, down) THEN end ELSE [end EXCEPT !.price = Fail]

\* simulate_swap_amounts (estimate_swap, estimate_swap_strict_receive) is the
\* same loop without its effects: the worth of n, or Fail.
CanSwap(n, down) == n > 0 /\ raw.total > 0 /\ LimitAhead(down)
Refused(s, exactIn) == s.price = Fail \/ s.liq < 0 \/ (~exactIn /\ s.left > 0)

-----------------------------------------------------------------------------
(* Positions                                                               *)

\* accrue_position_fees, with the tick map, the growth and the tick at hand.
Inside(m, r, t, g) == [i \in Tokens |-> FeeGrowthInside(m, r[1], r[2], t, g, i)]
Accrue(p, inside) ==
    [p EXCEPT !.last = inside,
              !.owed = [i \in Tokens |->
                 @[i] + (WrappingSub(inside[i], p.last[i]) * p.liq) \div GrowthScale]]
Accrued(u, r) == Accrue(pos[u][r], Inside(map, r, tick, growth))

Ranged(u) == {r \in UsedRanges : pos[u][r].liq > 0}

\* position_multiplier_bps, apply_multiplier: full inside the range, then
\* falling with the square of the distance.
Distance(r, t) == IF t < r[1] THEN r[1] - t
                  ELSE IF t >= r[2] THEN MaxOf(t - r[2], 1) ELSE 0
Multiplier(d) ==
    IF d = 0 THEN BpsDenominator
    ELSE IF d >= MaxDistance THEN 0
    ELSE (BpsDenominator * (MaxDistance - d) * (MaxDistance - d))
            \div (MaxDistance * MaxDistance)
Weight(ranges, t) ==
    SumFunctionOnSet([r \in UsedRanges |->
        (ranges[r].liq * Multiplier(Distance(r, t))) \div BpsDenominator], UsedRanges)

\* recompute_user_weighted_liquidity, for positions and a tick that may be new.
BugForgetsTotal(w, u, ranges, t) == [w EXCEPT !.user[u] = Weight(ranges, t)]
Reweigh(w, u, ranges, t) ==
    LET new == Weight(ranges, t)
    IN [user |-> [w.user EXCEPT ![u] = new],
        total |-> MaxOf(0, w.total + new - w.user[u])]

TotalLocked == SumFunctionOnSet(lock, Users)
Checkpoint(w, u) ==
    CheckpointUser(rw, lock, TotalLocked, ledger, u, w.total, w.user[u])

\* Liquidity of u becomes "ranges" at tick t: the user is weighed and brought up
\* to date before, weighed again after, and his working balance is set.
MoveWeight(u, ranges, t) ==
    \E before \in {Reweigh(weighted, u, pos[u], t)} :
    \E after \in {Reweigh(before, u, ranges, t)} :
        /\ weighted' = after
        /\ rw' = UpdateWorkingBalance(Checkpoint(before, u), lock, TotalLocked,
                                      u, after.total, after.user[u])

Active(r, t) == r[1] <= t /\ t < r[2]

Init ==
    /\ bal = [h \in Holders |-> [i \in Assets |->
                 IF h \in Users /\ i \in Tokens THEN InitialBalance
                 ELSE IF h = Outside /\ i = RewardToken THEN RewardFunds
                 ELSE 0]]
    /\ price = SqrtRatio[0] /\ tick = 0 /\ liquidity = 0
    /\ map = EmptyTickMap /\ growth = NoGrowth
    /\ pos = [u \in Users |-> [r \in UsedRanges |-> NoPosition]]
    /\ fullRange = 0
    /\ raw = [user |-> [u \in Users |-> 0], total |-> 0]
    /\ weighted = [user |-> [u \in Users |-> 0], total |-> 0]
    /\ reserve = [i \in Tokens |-> 0] /\ protocolFee = [i \in Tokens |-> 0]
    /\ pfFraction = InitialProtocolFraction
    /\ killed = [s \in Switches |-> FALSE]
    /\ ledger = 1 /\ rw = EmptyRewards /\ lock = [u \in Users |-> 0]

-----------------------------------------------------------------------------
(* Opening and leaving positions                                           *)

\* update_tick_liquidity of both ends.
BothTicks(m, r, delta, t, g) ==
    UpdateTickLiquidity(UpdateTickLiquidity(m, r[1], delta, FALSE, t, g),
                        r[2], delta, TRUE, t, g)
TickRoom(r, l) ==
    \A t \in {r[1], r[2]} : GetTick(map, t).gross + l <= MaxLiquidityPerTick

\* Liquidity of u in r changes by delta and leaves the position p.
MoveLiquidity(u, r, delta, p, t) ==
    /\ map' = BothTicks(map, r, delta, t, growth)
    /\ liquidity' = IF Active(r, t) THEN liquidity + delta ELSE liquidity
    /\ fullRange' = IF r = FullRange THEN fullRange + delta ELSE fullRange
    /\ raw' = [user |-> [raw.user EXCEPT ![u] = @ + delta], total |-> raw.total + delta]
    /\ pos' = [pos EXCEPT ![u][r] = p]
    /\ MoveWeight(u, pos'[u], t)
    /\ UNCHANGED growth

\* get_or_create_position and accrue_position_fees, once the ticks know of the
\* new liquidity.
Deposited(u, r, l, t) ==
    LET inside == Inside(BothTicks(map, r, l, t, growth), r, t, growth)
        p == IF pos[u][r].liq > 0 THEN pos[u][r] ELSE [NoPosition EXCEPT !.last = inside]
    IN [Accrue(p, inside) EXCEPT !.liq = @ + l]

\* deposit_position, and deposit on the full range.  The first deposit sets the
\* price from its amounts.  All of them are taken and the rest given back.
DepositPosition(u, r, n) ==
    /\ ~killed["deposit"]
    /\ n[0] > 0 \/ n[1] > 0
    /\ \A i \in Tokens : n[i] <= bal[u][i]
    /\ raw.total = 0 => n[0] > 0 /\ n[1] > 0
    /\ \E p \in {IF raw.total = 0 THEN PriceOfAmounts(n) ELSE price} :
          /\ p # Fail
          /\ raw.total = 0 => Active(r, TickAt(p))
          /\ \E t \in {IF raw.total = 0 THEN TickAt(p) ELSE tick},
                l \in {MaxLiquidityFor(r, p, n)} :
                /\ price' = p /\ tick' = t
                /\ l > 0 /\ TickRoom(r, l)
                /\ Cardinality(Ranged(u) \cup {r}) <= MaxUserPositions
                /\ \E paid \in {AmountsFor(r, p, l, TRUE)} :
                   \E taken \in {[i \in Tokens |-> MinOf(paid[i], n[i])]} :
                      /\ reserve' = [i \in Tokens |-> reserve[i] + taken[i]]
                      /\ bal' = [bal EXCEPT
                            ![u]    = [i \in Assets |-> IF i \in Tokens THEN @[i] - taken[i] ELSE @[i]],
                            ![Pool] = [i \in Assets |-> IF i \in Tokens THEN @[i] + taken[i] ELSE @[i]]]
                /\ MoveLiquidity(u, r, l, Deposited(u, r, l, t), t)
    /\ UNCHANGED <<protocolFee, cfgVars, envVars>>

\* What the pool pays out of its reserves.
PayFromReserves(u, n) ==
    /\ \A i \in Tokens : n[i] <= reserve[i] /\ n[i] <= bal[Pool][i]
    /\ reserve' = [i \in Tokens |-> reserve[i] - n[i]]
    /\ bal' = [bal EXCEPT
          ![Pool] = [i \in Assets |-> IF i \in Tokens THEN @[i] - n[i] ELSE @[i]],
          ![u]    = [i \in Assets |-> IF i \in Tokens THEN @[i] + n[i] ELSE @[i]]]

\* withdraw_position, and withdraw on the full range; open whatever is killed.
\* The principal rounded down and all fees are paid.
WithdrawPays(u, r, l) ==
    LET principal == AmountsFor(r, price, l, FALSE)
    IN [i \in Tokens |-> principal[i] + Accrued(u, r).owed[i]]
WithdrawPosition(u, r, l) ==
    /\ l > 0 /\ l <= pos[u][r].liq
    /\ Active(r, tick) => l <= liquidity
    /\ PayFromReserves(u, WithdrawPays(u, r, l))
    /\ MoveLiquidity(u, r, -l,
          IF l = pos[u][r].liq THEN NoPosition
          ELSE [Accrued(u, r) EXCEPT !.liq = @ - l, !.owed = [i \in Tokens |-> 0]], tick)
    /\ UNCHANGED <<price, tick, protocolFee, cfgVars, envVars>>

\* claim_position_fees of one range, claim_all_position_fees of all of them.
ClaimFees(u, ranges) ==
    /\ ranges # {} /\ ranges \subseteq Ranged(u)
    /\ PayFromReserves(u, [i \in Tokens |->
          SumFunctionOnSet([r \in ranges |-> Accrued(u, r).owed[i]], ranges)])
    /\ pos' = [pos EXCEPT ![u] = [r \in UsedRanges |->
          IF r \in ranges
          THEN [Accrued(u, r) EXCEPT !.owed = [i \in Tokens |-> 0]] ELSE @[r]]]
    /\ UNCHANGED <<curveVars, fullRange, raw, rewVars, protocolFee, cfgVars, envVars>>

-----------------------------------------------------------------------------
(* Swaps                                                                   *)

InToken(down)  == IF down THEN 0 ELSE 1
OutToken(down) == IF down THEN 1 ELSE 0

BugSurplusNotOutside(s, surplus, token) ==
    LET cut == FeePart(surplus)
        delta == FeeGrowthDelta(surplus - cut, s.last)
    IN [ticks |-> s.ticks, growth |-> [s.growth EXCEPT ![token] = WrappingAdd(@, delta)],
        cut |-> cut, lp |-> surplus - cut]

\* What swap_internal does with the input an exact-input swap could not use:
\* the protocol's part, the rest to the liquidity last in use; the last tick
\* crossed is told, as it was flipped with the growth before.
Surplus(s, surplus, token) ==
    LET cut == FeePart(surplus)
        delta == FeeGrowthDelta(surplus - cut, s.last)
        told == {CompressTick(t) : t \in s.crossed}
    IN IF surplus = 0 \/ s.last = 0
       THEN [ticks |-> s.ticks, growth |-> s.growth, cut |-> 0, lp |-> 0]
       ELSE [ticks |-> [c \in CTicks |-> IF c \in told
                           THEN [s.ticks[c] EXCEPT !.out[token] = WrappingAdd(@, delta)]
                           ELSE s.ticks[c]],
             growth |-> [s.growth EXCEPT ![token] = WrappingAdd(@, delta)],
             cut |-> cut, lp |-> surplus - cut]

\* The end of a swap: u pays "taken" into the pool, for which the curve used
\* "in" and gave "out"; more is left for the liquidity.
Settle(u, s, down, taken, in, out, more) ==
    LET x == InToken(down)
        y == OutToken(down)
    IN /\ taken <= bal[u][x] /\ out <= bal[Pool][y]
       /\ in >= s.cut /\ out <= reserve[y]
       /\ price' = s.price /\ tick' = s.tick /\ liquidity' = s.liq
       /\ growth' = more.growth
       /\ map' = [map EXCEPT !.tick = more.ticks]
       /\ reserve' = [reserve EXCEPT ![x] = @ + in - s.cut + more.lp, ![y] = @ - out]
       /\ protocolFee' = [protocolFee EXCEPT ![x] = @ + s.cut + more.cut]
       /\ bal' = [bal EXCEPT ![u][x] = @ - taken, ![u][y] = @ + out,
                             ![Pool][x] = @ + taken, ![Pool][y] = @ - out]
       /\ UNCHANGED <<posVars, rewVars, cfgVars, envVars>>

\* All of n is taken, whatever the curve can use of it.
Swap(u, down, n, outMin) ==
    /\ ~killed["swap"]
    /\ CanSwap(n, down)
    /\ \E s \in {SwapLoop(n, down, TRUE)} :
          /\ ~Refused(s, TRUE)
          /\ s.left < n /\ s.worth >= outMin
          /\ \E more \in {Surplus(s, s.left, InToken(down))} :
                Settle(u, s, down, n, n - s.left, s.worth, more)

\* inMax is taken first and the difference returned.
SwapStrictReceive(u, down, n, inMax) ==
    /\ ~killed["swap"]
    /\ CanSwap(n, down)
    /\ inMax <= bal[u][InToken(down)]
    /\ \E s \in {SwapLoop(n, down, FALSE)} :
          /\ ~Refused(s, FALSE)
          /\ 0 < s.worth /\ s.worth <= inMax
          /\ Settle(u, s, down, s.worth, s.worth, n,
                    [ticks |-> s.ticks, growth |-> s.growth, cut |-> 0, lp |-> 0])

-----------------------------------------------------------------------------
(* Administration                                                          *)

SetProtocolFeeFraction(caller, fraction) ==
    /\ caller \in {"Admin", "OperationsAdmin"}
    /\ fraction <= FeeDenominator
    /\ pfFraction' = fraction
    /\ UNCHANGED <<curveVars, posVars, bookVars, rewVars, killed, envVars>>

BugClaimsTwice(caller) ==
    /\ caller \in {"Admin", "SystemFeeAdmin"}
    /\ \A i \in Tokens : protocolFee[i] <= bal[Pool][i]
    /\ bal' = [bal EXCEPT ![Pool] = [i \in Assets |->
                  IF i \in Tokens THEN @[i] - protocolFee[i] ELSE @[i]]]
    /\ UNCHANGED <<curveVars, posVars, reserve, protocolFee, rewVars, cfgVars, envVars>>

ClaimProtocolFees(caller) ==
    /\ caller \in {"Admin", "SystemFeeAdmin"}
    /\ \A i \in Tokens : protocolFee[i] <= bal[Pool][i]
    /\ bal' = [bal EXCEPT
          ![Pool]    = [i \in Assets |-> IF i \in Tokens THEN @[i] - protocolFee[i] ELSE @[i]],
          ![Outside] = [i \in Assets |-> IF i \in Tokens THEN @[i] + protocolFee[i] ELSE @[i]]]
    /\ protocolFee' = [i \in Tokens |-> 0]
    /\ UNCHANGED <<curveVars, posVars, reserve, rewVars, cfgVars, envVars>>

Kill(caller, s) ==
    /\ caller \in {"Admin", "PauseAdmin", "EmergencyPauseAdmin"}
    /\ killed' = [killed EXCEPT ![s] = TRUE]
    /\ UNCHANGED <<curveVars, posVars, bookVars, rewVars, pfFraction, envVars>>
Unkill(caller, s) ==
    /\ caller \in {"Admin", "PauseAdmin"}
    /\ killed' = [killed EXCEPT ![s] = FALSE]
    /\ UNCHANGED <<curveVars, posVars, bookVars, rewVars, pfFraction, envVars>>

-----------------------------------------------------------------------------
(* Rewards: as in the other pools, but for the shares, which are the       *)
(* weighted liquidity as of the last call of each user.                    *)

\* The calls that only touch the reward state.
RewardsBecome(w, r) ==
    /\ weighted' = w
    /\ rw' = r
    /\ UNCHANGED <<curveVars, posVars, bookVars, cfgVars, envVars>>

SetRewardsConfig(caller, expiredAt, tps) ==
    /\ caller \in {"Router", "Admin", "RewardsAdmin"}
    /\ RewardConfigAccepted(rw, ledger, expiredAt, tps)
    /\ RewardsBecome(weighted, SetRewardConfig(rw, ledger, weighted.total, expiredAt, tps))

\* The reserve and the protocol fees stay in the pool.
Claim(u) ==
    \E w \in {Reweigh(weighted, u, pos[u], tick)} :
    \E due \in {Checkpoint(w, u)} :
    \E paid \in {due.user[u].toClaim} :
        /\ ~killed["claim"]
        /\ paid <= bal[Pool][RewardToken]
        /\ RewardToken \in Tokens =>
             reserve[RewardToken] + protocolFee[RewardToken] <= bal[Pool][RewardToken] - paid
        /\ bal' = [bal EXCEPT ![Pool][RewardToken] = @ - paid, ![u][RewardToken] = @ + paid]
        /\ weighted' = w /\ rw' = PayUser(due, u)
        /\ UNCHANGED <<curveVars, posVars, reserve, protocolFee, cfgVars, envVars>>

\* get_user_reward weighs the user again, get_rewards_info does not.
GetUserReward(u) ==
    \E w \in {Reweigh(weighted, u, pos[u], tick)} : RewardsBecome(w, Checkpoint(w, u))
GetRewardsInfo(u) == RewardsBecome(weighted, Checkpoint(weighted, u))

SetRewardsState(u, state) ==
    \E w \in {Reweigh(weighted, u, pos[u], tick)} :
    \E i \in {InitWorking(rw, u, w.total, w.user[u])} :
        RewardsBecome(w, CheckpointUser(SetUserRewardsState(i, u, w.user[u], state),
                            lock, TotalLocked, ledger, u, w.total, w.user[u]))

GetPoolRewards == RewardsBecome(weighted, UpdatePool(rw, ledger, weighted.total))

ReturnUnusedReward(caller) ==
    LET r == UpdatePool(rw, ledger, weighted.total)
        keep == MaxOf(0, TotalConfigured(r, ledger) - r.claimed)
                  + IF RewardToken \in Tokens
                    THEN reserve[RewardToken] + protocolFee[RewardToken] ELSE 0
        unused == MaxOf(0, bal[Pool][RewardToken] - keep)
    IN /\ caller \in {"Admin", "RewardsAdmin"}
       /\ rw' = r
       /\ bal' = [bal EXCEPT ![Pool][RewardToken] = @ - unused,
                             ![Outside][RewardToken] = @ + unused]
       /\ UNCHANGED <<curveVars, posVars, reserve, protocolFee, weighted, cfgVars, envVars>>

AdjustTotalAccumulatedReward(caller, diff) ==
    /\ caller \in {"Admin", "RewardsAdmin"}
    /\ UpdatePool(rw, ledger, weighted.total).acc + diff >= 0
    /\ RewardsBecome(weighted, AdjustAccumulated(rw, ledger, weighted.total, diff))

-----------------------------------------------------------------------------
(* The surroundings                                                        *)

SendToPool(from, i, n) ==
    /\ n <= bal[from][i]
    /\ bal' = [bal EXCEPT ![from][i] = @ - n, ![Pool][i] = @ + n]
    /\ UNCHANGED <<curveVars, posVars, reserve, protocolFee, rewVars, cfgVars, envVars>>

ChangeLock(u, n) ==
    /\ lock' = [lock EXCEPT ![u] = n]
    /\ UNCHANGED <<curveVars, posVars, bookVars, rewVars, cfgVars, ledger>>

NextLedger ==
    /\ ledger < MaxLedger
    /\ ledger' = ledger + 1
    /\ UNCHANGED <<curveVars, posVars, bookVars, rewVars, cfgVars, lock>>

-----------------------------------------------------------------------------
UserStep ==
    \E u \in Users :
        \/ \E r \in UsedRanges, n \in [Tokens -> DepositAmounts] : DepositPosition(u, r, n)
        \/ \E r \in UsedRanges, l \in LiquidityAmounts :
                WithdrawPosition(u, r, MinOf(l, pos[u][r].liq))
        \/ \E r \in UsedRanges : ClaimFees(u, {r})
        \/ ClaimFees(u, Ranged(u))
        \/ \E down \in BOOLEAN, n \in SwapAmounts :
            \/ Swap(u, down, n, 0)
            \/ SwapStrictReceive(u, down, n, bal[u][InToken(down)])

RewardStep ==
    \/ \E u \in Users :
        \/ Claim(u)
        \/ GetUserReward(u)
        \/ GetRewardsInfo(u)
        \/ \E state \in RewardSwitches : SetRewardsState(u, state)
    \/ GetPoolRewards

AdminStep ==
    \E caller \in Callers :
        \/ \E f \in ProtocolFractions : SetProtocolFeeFraction(caller, f)
        \/ ClaimProtocolFees(caller)
        \/ \E s \in UsedSwitches : Kill(caller, s) \/ Unkill(caller, s)
        \/ \E e \in Expirations, tps \in TpsValues : SetRewardsConfig(caller, e, tps)
        \/ ReturnUnusedReward(caller)
        \/ \E diff \in Diffs : AdjustTotalAccumulatedReward(caller, diff)

EnvStep ==
    \/ \E from \in Users \cup {Outside}, i \in Assets, n \in GiftAmounts :
            SendToPool(from, i, n)
    \/ \E u \in Users, n \in LockAmounts : ChangeLock(u, n)
    \/ NextLedger

Next == UserStep \/ RewardStep \/ AdminStep \/ EnvStep

Spec == Init /\ [][Next]_vars

-----------------------------------------------------------------------------
(* Properties                                                              *)

AllPositions == {x \in Users \X UsedRanges : pos[x[1]][x[2]].liq > 0}
SumOver(S, f(_)) == SumFunctionOnSet([x \in S |-> f(x)], S)

\* The liquidity that swaps trade on is that of the positions around the price,
\* however many ticks were crossed in which direction; every tick knows the
\* liquidity that begins and ends there.
LiquidityAddsUp ==
    /\ liquidity = SumOver({x \in AllPositions : Active(x[2], tick)},
                           LAMBDA x : pos[x[1]][x[2]].liq)
    /\ \A c \in CTicks :
          LET begins == SumOver({x \in AllPositions : x[2][1] = CompressedToTick(c)},
                                LAMBDA x : pos[x[1]][x[2]].liq)
              ends   == SumOver({x \in AllPositions : x[2][2] = CompressedToTick(c)},
                                LAMBDA x : pos[x[1]][x[2]].liq)
          IN /\ map.tick[c].gross = begins + ends
             /\ map.tick[c].net = begins - ends

\* The three levels of the index, kept bit by bit, agree with the ticks: a swap
\* that searches from anywhere between the bounds finds exactly the next tick
\* with liquidity, and the bounds are those of the ticks.
IndexExact == BoundsExact(map) /\ SearchExact(map)

\* The principal and the fees of every position.
Owed(i) == SumOver(AllPositions, LAMBDA x : WithdrawPays(x[1], x[2], pos[x[1]][x[2]].liq)[i])

\* All providers can leave at once: the reserves hold the principal and the
\* fees of every position, after any rounding of swaps, crossings and surplus.
ReservesCoverPositions ==
    \A i \in Tokens :
        Owed(i) <= reserve[i]

\* And nothing else is left in them, but what a swap rounds off on its way: all
\* fees, and the input that an exact-input swap could not use, go to providers
\* that can claim them or to the protocol, whatever was crossed.
FeesReachProviders ==
    [][price' # price /\ AllPositions # {} =>
        \A i \in Tokens :
            (reserve[i] - Owed(i))' <= reserve[i] - Owed(i) + RoundedOff]_vars

\* The pool owns what it owes.
Solvent == \A i \in Tokens : reserve[i] + protocolFee[i] <= bal[Pool][i]

\* The shares of the reward accounting add up: no subtraction of the total
\* weight, which saturates, has ever hidden a difference, and the working
\* supply is the sum of the working balances.
WeightsAddUp ==
    /\ weighted.total = SumFunctionOnSet(weighted.user, Users)
    /\ rw.ws # Unset =>
         rw.ws = SumOver({u \in Users : rw.wb[u] # Unset}, LAMBDA u : rw.wb[u])

\* The tick is that of the price; at the price of a tick, the one below when
\* the price came down to it.
TickMatchesPrice ==
    /\ SqrtRatio[tick] <= price
    /\ tick < MaxTick => price <= SqrtRatio[tick + 1]

\* What the estimate of an exact output asks for, paid as an exact input, buys at
\* least that output, however many ticks and gaps lie between: the router chains
\* such estimates and swaps exact inputs over them (RouterSwaps).
QuotesFit ==
    \A down \in BOOLEAN, n \in SwapAmounts : CanSwap(n, down) =>
        \A q \in {SwapLoop(n, down, FALSE)} :
            ~Refused(q, FALSE) /\ q.worth > 0 =>
                SwapLoop(q.worth, down, TRUE).worth >= n

=============================================================================
