------------------------------ MODULE PlaneSteps ------------------------------
(***************************************************************************)
(* The snapshot of its curve that the concentrated pool sends to the plane *)
(* at the end of every call that moves liquidity or the price (update_plane*)
(* of liquidity_pool_concentrated/src/plane.rs): what a trade would take   *)
(* and give over each of a few steps to both sides of the price, without   *)
(* the full-range positions, which are told apart.                         *)
(*                                                                         *)
(* The snapshot is a function of the pool's state.  Amounts that reach     *)
(* 2^128, where the code saturates and stops walking, are not modelled.    *)
(***************************************************************************)
EXTENDS Concentrated, Sequences

CONSTANTS
    MinExactSteps, MaxExactSteps, \* MIN_EXACT_TICK_STEPS, MAX_EXACT_TICK_STEPS
    TargetDistance                \* TARGET_PRICE_DISTANCE_TICKS

ASSUME PlaneStepsAssumption ==
    /\ {MinExactSteps, MaxExactSteps} \subseteq Nat \ {0} /\ MinExactSteps <= MaxExactSteps
    /\ TargetDistance \in Nat

\* step_target: the boundaries are 1, 3, 6, ... usable ticks away.
StepTarget(k) == (k * (k + 1)) \div 2

\* exact_tick_steps_for_spacing: the fewest steps that cover the distance.
ExactSteps ==
    CHOOSE n \in MinExactSteps..MaxExactSteps :
        /\ n = MaxExactSteps \/ StepTarget(n) * TickSpacing >= TargetDistance
        /\ \A k \in MinExactSteps..(n - 1) : StepTarget(k) * TickSpacing < TargetDistance

Boundary(k, down) ==
    IF down THEN CompressTick(tick) - StepTarget(k)
    ELSE CompressTick(tick) + StepTarget(k) + 1

\* find_initialized_tick: the next tick with liquidity, up to a limit, which it
\* includes; so does a search downwards the tick it starts from.
FindUpTo(c, limit, down) ==
    LET next == FindInitializedTick(map, c * TickSpacing, down)
        at == CompressTick(next.tick)
    IN IF next.init /\ (IF down THEN at >= limit ELSE at <= limit) THEN {at} ELSE {}

\* full_range_liquidity_net_adjustment and apply_liquidity_net
NetWithoutFullRange(c) ==
    map.tick[c].net + IF c = CompressTick(FullRange[1]) THEN -fullRange
                      ELSE IF c = CompressTick(FullRange[2]) THEN fullRange ELSE 0
ApplyNet(l, net, down) == MaxOf(0, IF down THEN l - net ELSE l + net)

\* compute_amounts, added to what the step has so far.
Walked(w, p, down) ==
    [w EXCEPT !.price = p,
              !.in  = @ + IF down THEN Amount0(p, w.price, w.liq, TRUE)
                          ELSE Amount1(w.price, p, w.liq, TRUE),
              !.out = @ + IF down THEN Amount1(p, w.price, w.liq, FALSE)
                          ELSE Amount0(w.price, p, w.liq, FALSE)]

Walk == [price : Nat, liq : Nat, cursor : Int, in : Nat, out : Nat]

\* The ticks with liquidity on the way of a step, crossed one after the other.
WalkTicks(start, limit, down) ==
    LET Cross[w \in Walk] ==
            LET found == FindUpTo(w.cursor, limit, down)
            IN IF found = {} THEN w
               ELSE LET c == CHOOSE x \in found : TRUE
                    IN Cross[[Walked(w, SqrtRatio[CompressedToTick(c)], down) EXCEPT
                                 !.liq = ApplyNet(@, NetWithoutFullRange(c), down),
                                 !.cursor = IF down THEN c - 1 ELSE c]]
    IN Cross[start]

\* A step ends at its boundary, where the next one starts: from the boundary's
\* tick downwards, from the tick below it upwards.
WalkStep(w, k, down) ==
    LET b == Boundary(k, down)
        target == SqrtRatio[CompressedToTick(b)]
        last == WalkTicks([w EXCEPT !.in = 0, !.out = 0], b, down)
    IN [Walked(last, target, down) EXCEPT !.cursor = IF down THEN b ELSE b - 1]

\* collect_exact_direction_steps: how the walk stands at the end of each step,
\* for as long as the ticks last.
DirectionSteps(down) ==
    LET Upto[k \in 0..ExactSteps] ==
            IF k = 0
            THEN << [price |-> price, liq |-> MaxOf(0, liquidity - fullRange),
                     cursor |-> CompressTick(tick), in |-> 0, out |-> 0] >>
            ELSE LET done == Upto[k - 1]
                     w == done[Len(done)]
                 IN IF Len(done) < k \/ w.price \in {SqrtRatio[MinTick], SqrtRatio[MaxTick]}
                    THEN done ELSE Append(done, WalkStep(w, k, down))
    IN Tail(Upto[ExactSteps])

\* get_pool_data, what update_plane sends.
Padded(steps) ==
    [k \in 1..ExactSteps |-> IF k <= Len(steps) THEN <<steps[k].in, steps[k].out>> ELSE <<0, 0>>]
PlaneData ==
    [fee |-> Fee, spacing |-> TickSpacing, reserves |-> reserve,
     fullRange |-> AmountsFor(FullRange, price, fullRange, FALSE),
     down |-> Padded(DirectionSteps(TRUE)), up |-> Padded(DirectionSteps(FALSE))]

-----------------------------------------------------------------------------
(* Properties                                                              *)

\* "Cross the tick: apply adjusted liquidity delta.  Must happen BEFORE the
\* saturation early-exit so that subsequent steps use the correct liquidity
\* value" (plane.rs:475): at the end of every step the walk knows the liquidity
\* of the positions beyond its boundary, the full-range ones left out.
StepsUseCorrectLiquidity ==
    \A down \in BOOLEAN :
        \A steps \in {DirectionSteps(down)} : \A k \in DOMAIN steps :
            LET b == Boundary(k, down) * TickSpacing
                beyond == IF down THEN b - 1 ELSE b
            IN steps[k].liq =
                 SumOver({x \in AllPositions : x[2] # FullRange /\ Active(x[2], beyond)},
                         LAMBDA x : pos[x[1]][x[2]].liq)
=============================================================================
