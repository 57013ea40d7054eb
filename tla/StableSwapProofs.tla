-------------------------- MODULE StableSwapProofs --------------------------
(***************************************************************************)
(* The stable pool, for every number of coins, every precision and every   *)
(* amount: it owns what it owes, its plane follows it, and a fee takes     *)
(* effect only after its delay.  The numeric solvers enter by their type   *)
(* alone: an iteration ends with a natural number or fails.                *)
(***************************************************************************)
EXTENDS StableSwap, Arithmetic

-----------------------------------------------------------------------------
(* The solvers                                                             *)

Solved == Nat \cup {Fail}

LEMMA CoinFacts ==
    /\ IsFiniteSet(Coins)
    /\ NCoins \in Nat /\ NCoins >= 2
    /\ Decimals \in [Coins -> Nat \ {0}]
<1>1. NCoins \in Nat /\ NCoins >= 2 /\ Decimals \in [Coins -> Nat \ {0}]
  BY StableAssumption DEF StableAssumption
<1>2. 1 \in Int /\ NCoins \in Int
  BY <1>1
<1>3. IsFiniteSet(1..NCoins)
  BY <1>2, FS_Interval, Zenon
<1> QED
  BY <1>1, <1>3 DEF Coins

LEMMA TotalType ==
    ASSUME NEW xp \in [Coins -> Nat], NEW coins \in SUBSET Coins
    PROVE  SumFunctionOnSet(xp, coins) \in Nat
<1>1. IsFiniteSet(coins)
  BY CoinFacts, FS_Subset
<1>2. xp \in [Coins -> Int] /\ \A i \in coins : xp[i] \in Nat
  OBVIOUS
<1> QED
  BY <1>1, <1>2, SumNat

LEMMA ScaledType ==
    ASSUME NEW amounts \in [Coins -> Nat]
    PROVE  Scaled(amounts) \in [Coins -> Nat]
<1>1. \A i \in Coins : amounts[i] * Decimals[i] \in Nat
  BY CoinFacts, MulNat
<1> QED
  BY <1>1 DEF Scaled

LEMMA ProductType ==
    ASSUME NEW xp \in [Coins -> Nat], NEW coins \in SUBSET Coins, NEW d \in Nat,
           \A i \in coins : xp[i] > 0
    PROVE  Product(xp, coins, d) \in Nat
<1> DEFINE part(i, v) == IF i \in coins THEN (v * d) \div (xp[i] * NCoins) ELSE v
           g == [i \in 1..NCoins |-> [v \in Nat |-> part(i, v)]]
           P(h) == h = [i \in 0..NCoins |->
                          IF i = 0 THEN d
                          ELSE IF i \in coins THEN (h[i - 1] * d) \div (xp[i] * NCoins)
                          ELSE h[i - 1]]
<1>1. ASSUME NEW i \in 1..NCoins, NEW v \in Nat PROVE part(i, v) \in Nat
  <2>1. ASSUME i \in coins PROVE (v * d) \div (xp[i] * NCoins) \in Nat
    <3>1. xp[i] \in Nat \ {0}
      BY <2>1
    <3>2. xp[i] * NCoins \in Nat \ {0}
      BY <3>1, CoinFacts
    <3>3. v * d \in Nat
      BY MulNat
    <3> QED
      BY <3>2, <3>3, DivFacts
  <2> QED
    BY <2>1
<1>2. g \in [1..NCoins -> [Nat -> Nat]]
  <2> HIDE DEF part
  <2> QED BY <1>1
<1>3. ASSUME NEW h \in [0..NCoins -> Nat]
      PROVE  P(h) <=> Recursion(h, NCoins, d, g)
  <2>1. ASSUME NEW i \in 0..NCoins
        PROVE  (IF i = 0 THEN d ELSE g[i][h[i - 1]])
                 = (IF i = 0 THEN d
                    ELSE IF i \in coins THEN (h[i - 1] * d) \div (xp[i] * NCoins)
                    ELSE h[i - 1])
    <3>1. CASE i # 0
      <4>1. i \in 1..NCoins /\ i - 1 \in 0..NCoins
        BY <3>1, CoinFacts
      <4>2. h[i - 1] \in Nat
        BY <4>1
      <4> QED
        BY <4>1, <4>2, Zenon
    <3> QED
      BY <3>1
  <2> QED
    BY <2>1, Zenon DEF Recursion
<1>4. PICK f \in [0..NCoins -> Nat] : Recursion(f, NCoins, d, g)
  <2> HIDE DEF g
  <2> QED BY <1>2, RecursionExists, CoinFacts
<1> DEFINE k == CHOOSE h : P(h)
<1>5. Product(xp, coins, d) = k[NCoins]
  BY Zenon DEF Product
<1>6. P(f)
  BY <1>3, <1>4, Zenon
<1>7. P(k)
  <2> HIDE DEF P
  <2> QED BY <1>6, Zenon
<1> HIDE DEF k
<1>8. k[0] = d
  BY <1>7, CoinFacts
<1>9. ASSUME NEW i \in 1..NCoins, k[i - 1] \in Nat PROVE k[i] \in Nat
  <2>1. k[i] = part(i, k[i - 1])
    BY <1>7, CoinFacts
  <2> QED
    BY <1>1, <1>9, <2>1, Zenon
<1>10. \A i \in 0..NCoins : k[i] \in Nat
  BY <1>8, <1>9, RecursionStays, CoinFacts
<1> QED
  BY <1>5, <1>10, CoinFacts

LEMMA NextDType ==
    ASSUME NEW xp \in [Coins -> Nat], \A i \in Coins : xp[i] > 0,
           NEW amp \in Nat \ {0}, NEW d \in Nat \ {0}
    PROVE  NextD(xp, amp, d) \in Nat
<1> DEFINE ann == amp * NCoins
           dp  == Product(xp, Coins, d)
           sum == Total(xp)
<1>1. dp \in Nat /\ sum \in Nat
  BY ProductType, TotalType DEF Total
<1>2. ann \in Nat /\ ann >= 2
  BY CoinFacts
<1>3. NextD(xp, amp, d) =
        ((ann * sum + dp * NCoins) * d) \div ((ann - 1) * d + (NCoins + 1) * dp)
  BY DEF NextD
<1> HIDE DEF ann, dp, sum
<1>4. (ann * sum + dp * NCoins) * d \in Nat
  BY <1>1, <1>2, CoinFacts
<1>5. (ann - 1) * d \in Nat \ {0} /\ (NCoins + 1) * dp \in Nat
  BY <1>1, <1>2, CoinFacts
<1>6. (ann - 1) * d + (NCoins + 1) * dp \in Nat \ {0}
  BY <1>5
<1> QED
  BY <1>3, <1>4, <1>6, DivFacts

\* An iteration whose steps are natural numbers, once it has got so far that
\* the next of a value matters: "next" where "ok", and Fail elsewhere.
Iteration(h, m, next, ok) ==
    h = [left \in 0..m |->
            [v \in Nat |-> IF left = 0 \/ v \notin ok THEN Fail
                           ELSE IF Settled(next[v], v) THEN next[v]
                           ELSE h[left - 1][next[v]]]]

LEMMA IterationExists ==
    ASSUME NEW m \in Nat, NEW ok \in SUBSET Nat, NEW next \in [ok -> Nat]
    PROVE  \E h : Iteration(h, m, next, ok)
<1> DEFINE S == [Nat -> Solved]
           none == [v \in Nat |-> Fail]
           row(t) == [v \in Nat |-> IF v \notin ok THEN Fail
                                    ELSE IF Settled(next[v], v) THEN next[v]
                                    ELSE t[next[v]]]
           g == [i \in 1..m |-> [t \in S |-> row(t)]]
<1>1. none \in S
  BY DEF Solved
<1>2. ASSUME NEW t \in S PROVE row(t) \in S
  <2>1. \A v \in ok : next[v] \in Nat /\ t[next[v]] \in Solved
    OBVIOUS
  <2> QED
    BY <2>1 DEF Solved
<1>3. g \in [1..m -> [S -> S]]
  <2> HIDE DEF S, row
  <2> QED BY <1>2
<1>4. PICK f \in [0..m -> S] : Recursion(f, m, none, g)
  <2> HIDE DEF S, g, none
  <2> QED BY <1>1, <1>3, RecursionExists
<1>5. ASSUME NEW left \in 0..m
      PROVE  (IF left = 0 THEN none ELSE g[left][f[left - 1]])
               = [v \in Nat |-> IF left = 0 \/ v \notin ok THEN Fail
                                ELSE IF Settled(next[v], v) THEN next[v]
                                ELSE f[left - 1][next[v]]]
  <2>1. CASE left = 0
    BY <2>1, Zenon
  <2>2. CASE left # 0
    <3>1. left \in 1..m /\ left - 1 \in 0..m
      BY <2>2
    <3>2. f[left - 1] \in S
      <4> HIDE DEF S
      <4> QED BY <3>1
    <3> HIDE DEF S
    <3>3. g[left][f[left - 1]] = row(f[left - 1])
      BY <3>1, <3>2, Zenon
    <3> QED
      BY <3>3, <2>2, Zenon
  <2> QED
    BY <2>1, <2>2
<1>6. f = [left \in 0..m |-> IF left = 0 THEN none ELSE g[left][f[left - 1]]]
  BY <1>4, Zenon DEF Recursion
<1>7. Iteration(f, m, next, ok)
  <2> HIDE DEF none, g
  <2> QED BY <1>5, <1>6, Zenon DEF Iteration
<1> QED
  BY <1>7

LEMMA IterationType ==
    ASSUME NEW m \in Nat, NEW ok \in SUBSET Nat, NEW next \in [ok -> Nat],
           NEW h, Iteration(h, m, next, ok)
    PROVE  \A left \in 0..m : h[left] \in [Nat -> Solved]
<1>1. h[0] \in [Nat -> Solved]
  <2>1. h[0] = [v \in Nat |-> Fail]
    BY DEF Iteration
  <2> QED
    BY <2>1 DEF Solved
<1>2. ASSUME NEW i \in 1..m, h[i - 1] \in [Nat -> Solved]
      PROVE  h[i] \in [Nat -> Solved]
  <2>1. i \in 0..m /\ i # 0
    OBVIOUS
  <2>2. h[i] = [v \in Nat |-> IF v \notin ok THEN Fail
                              ELSE IF Settled(next[v], v) THEN next[v]
                              ELSE h[i - 1][next[v]]]
    BY <2>1, Zenon DEF Iteration
  <2>3. \A v \in ok : next[v] \in Nat /\ h[i - 1][next[v]] \in Solved
    BY <1>2
  <2> QED
    BY <2>2, <2>3 DEF Solved
<1> QED
  BY <1>1, <1>2, RecursionStays, Zenon

LEMMA GetDType ==
    ASSUME NEW xp \in [Coins -> Nat], NEW amp \in Nat \ {0}
    PROVE  GetD(xp, amp) \in Solved
<1>1. CASE Total(xp) = 0
  BY <1>1 DEF GetD, Solved
<1>2. CASE \E i \in Coins : xp[i] = 0
  BY <1>2 DEF GetD, Solved
<1>3. CASE Total(xp) # 0 /\ \A i \in Coins : xp[i] # 0
  <2> DEFINE ok == Nat \ {0}
             next == [d \in ok |-> NextD(xp, amp, d)]
             P(h) == h = [left \in 0..MaxIterations |->
                            [d \in Nat |->
                               IF left = 0 \/ d = 0 THEN Fail
                               ELSE IF Settled(NextD(xp, amp, d), d) THEN NextD(xp, amp, d)
                               ELSE h[left - 1][NextD(xp, amp, d)]]]
             k == CHOOSE h : P(h)
  <2>1. next \in [ok -> Nat]
    BY <1>3, NextDType
  <2>2. MaxIterations \in Nat
    BY StableAssumption DEF StableAssumption
  <2>3. \A h : P(h) <=> Iteration(h, MaxIterations, next, ok)
    <3> SUFFICES ASSUME NEW h, NEW left \in 0..MaxIterations, NEW d \in Nat
                 PROVE  (IF left = 0 \/ d \notin ok THEN Fail
                         ELSE IF Settled(next[d], d) THEN next[d]
                         ELSE h[left - 1][next[d]])
                          = (IF left = 0 \/ d = 0 THEN Fail
                             ELSE IF Settled(NextD(xp, amp, d), d) THEN NextD(xp, amp, d)
                             ELSE h[left - 1][NextD(xp, amp, d)])
      BY Zenon DEF Iteration
    <3> QED
      BY Zenon
  <2>4. GetD(xp, amp) = k[MaxIterations][Total(xp)]
    BY <1>3, Zenon DEF GetD
  <2> HIDE DEF next, ok
  <2>5. \E h : P(h)
    <3> HIDE DEF P
    <3> QED BY <2>1, <2>2, <2>3, IterationExists DEF ok
  <2> HIDE DEF P
  <2>6. P(k)
    BY <2>5, Zenon
  <2> HIDE DEF k
  <2>7. k[MaxIterations] \in [Nat -> Solved]
    <3>1. Iteration(k, MaxIterations, next, ok)
      BY <2>3, <2>6
    <3>2. ok \in SUBSET Nat /\ MaxIterations \in 0..MaxIterations
      BY <2>2 DEF ok
    <3> QED
      BY <2>1, <2>2, <3>1, <3>2, IterationType
  <2>8. Total(xp) \in Nat
    BY TotalType DEF Total
  <2> QED
    BY <2>4, <2>7, <2>8
<1> QED
  BY <1>1, <1>2, <1>3

LEMMA SolveYType ==
    ASSUME NEW xp \in [Coins -> Nat], NEW amp \in Nat \ {0}, NEW d \in Solved,
           NEW out \in Coins
    PROVE  SolveY(xp, amp, d, out) \in Solved
<1> DEFINE others == Coins \ {out}
           ann == amp * NCoins
           c == (Product(xp, others, d) * d) \div (ann * NCoins)
           b == SumFunctionOnSet(xp, others) + d \div ann
<1>1. CASE d < 0 \/ \E i \in others : xp[i] = 0
  BY <1>1, Zenon DEF SolveY, Solved
<1>2. CASE ~(d < 0 \/ \E i \in others : xp[i] = 0)
  <2>1. d \in Nat
    BY <1>2 DEF Solved, Fail
  <2>2. b \in Nat /\ c \in Nat
    <3>1. others \in SUBSET Coins /\ \A i \in others : xp[i] > 0
      BY <1>2
    <3>2. Product(xp, others, d) \in Nat /\ SumFunctionOnSet(xp, others) \in Nat
      BY <2>1, <3>1, ProductType, TotalType
    <3>3. ann \in Nat \ {0} /\ ann * NCoins \in Nat \ {0}
      BY CoinFacts
    <3>4. Product(xp, others, d) * d \in Nat
      BY <2>1, <3>2, MulNat
    <3> HIDE DEF ann
    <3>5. c \in Nat /\ d \div ann \in Nat
      BY <2>1, <3>3, <3>4, DivFacts
    <3> QED
      BY <3>2, <3>5
  <2> DEFINE ok == {y \in Nat : 2 * y + b > d}
             nextOf(y) == (y * y + c) \div (2 * y + b - d)
             next == [y \in ok |-> nextOf(y)]
             P(h) == h = [left \in 0..MaxIterations |->
                            [y \in Nat |->
                               IF left = 0 \/ 2 * y + b <= d THEN Fail
                               ELSE IF Settled(nextOf(y), y) THEN nextOf(y)
                               ELSE h[left - 1][nextOf(y)]]]
             k == CHOOSE h : P(h)
  <2>3. SolveY(xp, amp, d, out) = k[MaxIterations][d]
    BY <1>2, Zenon DEF SolveY
  <2> HIDE DEF b, c
  <2>4. next \in [ok -> Nat]
    <3>1. ASSUME NEW y \in ok PROVE nextOf(y) \in Nat
      <4>1. y * y + c \in Nat /\ 2 * y + b - d \in Nat \ {0}
        BY <2>1, <2>2
      <4> QED
        BY <4>1, DivFacts
    <3> HIDE DEF nextOf
    <3> QED
      BY <3>1
  <2>5. MaxIterations \in Nat /\ ok \in SUBSET Nat
    BY StableAssumption DEF StableAssumption
  <2>6. \A y \in Nat : y \notin ok <=> 2 * y + b <= d
    BY <2>1, <2>2
  <2> HIDE DEF nextOf, ok
  <2>7. ASSUME NEW h PROVE P(h) <=> Iteration(h, MaxIterations, next, ok)
    <3> DEFINE mine(left, y) == IF left = 0 \/ 2 * y + b <= d THEN Fail
                                ELSE IF Settled(nextOf(y), y) THEN nextOf(y)
                                ELSE h[left - 1][nextOf(y)]
               its(left, y) == IF left = 0 \/ y \notin ok THEN Fail
                               ELSE IF Settled(next[y], y) THEN next[y]
                               ELSE h[left - 1][next[y]]
    <3>1. ASSUME NEW left \in 0..MaxIterations, NEW y \in Nat
          PROVE  mine(left, y) = its(left, y)
      BY <2>6, Zenon
    <3>2. P(h) <=> h = [left \in 0..MaxIterations |-> [y \in Nat |-> mine(left, y)]]
      OBVIOUS
    <3>3. Iteration(h, MaxIterations, next, ok)
            <=> h = [left \in 0..MaxIterations |-> [y \in Nat |-> its(left, y)]]
      BY Zenon DEF Iteration
    <3> HIDE DEF mine, its, P
    <3> QED
      BY <3>1, <3>2, <3>3, Zenon
  <2> HIDE DEF next, P
  <2>8. \E h : P(h)
    BY <2>4, <2>5, <2>7, IterationExists
  <2>9. P(k)
    BY <2>8, Zenon
  <2> HIDE DEF k
  <2>10. k[MaxIterations] \in [Nat -> Solved]
    <3>1. Iteration(k, MaxIterations, next, ok)
      BY <2>7, <2>9
    <3>2. MaxIterations \in 0..MaxIterations
      BY <2>5
    <3> QED
      BY <2>4, <2>5, <3>1, <3>2, IterationType
  <2> QED
    BY <2>1, <2>3, <2>10
<1> QED
  BY <1>1, <1>2

-----------------------------------------------------------------------------
(* The invariant                                                           *)

\* The coins that no reward call moves.
Plain == Coins \ {RewardToken}

Shaped(b) ==
    /\ b = [h \in Holders |-> b[h]]
    /\ \A h \in Holders : b[h] = [t \in Assets |-> b[h][t]]

\* The ramp has begun: an amplification coefficient before t0 is extrapolated,
\* and may be 0 or negative.
SettingsOK ==
    /\ fee \in 0..(FeeDenominator - 1) /\ pfFraction \in 0..FeeDenominator
    /\ ramp \in [a0 : Nat \ {0}, t0 : Nat, a1 : Nat \ {0}, t1 : Nat]
    /\ ramp.t0 <= ledger
    /\ pendingFee \in [fee : 0..(FeeDenominator - 1), deadline : Nat]
    /\ ledger \in Nat \ {0}

FundsTyped ==
    /\ Shaped(bal)
    /\ \A h \in Holders, t \in Plain : bal[h][t] \in Nat
    /\ totalShares \in Nat
    /\ reserve \in [Coins -> Nat] /\ protocolFee \in [Coins -> Nat]
    /\ plane.xp \in [Coins -> Nat]

PlainSolvent == \A i \in Plain : reserve[i] + protocolFee[i] <= bal[Pool][i]

StableInv == SettingsOK /\ FundsTyped /\ PlainSolvent /\ PlaneFollows

LEMMA AmpAtType ==
    ASSUME NEW r \in [a0 : Nat \ {0}, t0 : Nat, a1 : Nat \ {0}, t1 : Nat],
           NEW now \in Nat, r.t0 <= now
    PROVE  AmpAt(r, now) \in Nat \ {0}
<1>1. CASE now >= r.t1
  BY <1>1 DEF AmpAt
<1>2. CASE now < r.t1
  <2> DEFINE span == r.t1 - r.t0
             gone == now - r.t0
  <2>1. span \in Nat \ {0} /\ gone \in 0..span
    BY <1>2
  <2>2. CASE r.a1 > r.a0
    <3>1. r.a1 - r.a0 \in Nat
      BY <2>2
    <3> HIDE DEF span, gone
    <3>2. ((r.a1 - r.a0) * gone) \div span \in Nat
      BY <2>1, <3>1, PartAtMost
    <3>3. r.a0 + ((r.a1 - r.a0) * gone) \div span \in Nat \ {0}
      BY <3>2
    <3> QED
      BY <1>2, <2>2, <3>3 DEF AmpAt, span, gone
  <2>3. CASE ~(r.a1 > r.a0)
    <3>1. r.a0 - r.a1 \in Nat
      BY <2>3
    <3> HIDE DEF span, gone
    <3> DEFINE part == ((r.a0 - r.a1) * gone) \div span
    <3>2. part \in Nat /\ part <= r.a0 - r.a1
      BY <2>1, <3>1, PartAtMost
    <3> HIDE DEF part
    <3>3. r.a0 - part \in Nat \ {0}
      BY <3>2
    <3> QED
      BY <1>2, <2>3, <3>3 DEF AmpAt, span, gone, part
  <2> QED
    BY <2>2, <2>3
<1> QED
  BY <1>1, <1>2

LEMMA AmpType ==
    ASSUME SettingsOK
    PROVE  Amp \in Nat \ {0}
BY AmpAtType DEF SettingsOK, Amp

LEMMA DenominatorFacts == FeeDenominator \in Nat \ {0}
BY StableAssumption DEF StableAssumption

LEMMA CeilDivType ==
    ASSUME NEW x \in Nat, NEW y \in Nat \ {0}
    PROVE  CeilDiv(x, y) \in Nat /\ CeilDiv(x, y) * y >= x
BY CeilFacts DEF CeilDiv

\* A fraction of x, rounded up, is no more than x.
LEMMA CeilPartAtMost ==
    ASSUME NEW x \in Nat, NEW y \in Nat \ {0}, NEW part \in 0..y
    PROVE  CeilDiv(x * part, y) \in 0..x
<1> DEFINE q == CeilDiv(x * part, y)
<1>1. x * part \in Nat /\ x * part <= x * y
  OBVIOUS
<1>2. q \in Nat
  BY <1>1, CeilDivType
<1>3. q <= x
  <2>1. x * part + y - 1 \in Nat
    BY <1>1
  <2>2. q * y <= x * part + y - 1
    BY <2>1, DivFacts DEF CeilDiv
  <2> HIDE DEF q
  <2>3. CASE q >= x + 1
    <3>1. (x + 1) * y <= q * y
      BY <1>2, <2>3, MulMono
    <3>2. (x + 1) * y = x * y + y
      OBVIOUS
    <3>3. x * y \in Nat /\ q * y \in Nat
      BY <1>2, MulNat
    <3> QED
      BY <1>1, <2>2, <3>1, <3>2, <3>3
  <2> QED
    BY <1>2, <2>3
<1> QED
  BY <1>2, <1>3

LEMMA FeeTypes ==
    ASSUME SettingsOK, NEW n \in Nat
    PROVE  /\ FeeOn(n) \in 0..n
           /\ ProtocolPart(n) \in Nat
           /\ ImbalanceFee(n) \in Nat
<1>1. fee \in 0..FeeDenominator /\ pfFraction \in 0..FeeDenominator /\ fee \in Nat
  BY DenominatorFacts DEF SettingsOK
<1>2. FeeOn(n) \in 0..n /\ ProtocolPart(n) \in 0..n
  BY <1>1, DenominatorFacts, CeilPartAtMost DEF FeeOn, ProtocolPart
<1>3. n * fee * NCoins \in Nat
  BY <1>1, CoinFacts, MulNat
<1>4. 4 * (NCoins - 1) \in Nat \ {0}
  BY CoinFacts
<1>5. 4 * (NCoins - 1) * FeeDenominator \in Nat \ {0}
  BY <1>4, DenominatorFacts
<1>6. ImbalanceFee(n) \in Nat
  BY <1>3, <1>5, CeilDivType DEF ImbalanceFee
<1> QED
  BY <1>2, <1>6

LEMMA ImbalanceFeesType ==
    ASSUME SettingsOK, NEW old \in [Coins -> Nat], NEW new \in [Coins -> Nat],
           NEW d0 \in Nat \ {0}, NEW d1 \in Nat
    PROVE  ImbalanceFees(old, new, d0, d1) \in [Coins -> Nat]
<1>1. ASSUME NEW i \in Coins
      PROVE  ImbalanceFee(Difference((d1 * old[i]) \div d0, new[i])) \in Nat
  <2>1. (d1 * old[i]) \div d0 \in Nat
    BY MulNat, DivFacts
  <2>2. Difference((d1 * old[i]) \div d0, new[i]) \in Nat
    BY <2>1 DEF Difference
  <2> QED
    BY <2>2, FeeTypes
<1> QED
  BY <1>1 DEF ImbalanceFees

-----------------------------------------------------------------------------
(* Prices                                                                  *)

LEMMA InvariantType ==
    ASSUME SettingsOK, NEW res \in [Coins -> Nat]
    PROVE  GetD(Scaled(res), Amp) \in Solved
BY AmpType, ScaledType, GetDType

LEMMA GetYType ==
    ASSUME SettingsOK, NEW xp \in [Coins -> Nat], NEW in \in Coins, NEW out \in Coins,
           NEW x \in Nat
    PROVE  GetY(xp, Amp, in, out, x) \in Solved
<1>1. [xp EXCEPT ![in] = x] \in [Coins -> Nat]
  OBVIOUS
<1>2. GetD(xp, Amp) \in Solved
  BY AmpType, GetDType
<1> QED
  BY <1>1, <1>2, AmpType, SolveYType DEF GetY

LEMMA AmountOutType ==
    ASSUME SettingsOK, NEW res \in [Coins -> Nat], NEW in \in Coins, NEW out \in Coins,
           NEW dx \in Nat
    PROVE  AmountOut(res, in, out, dx) \in Solved
<1> DEFINE xp == Scaled(res)
           x == xp[in] + (dx - FeeOn(dx)) * Decimals[in]
           y == GetY(xp, Amp, in, out, x)
<1>1. xp \in [Coins -> Nat]
  BY ScaledType
<1>2. dx - FeeOn(dx) \in Nat
  BY FeeTypes
<1>3. (dx - FeeOn(dx)) * Decimals[in] \in Nat
  BY <1>2, CoinFacts, MulNat
<1>4. AmountOut(res, in, out, dx) =
        IF y = Fail \/ y + 1 > xp[out] THEN Fail
        ELSE (xp[out] - y - 1) \div Decimals[out]
  BY Zenon DEF AmountOut
<1> HIDE DEF xp
<1>5. x \in Nat
  BY <1>1, <1>3
<1> HIDE DEF x
<1>6. y \in Solved
  BY <1>1, <1>5, GetYType
<1> HIDE DEF y
<1>7. ASSUME ~(y = Fail \/ y + 1 > xp[out])
      PROVE  (xp[out] - y - 1) \div Decimals[out] \in Nat
  <2>1. xp[out] - y - 1 \in Nat /\ Decimals[out] \in Nat \ {0}
    BY <1>1, <1>6, <1>7, CoinFacts DEF Solved
  <2> QED
    BY <2>1, DivFacts
<1> QED
  BY <1>4, <1>7 DEF Solved

LEMMA NetInType ==
    ASSUME SettingsOK, NEW res \in [Coins -> Nat], NEW in \in Coins, NEW out \in Coins,
           NEW dy \in Nat, dy < res[out]
    PROVE  NetIn(res, in, out, dy) \in Solved
<1> DEFINE xp == Scaled(res)
           z == xp[out] - dy * Decimals[out]
           x == GetY(xp, Amp, out, in, z)
<1>1. xp \in [Coins -> Nat]
  BY ScaledType
<1>2. z \in Nat
  <2>1. xp[out] = res[out] * Decimals[out] /\ Decimals[out] \in Nat
    BY CoinFacts DEF Scaled
  <2>2. dy * Decimals[out] <= res[out] * Decimals[out]
    BY <2>1, MulMono
  <2>3. dy * Decimals[out] \in Nat /\ res[out] * Decimals[out] \in Nat
    BY <2>1, MulNat
  <2> QED
    BY <2>1, <2>2, <2>3
<1>3. NetIn(res, in, out, dy) =
        IF x = Fail \/ x + 1 < xp[in] THEN Fail
        ELSE (x + 1 - xp[in]) \div Decimals[in]
  BY Zenon DEF NetIn
<1> HIDE DEF xp, z
<1>4. x \in Solved
  BY <1>1, <1>2, GetYType
<1> HIDE DEF x
<1>5. ASSUME ~(x = Fail \/ x + 1 < xp[in])
      PROVE  (x + 1 - xp[in]) \div Decimals[in] \in Nat
  <2>1. x + 1 - xp[in] \in Nat /\ Decimals[in] \in Nat \ {0}
    BY <1>1, <1>4, <1>5, CoinFacts DEF Solved
  <2> QED
    BY <2>1, DivFacts
<1> QED
  BY <1>3, <1>5 DEF Solved

\* The fee of swap_strict_receive, on top of what the solver asks for.
LEMMA GrossInType ==
    ASSUME SettingsOK, NEW net \in Nat
    PROVE  GrossIn(net) \in Nat /\ GrossIn(net) >= net
<1> DEFINE rest == FeeDenominator - fee
           q == GrossIn(net)
<1>1. rest \in Nat \ {0} /\ rest <= FeeDenominator
  BY DenominatorFacts DEF SettingsOK
<1>2. net * FeeDenominator \in Nat
  BY DenominatorFacts, MulNat
<1>3. q \in Nat /\ q * rest >= net * FeeDenominator
  BY <1>1, <1>2, CeilDivType DEF GrossIn
<1> HIDE DEF rest, q
<1>4. net * rest <= net * FeeDenominator
  BY <1>1, DenominatorFacts, MulMono
<1>5. rest * net <= rest * q
  <2>1. net * rest \in Nat /\ q * rest \in Nat
    BY <1>1, <1>3, MulNat
  <2>2. net * rest <= q * rest
    BY <2>1, <1>2, <1>3, <1>4
  <2> QED
    BY <2>2, <1>1, <1>3
<1>6. net <= q
  BY <1>1, <1>3, <1>5, MulCancel
<1> QED
  BY <1>3, <1>6 DEF q

LEMMA MintedType ==
    ASSUME SettingsOK, totalShares \in Nat,
           NEW old \in [Coins -> Nat], NEW new \in [Coins -> Nat]
    PROVE  /\ Minted(old, new).shares \in Solved
           /\ Minted(old, new).fees \in [Coins -> Nat]
<1> DEFINE d0 == GetD(Scaled(old), Amp)
           d1 == GetD(Scaled(new), Amp)
           fees == ImbalanceFees(old, new, d0, d1)
           net  == [i \in Coins |-> new[i] - fees[i]]
           d2 == GetD(Scaled(net), Amp)
           refused == [shares |-> Fail, fees |-> Nothing]
           kept == [shares |-> (totalShares * (d2 - d0)) \div d0, fees |-> fees]
           first == [shares |-> d1, fees |-> Nothing]
<1>1. d0 \in Solved /\ d1 \in Solved
  BY InvariantType
<1>2. Minted(old, new) =
        IF d1 = Fail THEN refused
        ELSE IF totalShares = 0
        THEN IF d1 > 0 THEN first ELSE refused
        ELSE IF d0 <= 0 \/ d1 <= d0 THEN refused
        ELSE IF (\E i \in Coins : net[i] < 0) \/ d2 < d0 THEN refused
        ELSE kept
  BY Zenon DEF Minted
<1>3. refused.shares \in Solved /\ refused.fees \in [Coins -> Nat]
  BY DEF Solved, Nothing
<1> HIDE DEF d0, d1
<1>4. first.shares \in Solved /\ first.fees \in [Coins -> Nat]
  BY <1>1 DEF Nothing
<1>5. ASSUME d1 # Fail, ~(d0 <= 0), ~(\E i \in Coins : net[i] < 0), ~(d2 < d0)
      PROVE  kept.shares \in Solved /\ kept.fees \in [Coins -> Nat]
  <2>1. d0 \in Nat \ {0} /\ d1 \in Nat
    BY <1>1, <1>5 DEF Solved, Fail
  <2>2. fees \in [Coins -> Nat]
    BY <2>1, ImbalanceFeesType
  <2> HIDE DEF fees
  <2>3. net \in [Coins -> Nat]
    BY <2>2, <1>5
  <2> HIDE DEF net
  <2>4. d2 \in Solved
    BY <2>3, InvariantType
  <2> HIDE DEF d2
  <2>5. d2 - d0 \in Nat
    BY <2>1, <2>4, <1>5 DEF Solved, Fail
  <2>6. (totalShares * (d2 - d0)) \div d0 \in Nat
    BY <2>1, <2>5, MulNat, DivFacts
  <2> QED
    BY <2>2, <2>6 DEF Solved
<1> HIDE DEF refused, kept, first, net, d2
<1> QED
  BY <1>2, <1>3, <1>4, <1>5

LEMMA BurnedType ==
    ASSUME SettingsOK, totalShares \in Nat,
           NEW old \in [Coins -> Nat], NEW new \in [Coins -> Nat]
    PROVE  /\ Burned(old, new).shares \in Solved
           /\ Burned(old, new).fees \in [Coins -> Nat]
<1> DEFINE d0 == GetD(Scaled(old), Amp)
           d1 == GetD(Scaled(new), Amp)
           fees == ImbalanceFees(old, new, d0, d1)
           net  == [i \in Coins |-> new[i] - fees[i]]
           d2 == GetD(Scaled(net), Amp)
           n  == ((d0 - d2) * totalShares) \div d0
           refused == [shares |-> Fail, fees |-> Nothing]
           kept == [shares |-> n + 1, fees |-> fees]
<1>1. d0 \in Solved /\ d1 \in Solved
  BY InvariantType
<1>2. Burned(old, new) =
        IF d0 <= 0 \/ d1 = Fail THEN refused
        ELSE IF \E i \in Coins : net[i] <= 0 THEN refused
        ELSE IF d2 = Fail \/ d2 > d0 \/ n = 0 THEN refused
        ELSE kept
  BY Zenon DEF Burned
<1>3. refused.shares \in Solved /\ refused.fees \in [Coins -> Nat]
  BY DEF Solved, Nothing
<1> HIDE DEF d0, d1
<1>4. ASSUME ~(d0 <= 0 \/ d1 = Fail), ~(\E i \in Coins : net[i] <= 0),
             ~(d2 = Fail \/ d2 > d0)
      PROVE  kept.shares \in Solved /\ kept.fees \in [Coins -> Nat]
  <2>1. d0 \in Nat \ {0} /\ d1 \in Nat
    BY <1>1, <1>4 DEF Solved, Fail
  <2>2. fees \in [Coins -> Nat]
    BY <2>1, ImbalanceFeesType
  <2> HIDE DEF fees
  <2>3. net \in [Coins -> Nat]
    BY <2>2, <1>4
  <2> HIDE DEF net
  <2>4. d2 \in Solved
    BY <2>3, InvariantType
  <2> HIDE DEF d2
  <2>5. d0 - d2 \in Nat
    BY <2>1, <2>4, <1>4 DEF Solved, Fail
  <2>6. n \in Nat
    BY <2>1, <2>5, MulNat, DivFacts
  <2> HIDE DEF n
  <2> QED
    BY <2>2, <2>6 DEF Solved
<1> HIDE DEF refused, kept, net, d2, n
<1> QED
  BY <1>2, <1>3, <1>4

LEMMA OneCoinType ==
    ASSUME SettingsOK, totalShares \in Nat \ {0}, NEW res \in [Coins -> Nat],
           NEW n \in Nat, NEW i \in Coins
    PROVE  OneCoin(res, n, i).dy \in Solved /\ OneCoin(res, n, i).fee \in Int
<1> DEFINE xp == Scaled(res)
           d0 == GetD(xp, Amp)
           d1 == d0 - (n * d0) \div totalShares
           y  == SolveY(xp, Amp, d1, i)
           ideal == [j \in Coins |-> (xp[j] * d1) \div d0]
           moved == [j \in Coins |-> IF j = i THEN ideal[j] - y ELSE xp[j] - ideal[j]]
           left  == [j \in Coins |-> xp[j] - ImbalanceFee(moved[j])]
           y2 == SolveY(left, Amp, d1, i)
           dy == (left[i] - y2 - 1) \div Decimals[i]
           refused == [dy |-> Fail, fee |-> 0]
           paid == [dy |-> dy, fee |-> (xp[i] - y) \div Decimals[i] - dy]
<1>1. OneCoin(res, n, i) =
        IF d0 <= 0 \/ d1 < 0 THEN refused
        ELSE IF y = Fail \/ y > xp[i] THEN refused
        ELSE IF \E j \in Coins : moved[j] < 0 \/ left[j] < 0 THEN refused
        ELSE IF y2 = Fail \/ left[i] < y2 + 1 THEN refused
        ELSE paid
  BY Zenon DEF OneCoin
<1>2. refused.dy \in Solved /\ refused.fee \in Int
  BY DEF Solved
<1>3. xp \in [Coins -> Nat] /\ d0 \in Solved
  BY ScaledType, InvariantType
<1> HIDE DEF xp, d0
<1>4. ASSUME ~(d0 <= 0 \/ d1 < 0), ~(y = Fail \/ y > xp[i]),
             ~(\E j \in Coins : moved[j] < 0 \/ left[j] < 0),
             ~(y2 = Fail \/ left[i] < y2 + 1)
      PROVE  paid.dy \in Solved /\ paid.fee \in Int
  <2>1. d0 \in Nat \ {0}
    BY <1>3, <1>4 DEF Solved, Fail
  <2>2. d1 \in Nat
    <3>1. (n * d0) \div totalShares \in Nat
      BY <2>1, MulNat, DivFacts
    <3> QED
      BY <2>1, <3>1, <1>4
  <2> HIDE DEF d1
  <2>3. y \in Nat /\ xp[i] - y \in Nat
    <3>1. y \in Solved
      BY <1>3, <2>2, AmpType, SolveYType DEF Solved
    <3> HIDE DEF y
    <3> QED
      BY <3>1, <1>3, <1>4 DEF Solved, Fail
  <2> HIDE DEF y
  <2>4. \A j \in Coins : ideal[j] \in Nat
    <3>1. \A j \in Coins : (xp[j] * d1) \div d0 \in Nat
      BY <1>3, <2>1, <2>2, MulNat, DivFacts
    <3> QED
      BY <3>1
  <2> HIDE DEF ideal
  <2>5. \A j \in Coins : moved[j] \in Nat
    BY <1>3, <1>4, <2>3, <2>4
  <2> HIDE DEF moved
  <2>6. left \in [Coins -> Nat]
    BY <1>3, <1>4, <2>5, FeeTypes
  <2> HIDE DEF left
  <2>7. y2 \in Nat /\ left[i] - y2 - 1 \in Nat
    <3>1. y2 \in Solved
      BY <2>6, <2>2, AmpType, SolveYType DEF Solved
    <3> HIDE DEF y2
    <3> QED
      BY <3>1, <2>6, <1>4 DEF Solved, Fail
  <2> HIDE DEF y2
  <2>8. dy \in Nat /\ (xp[i] - y) \div Decimals[i] \in Nat
    BY <2>3, <2>7, CoinFacts, DivFacts
  <2> HIDE DEF dy
  <2> QED
    BY <2>8 DEF Solved
<1> HIDE DEF d1, y, moved, left, y2, refused, paid
<1> QED
  BY <1>1, <1>2, <1>4

-----------------------------------------------------------------------------
(* Balances and the synchronised reserves                                  *)

LEMMA HolderFacts ==
    /\ Users \subseteq Holders /\ Pool \in Holders /\ Outside \in Holders
    /\ Pool # Outside /\ Pool \notin Users /\ Outside \notin Users
    /\ Coins \subseteq Assets /\ RewardToken \in Assets
BY StableAssumption DEF StableAssumption, Holders, Assets

Put(b, h, t, v) == [b EXCEPT ![h][t] = v]

LEMMA PutFacts ==
    ASSUME NEW b, Shaped(b), NEW i \in Holders, NEW t \in Assets, NEW v
    PROVE  /\ Shaped(Put(b, i, t, v))
           /\ \A h \in Holders : h # i => Put(b, i, t, v)[h] = b[h]
           /\ \A x \in Assets : Put(b, i, t, v)[i][x] = IF x = t THEN v ELSE b[i][x]
<1> DEFINE c == Put(b, i, t, v)
<1>1. c = [h \in Holders |-> IF h = i THEN [b[i] EXCEPT ![t] = v] ELSE b[h]]
  BY DEF Shaped, Put
<1>2. [b[i] EXCEPT ![t] = v] = [x \in Assets |-> IF x = t THEN v ELSE b[i][x]]
  BY DEF Shaped
<1> HIDE DEF c
<1>3. c[i] = [x \in Assets |-> IF x = t THEN v ELSE b[i][x]]
  BY <1>1, <1>2
<1>4. \A h \in Holders : h # i => c[h] = b[h]
  BY <1>1
<1>5. c = [h \in Holders |-> c[h]]
  BY <1>1
<1>6. \A h \in Holders : c[h] = [x \in Assets |-> c[h][x]]
  BY <1>3, <1>4 DEF Shaped
<1> QED
  BY <1>3, <1>4, <1>5, <1>6 DEF Shaped, c

LEMMA MoveFacts ==
    ASSUME NEW b, Shaped(b), NEW from \in Holders, NEW to \in Holders, from # to,
           NEW t \in Assets, NEW n
    PROVE  /\ Shaped(Move(b, from, to, t, n))
           /\ \A h \in Holders, x \in Assets \ {t} : Move(b, from, to, t, n)[h][x] = b[h][x]
           /\ Move(b, from, to, t, n)[from][t] = b[from][t] - n
           /\ Move(b, from, to, t, n)[to][t] = b[to][t] + n
           /\ \A h \in Holders \ {from, to} : Move(b, from, to, t, n)[h] = b[h]
<1> DEFINE c == Put(b, from, t, b[from][t] - n)
           d == Put(c, to, t, c[to][t] + n)
<1>1. Move(b, from, to, t, n) = d
  BY DEF Move, Put
<1>2. /\ Shaped(c)
      /\ \A h \in Holders : h # from => c[h] = b[h]
      /\ \A x \in Assets : c[from][x] = IF x = t THEN b[from][t] - n ELSE b[from][x]
  BY PutFacts
<1> HIDE DEF c
<1>3. /\ Shaped(d)
      /\ \A h \in Holders : h # to => d[h] = c[h]
      /\ \A x \in Assets : d[to][x] = IF x = t THEN c[to][t] + n ELSE c[to][x]
  BY <1>2, PutFacts
<1> HIDE DEF d
<1> QED
  BY <1>1, <1>2, <1>3

LEMMA SendAllFacts ==
    ASSUME NEW b, Shaped(b), NEW from \in Holders, NEW to \in Holders, from # to, NEW n
    PROVE  /\ Shaped(SendAll(b, from, to, n))
           /\ \A t \in Coins : /\ SendAll(b, from, to, n)[from][t] = b[from][t] - n[t]
                               /\ SendAll(b, from, to, n)[to][t] = b[to][t] + n[t]
           /\ \A h \in Holders, t \in Assets \ Coins : SendAll(b, from, to, n)[h][t] = b[h][t]
           /\ \A h \in Holders \ {from, to} : SendAll(b, from, to, n)[h] = b[h]
<1> DEFINE c == SendAll(b, from, to, n)
           less == [t \in Assets |-> IF t \in Coins THEN b[from][t] - n[t] ELSE b[from][t]]
           more == [t \in Assets |-> IF t \in Coins THEN b[to][t] + n[t] ELSE b[to][t]]
<1>1. c = [h \in Holders |-> IF h = from THEN less ELSE IF h = to THEN more ELSE b[h]]
  BY DEF Shaped, SendAll
<1> HIDE DEF c, less, more
<1>2. c[from] = less /\ c[to] = more /\ \A h \in Holders \ {from, to} : c[h] = b[h]
  BY <1>1
<1>3. less = [t \in Assets |-> less[t]] /\ more = [t \in Assets |-> more[t]]
  BY DEF less, more
<1>4. Shaped(c)
  BY <1>1, <1>2, <1>3 DEF Shaped
<1>5. \A t \in Assets :
        /\ less[t] = IF t \in Coins THEN b[from][t] - n[t] ELSE b[from][t]
        /\ more[t] = IF t \in Coins THEN b[to][t] + n[t] ELSE b[to][t]
  BY DEF less, more
<1> QED
  BY <1>2, <1>4, <1>5, HolderFacts DEF c

LEMMA SyncedFacts ==
    ASSUME FundsTyped, PlainSolvent
    PROVE  /\ Synced \in [Coins -> Nat]
           /\ \A i \in Coins : reserve[i] <= Synced[i]
           /\ \A i \in Plain : Synced[i] + protocolFee[i] <= bal[Pool][i]
BY HolderFacts DEF FundsTyped, PlainSolvent, Synced, MaxOf, Plain

-----------------------------------------------------------------------------
(* The calls that move tokens                                              *)

LEMMA SettingsKept ==
    ASSUME SettingsOK, UNCHANGED <<cfgVars, envVars>>
    PROVE  SettingsOK'
BY DEF SettingsOK, cfgVars, envVars

LEMMA BookKeeps ==
    ASSUME StableInv, UNCHANGED <<cfgVars, envVars>>,
           NEW res \in [Coins -> Int], NEW fees \in [Coins -> Nat], Book(res, fees),
           totalShares' \in Nat,
           Shaped(bal'), \A h \in Holders, t \in Plain : bal'[h][t] \in Nat,
           \A i \in Plain : res[i] + fees[i] <= bal'[Pool][i]
    PROVE  StableInv'
<1>1. /\ res \in [Coins -> Nat]
      /\ reserve' = res /\ protocolFee' = fees
      /\ plane' = PlaneOf(fee, ramp, res)
  BY DEF Book
<1>2. SettingsOK'
  BY SettingsKept DEF StableInv
<1>3. FundsTyped'
  BY <1>1, ScaledType DEF FundsTyped, Shaped, PlaneOf
<1>4. PlainSolvent'
  BY <1>1 DEF PlainSolvent
<1>5. PlaneFollows'
  <2>1. fee' = fee /\ ramp' = ramp
    BY DEF cfgVars
  <2>2. Scaled(res) \in [Coins -> Nat]
    BY <1>1, ScaledType
  <2>3. /\ plane'.fee = fee /\ plane'.ramp = ramp /\ plane'.xp = Scaled(res)
    BY <1>1 DEF PlaneOf
  <2> QED
    BY <1>1, <2>1, <2>2, <2>3 DEF PlaneFollows, Scaled
<1> QED
  BY <1>2, <1>3, <1>4, <1>5 DEF StableInv

\* The fees of a call, split between the reserves and the protocol.
LEMMA SplitFacts ==
    ASSUME StableInv, NEW res \in [Coins -> Int], NEW fees \in [Coins -> Nat]
    PROVE  /\ LessProtocol(res, fees) \in [Coins -> Int]
           /\ AddFees(fees) \in [Coins -> Nat]
           /\ \A i \in Coins : LessProtocol(res, fees)[i] + AddFees(fees)[i]
                                 = res[i] + protocolFee[i]
<1>1. \A i \in Coins : ProtocolPart(fees[i]) \in Nat
  BY FeeTypes DEF StableInv
<1>2. protocolFee \in [Coins -> Nat]
  BY DEF StableInv, FundsTyped
<1> QED
  BY <1>1, <1>2 DEF LessProtocol, AddFees

LEMMA DepositStep ==
    ASSUME StableInv, NEW u \in Users, NEW amounts \in [Coins -> DepositAmounts],
           Deposit(u, amounts)
    PROVE  StableInv'
<1> DEFINE new == [i \in Coins |-> Synced[i] + amounts[i]]
           mint == Minted(Synced, new)
<1> USE DEF StableInv
<1>1. amounts \in [Coins -> Nat] /\ u \in Holders /\ u # Pool
  BY HolderFacts, StableAssumption DEF StableAssumption
<1>2. new \in [Coins -> Nat]
  BY <1>1, SyncedFacts
<1>3. /\ mint.shares # Fail
      /\ totalShares' = totalShares + mint.shares
      /\ Book(LessProtocol(new, mint.fees), AddFees(mint.fees))
      /\ \A i \in Coins : amounts[i] <= bal[u][i]
      /\ bal' = SendAll(bal, u, Pool, amounts)
      /\ UNCHANGED <<cfgVars, envVars>>
  BY Zenon DEF Deposit, ChangeShares
<1> DEFINE res == LessProtocol(new, mint.fees)
           fees == AddFees(mint.fees)
<1>4. mint.shares \in Solved /\ mint.fees \in [Coins -> Nat]
  BY <1>2, SyncedFacts, MintedType DEF FundsTyped
<1> HIDE DEF mint
<1>5. totalShares' \in Nat
  BY <1>3, <1>4 DEF Solved, FundsTyped
<1>6. /\ res \in [Coins -> Int] /\ fees \in [Coins -> Nat]
      /\ \A i \in Coins : res[i] + fees[i] = Synced[i] + amounts[i] + protocolFee[i]
  BY <1>2, <1>4, SplitFacts
<1>7. /\ Shaped(bal')
      /\ \A h \in Holders, t \in Plain : bal'[h][t] \in Nat
      /\ \A i \in Plain : bal'[Pool][i] = bal[Pool][i] + amounts[i]
  BY <1>1, <1>3, SendAllFacts, HolderFacts DEF FundsTyped, Plain
<1> HIDE DEF res, fees
<1>8. ASSUME NEW i \in Plain PROVE res[i] + fees[i] <= bal'[Pool][i]
  <2>1. /\ i \in Coins /\ amounts[i] \in Nat /\ protocolFee[i] \in Nat
        /\ bal[Pool][i] \in Nat /\ Synced[i] \in Nat
        /\ Synced[i] + protocolFee[i] <= bal[Pool][i]
    BY <1>1, SyncedFacts, HolderFacts DEF FundsTyped, Plain
  <2> QED
    BY <2>1, <1>6, <1>7
<1> QED
  BY <1>3, <1>5, <1>6, <1>7, <1>8, BookKeeps DEF res, fees

LEMMA WithdrawStep ==
    ASSUME StableInv, NEW u \in Users, NEW n \in ShareAmounts, Withdraw(u, n)
    PROVE  StableInv'
<1> DEFINE out == ShareOf(n)
           res == [i \in Coins |-> Synced[i] - out[i]]
<1> USE DEF StableInv
<1>1. n \in Nat /\ u \in Holders /\ u # Pool
  BY HolderFacts, StableAssumption DEF StableAssumption
<1>2. /\ totalShares > 0 /\ n <= totalShares
      /\ \A i \in Coins : out[i] <= MinOf(Synced[i], bal[Pool][i])
      /\ totalShares' = totalShares - n
      /\ bal' = SendAll(bal, Pool, u, out)
      /\ Book(res, protocolFee)
      /\ UNCHANGED <<cfgVars, envVars>>
  BY DEF Withdraw, ChangeShares
<1>3. out \in [Coins -> Nat]
  <2>1. totalShares \in Nat \ {0}
    BY <1>2 DEF FundsTyped
  <2>2. \A i \in Coins : (Synced[i] * n) \div totalShares \in Nat
    BY <1>1, <2>1, SyncedFacts, MulNat, DivFacts
  <2> QED
    BY <2>2 DEF ShareOf
<1> HIDE DEF out
<1>4. totalShares' \in Nat
  BY <1>1, <1>2 DEF FundsTyped
<1>5. res \in [Coins -> Int]
  BY <1>3, SyncedFacts
<1>6. \A i \in Plain : out[i] <= bal[Pool][i] /\ bal[Pool][i] \in Nat
  BY <1>2, <1>3, SyncedFacts, HolderFacts DEF FundsTyped, MinOf, Plain
<1>7. /\ Shaped(bal')
      /\ \A h \in Holders, t \in Plain : bal'[h][t] \in Nat
      /\ \A i \in Plain : bal'[Pool][i] = bal[Pool][i] - out[i]
  BY <1>1, <1>2, <1>3, <1>6, SendAllFacts, HolderFacts DEF FundsTyped, Plain
<1>8. \A i \in Plain : res[i] + protocolFee[i] <= bal'[Pool][i]
  BY <1>3, <1>6, <1>7, SyncedFacts DEF FundsTyped, Plain
<1> QED
  BY <1>2, <1>4, <1>5, <1>7, <1>8, BookKeeps DEF FundsTyped

LEMMA ImbalanceStep ==
    ASSUME StableInv, NEW u \in Users, NEW amounts \in [Coins -> SwapAmounts \cup {0}],
           NEW n \in ShareAmounts, RemoveLiquidityImbalance(u, amounts, n)
    PROVE  StableInv'
<1> DEFINE new == [i \in Coins |-> Synced[i] - amounts[i]]
           burn == Burned(Synced, new)
<1> USE DEF StableInv
<1>1. amounts \in [Coins -> Nat] /\ n \in Nat /\ u \in Holders /\ u # Pool
  BY HolderFacts, StableAssumption DEF StableAssumption
<1>2. /\ \A i \in Coins : amounts[i] < Synced[i] /\ amounts[i] <= bal[Pool][i]
      /\ n <= totalShares
      /\ burn.shares # Fail /\ burn.shares <= n
      /\ totalShares' = totalShares + (-burn.shares)
      /\ Book(LessProtocol(new, burn.fees), AddFees(burn.fees))
      /\ bal' = SendAll(bal, Pool, u, amounts)
      /\ UNCHANGED <<cfgVars, envVars>>
  BY Zenon DEF RemoveLiquidityImbalance, ChangeShares
<1>3. new \in [Coins -> Nat]
  BY <1>1, <1>2, SyncedFacts
<1> DEFINE res == LessProtocol(new, burn.fees)
           fees == AddFees(burn.fees)
<1>4. burn.shares \in Solved /\ burn.fees \in [Coins -> Nat]
  BY <1>3, SyncedFacts, BurnedType DEF FundsTyped
<1> HIDE DEF burn
<1>5. totalShares' \in Nat
  BY <1>1, <1>2, <1>4 DEF Solved, FundsTyped
<1>6. /\ res \in [Coins -> Int] /\ fees \in [Coins -> Nat]
      /\ \A i \in Coins : res[i] + fees[i] = Synced[i] - amounts[i] + protocolFee[i]
  BY <1>3, <1>4, SplitFacts
<1>7. /\ Shaped(bal')
      /\ \A h \in Holders, t \in Plain : bal'[h][t] \in Nat
      /\ \A i \in Plain : bal'[Pool][i] = bal[Pool][i] - amounts[i]
  BY <1>1, <1>2, SendAllFacts, HolderFacts DEF FundsTyped, Plain
<1> HIDE DEF res, fees
<1>8. \A i \in Plain : res[i] + fees[i] <= bal'[Pool][i]
  BY <1>1, <1>6, <1>7, SyncedFacts, HolderFacts DEF FundsTyped, Plain
<1> QED
  BY <1>2, <1>5, <1>6, <1>7, <1>8, BookKeeps DEF res, fees

LEMMA OneCoinStep ==
    ASSUME StableInv, NEW u \in Users, NEW n \in ShareAmounts, NEW i \in Coins,
           WithdrawOneCoin(u, n, i, 0)
    PROVE  StableInv'
<1> DEFINE one == OneCoin(Synced, n, i)
           paid == [Nothing EXCEPT ![i] = one.fee]
           new == [Synced EXCEPT ![i] = @ - one.dy]
<1> USE DEF StableInv
<1>1. n \in Nat /\ u \in Holders /\ u # Pool /\ i \in Assets
  BY HolderFacts, StableAssumption DEF StableAssumption
<1>2. /\ totalShares > 0 /\ n <= totalShares
      /\ one.dy # Fail /\ one.fee >= 0 /\ one.dy <= bal[Pool][i]
      /\ bal' = Move(bal, Pool, u, i, one.dy)
      /\ Book(LessProtocol(new, paid), AddFees(paid))
      /\ totalShares' = totalShares + (-n)
      /\ UNCHANGED <<cfgVars, envVars>>
  BY Zenon DEF WithdrawOneCoin, ChangeShares
<1>3. one.dy \in Nat /\ one.fee \in Nat
  <2>1. totalShares \in Nat \ {0}
    BY <1>2 DEF FundsTyped
  <2>2. one.dy \in Solved /\ one.fee \in Int
    BY <1>1, <2>1, SyncedFacts, OneCoinType
  <2> HIDE DEF one
  <2> QED
    BY <1>2, <2>2 DEF Solved
<1> HIDE DEF one
<1> DEFINE res == LessProtocol(new, paid)
           fees == AddFees(paid)
<1>4. paid \in [Coins -> Nat] /\ new \in [Coins -> Int]
  BY <1>3, SyncedFacts DEF Nothing
<1>5. totalShares' \in Nat
  BY <1>1, <1>2 DEF FundsTyped
<1>6. /\ res \in [Coins -> Int] /\ fees \in [Coins -> Nat]
      /\ \A j \in Coins : res[j] + fees[j] = new[j] + protocolFee[j]
  <2> HIDE DEF new, paid
  <2> QED BY <1>4, SplitFacts
<1> HIDE DEF res, fees, paid
<1>7. /\ Shaped(bal')
      /\ \A h \in Holders, t \in Plain : bal'[h][t] \in Nat
      /\ \A j \in Plain : bal'[Pool][j] = IF j = i THEN bal[Pool][j] - one.dy ELSE bal[Pool][j]
  BY <1>1, <1>2, <1>3, MoveFacts, HolderFacts DEF FundsTyped, Plain
<1>8. \A j \in Plain : res[j] + fees[j] <= bal'[Pool][j]
  BY <1>3, <1>6, <1>7, SyncedFacts, HolderFacts DEF FundsTyped, Plain
<1> QED
  BY <1>2, <1>5, <1>6, <1>7, <1>8, BookKeeps DEF res, fees

LEMMA TradeStep ==
    ASSUME StableInv, NEW u \in Users, NEW in \in Coins, NEW out \in Coins, in # out,
           NEW dx \in Nat, NEW dy \in Nat, NEW dxFee \in Nat, dx <= bal[u][in],
           Trade(u, in, out, dx, dy, dxFee)
    PROVE  StableInv'
<1> DEFINE paid == [Nothing EXCEPT ![in] = dxFee]
           new  == [Synced EXCEPT ![in] = @ + dx, ![out] = @ - dy]
           res == LessProtocol(new, paid)
           fees == AddFees(paid)
           half == Move(bal, u, Pool, in, dx)
<1> USE DEF StableInv
<1>1. u \in Holders /\ u # Pool /\ in \in Assets /\ out \in Assets /\ Pool \in Holders
  BY HolderFacts
<1>2. /\ dy <= bal[Pool][out]
      /\ bal' = Move(half, Pool, u, out, dy)
      /\ Book(res, fees)
      /\ totalShares' = totalShares
      /\ UNCHANGED <<cfgVars, envVars>>
  BY DEF Trade
<1>3. paid \in [Coins -> Nat] /\ new \in [Coins -> Int]
  BY SyncedFacts DEF Nothing
<1>4. \A i \in Coins : new[i] = IF i = in THEN Synced[i] + dx
                               ELSE IF i = out THEN Synced[i] - dy ELSE Synced[i]
  BY SyncedFacts
<1> HIDE DEF new, paid
<1>5. /\ res \in [Coins -> Int] /\ fees \in [Coins -> Nat]
      /\ \A j \in Coins : res[j] + fees[j] = new[j] + protocolFee[j]
  BY <1>3, SplitFacts
<1> HIDE DEF res, fees
<1>6. /\ Shaped(half)
      /\ half[u][in] = bal[u][in] - dx
      /\ half[Pool][in] = bal[Pool][in] + dx
      /\ \A h \in Holders, x \in Assets \ {in} : half[h][x] = bal[h][x]
      /\ \A h \in Holders \ {u, Pool} : half[h] = bal[h]
  BY <1>1, MoveFacts DEF FundsTyped
<1> HIDE DEF half
<1>7. /\ Shaped(bal')
      /\ bal'[u][out] = half[u][out] + dy
      /\ bal'[Pool][out] = half[Pool][out] - dy
      /\ \A h \in Holders, x \in Assets \ {out} : bal'[h][x] = half[h][x]
      /\ \A h \in Holders \ {u, Pool} : bal'[h] = half[h]
  BY <1>1, <1>2, <1>6, MoveFacts
<1>8. \A h \in Holders, t \in Plain : bal'[h][t] \in Nat
  <2> SUFFICES ASSUME NEW h \in Holders, NEW t \in Plain PROVE bal'[h][t] \in Nat
    OBVIOUS
  <2>1. t \in Coins /\ t \in Assets /\ bal[h][t] \in Nat
    BY HolderFacts DEF Plain, FundsTyped
  <2>2. CASE h = u \/ h = Pool
    BY <1>1, <1>2, <1>6, <1>7, <2>1, <2>2
  <2>3. CASE h \notin {u, Pool}
    BY <1>6, <1>7, <2>1, <2>3
  <2> QED
    BY <2>2, <2>3
<1>9. \A j \in Plain : bal'[Pool][j] = IF j = in THEN bal[Pool][j] + dx
                                      ELSE IF j = out THEN bal[Pool][j] - dy
                                      ELSE bal[Pool][j]
  BY <1>1, <1>6, <1>7, HolderFacts DEF Plain
<1>10. \A j \in Plain : res[j] + fees[j] <= bal'[Pool][j]
  BY <1>1, <1>4, <1>5, <1>9, SyncedFacts DEF FundsTyped, Plain
<1> QED
  BY <1>2, <1>5, <1>7, <1>8, <1>10, BookKeeps DEF FundsTyped

LEMMA SwapStep ==
    ASSUME StableInv, NEW u \in Users, NEW in \in Coins, NEW out \in Coins,
           NEW n \in SwapAmounts, Swap(u, in, out, n, 0)
    PROVE  StableInv'
<1> DEFINE dy == AmountOut(Synced, in, out, n)
<1> USE DEF StableInv
<1>1. n \in Nat
  BY StableAssumption DEF StableAssumption
<1>2. /\ in # out /\ n <= bal[u][in] /\ dy # Fail
      /\ Trade(u, in, out, n, dy, FeeOn(n))
  BY Zenon DEF Swap
<1>3. dy \in Solved
  BY <1>1, SyncedFacts, AmountOutType
<1> HIDE DEF dy
<1>4. dy \in Nat /\ FeeOn(n) \in Nat
  BY <1>1, <1>2, <1>3, FeeTypes DEF Solved
<1> QED
  BY <1>1, <1>2, <1>4, TradeStep

LEMMA SwapStrictReceiveStep ==
    ASSUME StableInv, NEW u \in Users, NEW in \in Coins, NEW out \in Coins,
           NEW n \in SwapAmounts, SwapStrictReceive(u, in, out, n, bal[u][in])
    PROVE  StableInv'
<1> DEFINE net == NetIn(Synced, in, out, n)
<1> USE DEF StableInv
<1>1. n \in Nat
  BY StableAssumption DEF StableAssumption
<1>2. /\ in # out /\ n < Synced[out]
      /\ net # Fail /\ GrossIn(net) <= bal[u][in]
      /\ Trade(u, in, out, GrossIn(net), n, GrossIn(net) - net)
  BY Zenon DEF SwapStrictReceive
<1>3. net \in Solved
  BY <1>1, <1>2, SyncedFacts, NetInType
<1> HIDE DEF net
<1>4. net \in Nat
  BY <1>2, <1>3 DEF Solved
<1>5. GrossIn(net) \in Nat /\ GrossIn(net) - net \in Nat
  BY <1>4, GrossInType
<1> QED
  BY <1>1, <1>2, <1>5, TradeStep

-----------------------------------------------------------------------------
(* The other steps                                                         *)

LEMMA StableInit == Init => StableInv
<1> SUFFICES ASSUME Init PROVE StableInv
  OBVIOUS
<1>1. Nothing \in [Coins -> Nat] /\ reserve = Nothing /\ protocolFee = Nothing
  BY DEF Init, Nothing
<1>2. SettingsOK
  <2>1. InitialAmp \in Nat \ {0} /\ InitialFee \in 0..(FeeDenominator - 1)
    BY StableAssumption DEF StableAssumption
  <2>2. /\ ledger = 1 /\ fee = InitialFee /\ pfFraction = 0
        /\ ramp = [a0 |-> InitialAmp, t0 |-> 1, a1 |-> InitialAmp, t1 |-> 1]
        /\ pendingFee = [fee |-> 0, deadline |-> 0]
    BY DEF Init
  <2> QED
    BY <2>1, <2>2, DenominatorFacts DEF SettingsOK
<1>3. FundsTyped /\ PlainSolvent
  <2>1. \A h \in Holders, t \in Assets :
          bal[h][t] = IF h \in Users /\ t \in Coins THEN InitialBalance
                      ELSE IF h = Outside /\ t = RewardToken THEN RewardFunds ELSE 0
    BY DEF Init
  <2>2. Shaped(bal)
    BY DEF Init, Shaped
  <2>3. \A h \in Holders, t \in Assets : bal[h][t] \in Nat
    BY <2>1, StableAssumption DEF StableAssumption
  <2>4. plane.xp \in [Coins -> Nat]
    BY <1>1, ScaledType DEF Init, PlaneOf
  <2> QED
    <3>1. totalShares = 0
      BY DEF Init
    <3>2. FundsTyped
      BY <1>1, <2>2, <2>3, <2>4, <3>1, HolderFacts DEF FundsTyped, Plain
    <3>3. \A i \in Coins : reserve[i] = 0 /\ protocolFee[i] = 0
      BY <1>1 DEF Nothing
    <3>4. PlainSolvent
      BY <2>3, <3>3, HolderFacts DEF PlainSolvent, Plain
    <3> QED
      BY <3>2, <3>4
<1>4. PlaneFollows
  <2>1. Scaled(Nothing) \in [Coins -> Nat]
    BY <1>1, ScaledType
  <2>2. plane.fee = fee /\ plane.ramp = ramp /\ plane.xp = Scaled(reserve)
    BY DEF Init, PlaneOf
  <2> QED
    BY <1>1, <2>1, <2>2 DEF PlaneFollows
<1> QED
  BY <1>2, <1>3, <1>4 DEF StableInv

\* What bears on the coins alone.
fundVars == <<totalShares, reserve, protocolFee, plane>>

LEMMA FundsKept ==
    ASSUME StableInv, UNCHANGED fundVars, UNCHANGED <<fee, ramp>>, Shaped(bal'),
           \A h \in Holders, t \in Plain : bal'[h][t] \in Nat,
           \A i \in Plain : bal'[Pool][i] >= bal[Pool][i]
    PROVE  FundsTyped' /\ PlainSolvent' /\ PlaneFollows'
<1>1. FundsTyped'
  BY DEF StableInv, FundsTyped, fundVars, Shaped
<1>2. PlainSolvent'
  BY HolderFacts DEF StableInv, PlainSolvent, FundsTyped, fundVars, Plain
<1>3. PlaneFollows'
  BY DEF StableInv, PlaneFollows, fundVars, Scaled
<1> QED
  BY <1>1, <1>2, <1>3

\* Nothing but rewards, shares among holders, switches, locks and time.
LEMMA AsideStep ==
    ASSUME StableInv, UNCHANGED <<bal, fundVars>>, UNCHANGED <<fee, pfFraction, ramp, pendingFee>>,
           ledger' \in Nat, ledger' >= ledger
    PROVE  StableInv'
<1>1. SettingsOK'
  BY DEF StableInv, SettingsOK
<1>2. /\ Shaped(bal') /\ \A h \in Holders, t \in Plain : bal'[h][t] \in Nat
      /\ \A i \in Plain : bal'[Pool][i] >= bal[Pool][i]
  BY HolderFacts DEF StableInv, FundsTyped, Shaped
<1> QED
  BY <1>1, <1>2, FundsKept DEF StableInv

\* The reward token moves, and no other.
LEMMA RewardTokenStep ==
    ASSUME StableInv, UNCHANGED <<fundVars, cfgVars, envVars>>,
           NEW from \in Holders, NEW to \in Holders, from # to, NEW n,
           bal' = Move(bal, from, to, RewardToken, n)
    PROVE  StableInv'
<1>1. SettingsOK'
  BY SettingsKept DEF StableInv
<1>2. /\ Shaped(bal') /\ \A h \in Holders, t \in Plain : bal'[h][t] = bal[h][t]
  BY MoveFacts, HolderFacts DEF StableInv, FundsTyped, Plain
<1>3. /\ \A h \in Holders, t \in Plain : bal'[h][t] \in Nat
      /\ \A i \in Plain : bal'[Pool][i] >= bal[Pool][i]
  BY <1>2, HolderFacts DEF StableInv, FundsTyped
<1> QED
  BY <1>1, <1>2, <1>3, FundsKept DEF StableInv, cfgVars

\* The reserves are synchronised and the plane is not told.
LEMMA SyncStep ==
    ASSUME StableInv, reserve' = Synced, UNCHANGED <<totalShares, protocolFee, plane>>,
           UNCHANGED <<cfgVars, envVars>>, Shaped(bal'),
           \A h \in Holders, t \in Plain : bal'[h][t] = bal[h][t]
    PROVE  StableInv'
<1> USE DEF StableInv
<1>1. SettingsOK'
  BY SettingsKept
<1>2. FundsTyped'
  BY SyncedFacts DEF FundsTyped, Shaped
<1>3. PlainSolvent'
  BY SyncedFacts, HolderFacts DEF PlainSolvent
<1>4. PlaneFollows'
  <2> SUFFICES ASSUME NEW i \in Coins
               PROVE  plane.xp[i] <= Scaled(Synced)[i]
    BY DEF PlaneFollows, cfgVars, Scaled
  <2>1. reserve[i] * Decimals[i] <= Synced[i] * Decimals[i]
    BY SyncedFacts, CoinFacts, MulMono DEF FundsTyped
  <2>2. plane.xp[i] <= Scaled(reserve)[i]
    BY DEF PlaneFollows
  <2>3. Scaled(reserve)[i] = reserve[i] * Decimals[i] /\ Scaled(Synced)[i] = Synced[i] * Decimals[i]
    BY DEF Scaled
  <2>4. Scaled(reserve)[i] \in Nat /\ Scaled(Synced)[i] \in Nat
    BY ScaledType, SyncedFacts DEF FundsTyped
  <2>5. plane.xp[i] \in Nat
    BY DEF FundsTyped
  <2> QED
    BY <2>1, <2>2, <2>3, <2>4, <2>5
<1> QED
  BY <1>1, <1>2, <1>3, <1>4

\* The settings and the plane change, the coins do not.
LEMMA SettingsStep ==
    ASSUME StableInv, UNCHANGED ammVars, UNCHANGED ledger, SettingsOK',
           \/ plane' = PlaneOf(fee', ramp', reserve)
           \/ UNCHANGED <<plane, fee, ramp>>
    PROVE  StableInv'
<1> USE DEF StableInv
<1>1. Scaled(reserve) \in [Coins -> Nat]
  BY ScaledType DEF FundsTyped
<1>2. plane' = PlaneOf(fee', ramp', reserve) => plane'.xp = Scaled(reserve)
  BY DEF PlaneOf
<1>3. FundsTyped'
  BY <1>1, <1>2 DEF FundsTyped, ammVars, Shaped
<1>4. PlainSolvent'
  BY DEF PlainSolvent, ammVars
<1>5. PlaneFollows'
  <2>1. CASE plane' = PlaneOf(fee', ramp', reserve)
    <3>1. plane'.fee = fee' /\ plane'.ramp = ramp' /\ plane'.xp = Scaled(reserve)
      BY <2>1 DEF PlaneOf
    <3> QED
      BY <1>1, <3>1 DEF PlaneFollows, ammVars, Scaled
  <2>2. CASE UNCHANGED <<plane, fee, ramp>>
    BY <2>2 DEF PlaneFollows, ammVars, Scaled
  <2> QED
    BY <2>1, <2>2
<1> QED
  BY <1>3, <1>4, <1>5

LEMMA RampStep ==
    ASSUME StableInv, NEW a \in Nat \ {0}, NEW t \in Nat,
           ramp' = [a0 |-> Amp, t0 |-> ledger, a1 |-> a, t1 |-> t],
           plane' = PlaneOf(fee, ramp', reserve),
           UNCHANGED <<ammVars, fee, pfFraction, pendingFee, ledger>>
    PROVE  StableInv'
<1>1. Amp \in Nat \ {0}
  BY AmpType DEF StableInv
<1>2. SettingsOK'
  BY <1>1 DEF StableInv, SettingsOK
<1> QED
  BY <1>2, SettingsStep

LEMMA FeesStep ==
    ASSUME StableInv, NEW caller \in Callers,
           \/ \E f \in Fees : CommitNewFee(caller, f)
           \/ ApplyNewFee(caller)
           \/ RevertNewParameters(caller)
           \/ \E f \in ProtocolFractions : SetProtocolFeeFraction(caller, f)
    PROVE  StableInv'
<1> USE DEF StableInv, SettingsOK
<1>1. ASSUME NEW f \in Fees, CommitNewFee(caller, f) PROVE StableInv'
  <2>1. f \in 0..(FeeDenominator - 1) /\ ledger + AdminDelay \in Nat
    BY <1>1, StableAssumption, DenominatorFacts DEF StableAssumption, CommitNewFee
  <2>2. SettingsOK'
    BY <1>1, <2>1 DEF CommitNewFee, envVars
  <2> QED
    BY <1>1, <2>2, SettingsStep DEF CommitNewFee, envVars
<1>2. CASE ApplyNewFee(caller)
  <2>1. SettingsOK'
    BY <1>2 DEF ApplyNewFee, envVars
  <2>2. plane' = PlaneOf(fee', ramp', reserve) /\ UNCHANGED <<ammVars, ledger>>
    BY <1>2 DEF ApplyNewFee, envVars
  <2> QED
    BY <2>1, <2>2, SettingsStep
<1>3. CASE RevertNewParameters(caller)
  <2>1. SettingsOK'
    BY <1>3 DEF RevertNewParameters, envVars
  <2> QED
    BY <1>3, <2>1, SettingsStep DEF RevertNewParameters, envVars
<1>4. ASSUME NEW f \in ProtocolFractions, SetProtocolFeeFraction(caller, f) PROVE StableInv'
  <2>1. f \in 0..FeeDenominator
    BY <1>4, StableAssumption, DenominatorFacts DEF StableAssumption, SetProtocolFeeFraction
  <2>2. SettingsOK'
    BY <1>4, <2>1 DEF SetProtocolFeeFraction, envVars
  <2> QED
    BY <1>4, <2>2, SettingsStep DEF SetProtocolFeeFraction, envVars
<1> HIDE DEF StableInv
<1> QED
  BY <1>1, <1>2, <1>3, <1>4

LEMMA ClaimFeesStep ==
    ASSUME StableInv, NEW caller \in Callers, ClaimProtocolFees(caller)
    PROVE  StableInv'
<1> USE DEF StableInv
<1>1. /\ \A i \in Coins : protocolFee[i] <= bal[Pool][i]
      /\ bal' = SendAll(bal, Pool, Outside, protocolFee)
      /\ protocolFee' = Nothing
      /\ UNCHANGED <<totalShares, reserve, plane, cfgVars, envVars>>
  BY DEF ClaimProtocolFees
<1>2. SettingsOK'
  BY <1>1, SettingsKept
<1>3. /\ Shaped(bal')
      /\ \A h \in Holders, t \in Plain : bal'[h][t] \in Nat
      /\ \A i \in Plain : bal'[Pool][i] = bal[Pool][i] - protocolFee[i]
  BY <1>1, SendAllFacts, HolderFacts DEF FundsTyped, Plain
<1>4. FundsTyped'
  BY <1>1, <1>3 DEF FundsTyped, Shaped, Nothing
<1>5. PlainSolvent'
  <2> SUFFICES ASSUME NEW i \in Plain PROVE reserve[i] + 0 <= bal[Pool][i] - protocolFee[i]
    BY <1>1, <1>3 DEF PlainSolvent, Nothing, Plain
  <2> QED
    BY HolderFacts DEF FundsTyped, PlainSolvent, Plain
<1>6. PlaneFollows'
  BY <1>1 DEF PlaneFollows, Scaled, cfgVars
<1> QED
  BY <1>2, <1>4, <1>5, <1>6

LEMMA SendToPoolStep ==
    ASSUME StableInv, NEW from \in Users \cup {Outside}, NEW t \in Assets,
           NEW n \in GiftAmounts, SendToPool(from, t, n)
    PROVE  StableInv'
<1> USE DEF StableInv
<1>1. n \in Nat /\ from \in Holders /\ from # Pool
  BY HolderFacts, StableAssumption DEF StableAssumption
<1>2. /\ n <= bal[from][t] /\ bal' = Move(bal, from, Pool, t, n)
      /\ UNCHANGED <<fundVars, cfgVars, envVars>>
  BY DEF SendToPool, fundVars
<1>3. SettingsOK'
  BY <1>2, SettingsKept
<1>4. /\ Shaped(bal')
      /\ \A h \in Holders, x \in Assets \ {t} : bal'[h][x] = bal[h][x]
      /\ bal'[from][t] = bal[from][t] - n
      /\ bal'[Pool][t] = bal[Pool][t] + n
      /\ \A h \in Holders \ {from, Pool} : bal'[h] = bal[h]
  BY <1>1, <1>2, MoveFacts, HolderFacts DEF FundsTyped
<1>5. \A h \in Holders, x \in Plain : bal'[h][x] \in Nat
  BY <1>1, <1>2, <1>4, HolderFacts DEF FundsTyped, Plain
<1>6. \A i \in Plain : bal'[Pool][i] >= bal[Pool][i]
  BY <1>1, <1>4, HolderFacts DEF FundsTyped, Plain
<1> QED
  BY <1>2, <1>3, <1>4, <1>5, <1>6, FundsKept DEF cfgVars

LEMMA ReturnUnusedStep ==
    ASSUME StableInv, NEW caller \in Callers, ReturnUnusedReward(caller)
    PROVE  StableInv'
<1> USE DEF StableInv
<1>1. PICK n : bal' = Move(bal, Pool, Outside, RewardToken, n)
  BY DEF ReturnUnusedReward
<1>2. /\ UNCHANGED <<totalShares, protocolFee, plane, cfgVars, envVars>>
      /\ reserve' = reserve \/ reserve' = Synced
  BY DEF ReturnUnusedReward
<1>3. Shaped(bal') /\ \A h \in Holders, t \in Plain : bal'[h][t] = bal[h][t]
  BY <1>1, MoveFacts, HolderFacts DEF FundsTyped, Plain
<1>4. CASE reserve' = Synced
  BY <1>2, <1>3, <1>4, SyncStep
<1>5. CASE reserve' = reserve
  <2>1. UNCHANGED <<fundVars, cfgVars, envVars>>
    BY <1>2, <1>5 DEF fundVars
  <2> QED
    BY <1>1, <2>1, RewardTokenStep, HolderFacts
<1> QED
  BY <1>2, <1>4, <1>5

LEMMA UserKeeps == StableInv /\ UserStep => StableInv'
<1> SUFFICES ASSUME StableInv, UserStep PROVE StableInv'
  OBVIOUS
<1>1. PICK u \in Users :
        \/ \E amounts \in [Coins -> DepositAmounts] : Deposit(u, amounts)
        \/ \E n \in ShareAmounts : Withdraw(u, n)
        \/ \E amounts \in [Coins -> SwapAmounts \cup {0}], n \in ShareAmounts :
                RemoveLiquidityImbalance(u, amounts, n)
        \/ \E n \in ShareAmounts, i \in Coins : WithdrawOneCoin(u, n, i, 0)
        \/ \E in, out \in Coins, n \in SwapAmounts :
            \/ Swap(u, in, out, n, 0)
            \/ SwapStrictReceive(u, in, out, n, bal[u][in])
        \/ \E to \in ShareHolders, n \in ShareAmounts : TransferShares(u, to, n)
  BY DEF UserStep
<1>2. ASSUME NEW to \in ShareHolders, NEW n \in ShareAmounts, TransferShares(u, to, n)
      PROVE  StableInv'
  <2>1. UNCHANGED <<bal, fundVars>> /\ UNCHANGED <<fee, pfFraction, ramp, pendingFee, ledger>>
    BY <1>2 DEF TransferShares, fundVars, cfgVars, envVars
  <2> QED
    BY <2>1, AsideStep DEF StableInv, SettingsOK
<1> QED
  BY <1>1, <1>2, DepositStep, WithdrawStep, ImbalanceStep, OneCoinStep, SwapStep,
     SwapStrictReceiveStep

LEMMA RewardsBecomeStep ==
    ASSUME StableInv, NEW r, RewardsBecome(r)
    PROVE  StableInv'
<1>1. UNCHANGED <<bal, fundVars>> /\ UNCHANGED <<fee, pfFraction, ramp, pendingFee, ledger>>
  BY DEF RewardsBecome, fundVars, ammVars, cfgVars, envVars
<1> QED
  BY <1>1, AsideStep DEF StableInv, SettingsOK

LEMMA RewardKeeps == StableInv /\ RewardStep => StableInv'
<1> SUFFICES ASSUME StableInv, RewardStep PROVE StableInv'
  OBVIOUS
<1>1. ASSUME NEW u \in Users, Claim(u) PROVE StableInv'
  <2>1. PICK n : bal' = Move(bal, Pool, u, RewardToken, n)
    BY <1>1 DEF Claim
  <2>2. UNCHANGED <<fundVars, cfgVars, envVars>>
    BY <1>1 DEF Claim, fundVars
  <2> QED
    BY <2>1, <2>2, RewardTokenStep, HolderFacts
<1> QED
  BY <1>1, RewardsBecomeStep DEF RewardStep, GetUserReward, SetRewardsState, GetPoolRewards

LEMMA AdminKeeps == StableInv /\ AdminStep => StableInv'
<1> SUFFICES ASSUME StableInv, NEW caller \in Callers,
                    \/ \E a \in Amps, t \in RampEnds : RampA(caller, a, t)
                    \/ StopRampA(caller)
                    \/ \E f \in Fees : CommitNewFee(caller, f)
                    \/ ApplyNewFee(caller)
                    \/ RevertNewParameters(caller)
                    \/ \E f \in ProtocolFractions : SetProtocolFeeFraction(caller, f)
                    \/ ClaimProtocolFees(caller)
                    \/ \E s \in UsedSwitches : Kill(caller, s) \/ Unkill(caller, s)
                    \/ \E e \in Expirations, tps \in TpsValues : SetRewardsConfig(caller, e, tps)
                    \/ ReturnUnusedReward(caller)
                    \/ \E diff \in Diffs : AdjustTotalAccumulatedReward(caller, diff)
             PROVE  StableInv'
  BY DEF AdminStep
<1>1. ASSUME NEW a \in Amps, NEW t \in RampEnds, RampA(caller, a, t) PROVE StableInv'
  <2>1. a \in Nat \ {0} /\ t \in Nat
    BY <1>1, StableAssumption DEF StableAssumption, RampA
  <2> QED
    BY <1>1, <2>1, RampStep DEF RampA, envVars
<1>2. ASSUME StopRampA(caller) PROVE StableInv'
  <2>1. Amp \in Nat \ {0} /\ ledger \in Nat
    BY AmpType DEF StableInv, SettingsOK
  <2> QED
    BY <1>2, <2>1, RampStep DEF StopRampA, envVars
<1>3. ASSUME NEW s \in UsedSwitches, Kill(caller, s) \/ Unkill(caller, s) PROVE StableInv'
  <2>1. UNCHANGED <<bal, fundVars>> /\ UNCHANGED <<fee, pfFraction, ramp, pendingFee, ledger>>
    BY <1>3 DEF Kill, Unkill, fundVars, ammVars, envVars
  <2> QED
    BY <2>1, AsideStep DEF StableInv, SettingsOK
<1>4. ASSUME \/ \E e \in Expirations, tps \in TpsValues : SetRewardsConfig(caller, e, tps)
             \/ \E diff \in Diffs : AdjustTotalAccumulatedReward(caller, diff)
      PROVE  StableInv'
  BY <1>4, RewardsBecomeStep DEF SetRewardsConfig, AdjustTotalAccumulatedReward
<1> QED
  BY <1>1, <1>2, <1>3, <1>4, FeesStep, ClaimFeesStep, ReturnUnusedStep

LEMMA EnvKeeps == StableInv /\ EnvStep => StableInv'
<1> SUFFICES ASSUME StableInv, EnvStep PROVE StableInv'
  OBVIOUS
<1>1. CASE SyncReserves
  <2>1. /\ reserve' = Synced /\ UNCHANGED <<totalShares, protocolFee, plane>>
        /\ UNCHANGED <<cfgVars, envVars>> /\ bal' = bal
    BY <1>1 DEF SyncReserves
  <2> QED
    BY <2>1, SyncStep DEF StableInv, FundsTyped, Shaped
<1>2. CASE BackfillPlane
  <2>1. plane' = PlaneOf(fee', ramp', reserve) /\ UNCHANGED ammVars /\ ledger' = ledger
    BY <1>2 DEF BackfillPlane, cfgVars, envVars
  <2>2. SettingsOK'
    BY <1>2, SettingsKept DEF BackfillPlane, StableInv
  <2> QED
    BY <2>1, <2>2, SettingsStep
<1>3. ASSUME NEW u \in Users, NEW n \in LockAmounts, ChangeLock(u, n) PROVE StableInv'
  <2>1. UNCHANGED <<bal, fundVars>> /\ UNCHANGED <<fee, pfFraction, ramp, pendingFee, ledger>>
    BY <1>3 DEF ChangeLock, fundVars, ammVars, cfgVars
  <2> QED
    BY <2>1, AsideStep DEF StableInv, SettingsOK
<1>4. CASE NextLedger
  <2>1. UNCHANGED <<bal, fundVars>> /\ UNCHANGED <<fee, pfFraction, ramp, pendingFee>>
    BY <1>4 DEF NextLedger, fundVars, ammVars, cfgVars
  <2>2. ledger' = ledger + 1 /\ ledger \in Nat
    BY <1>4 DEF NextLedger, StableInv, SettingsOK
  <2> QED
    BY <2>1, <2>2, AsideStep
<1> QED
  BY <1>1, <1>2, <1>3, <1>4, SendToPoolStep DEF EnvStep

LEMMA StableStep == StableInv /\ [Next]_vars => StableInv'
<1> SUFFICES ASSUME StableInv, UNCHANGED vars PROVE StableInv'
  BY UserKeeps, RewardKeeps, AdminKeeps, EnvKeeps DEF Next
<1>1. UNCHANGED <<bal, fundVars>> /\ UNCHANGED <<fee, pfFraction, ramp, pendingFee, ledger>>
  BY DEF vars, fundVars
<1> QED
  BY <1>1, AsideStep DEF StableInv, SettingsOK

LEMMA StableInvariant == Spec => []StableInv
BY StableInit, StableStep, PTL DEF Spec

-----------------------------------------------------------------------------
(* The theorems                                                            *)

\* Whatever coins the reward is paid in: the pool has the reserve and the
\* protocol fee of each coin that is not the reward token, after every call that
\* moves tokens and for whatever the two solvers answer (contract.rs).
THEOREM PlainCoinsCovered == Spec => []PlainSolvent
<1>1. StableInv => PlainSolvent
  BY DEF StableInv
<1> QED
  BY <1>1, StableInvariant, PTL

\* A pool that pays its rewards in another token has all that it owes.  The
\* condition is needed: get_unused_reward sends away what exceeds the rewards
\* and the reserve, the protocol fees of a coin that is the reward token too.
THEOREM StableSolvent ==
    ASSUME RewardToken \notin Coins
    PROVE  Spec => []Solvent
<1>1. StableInv => Solvent
  BY DEF StableInv, PlainSolvent, Plain, Solvent
<1> QED
  BY <1>1, StableInvariant, PTL

\* The plane shows the fee and the ramp in force and never more than the
\* reserves (plane.rs, update_plane), with the reads that synchronise the
\* reserves and do not tell it.
THEOREM PlaneAlwaysFollows == Spec => []PlaneFollows
<1>1. StableInv => PlaneFollows
  BY DEF StableInv
<1> QED
  BY <1>1, StableInvariant, PTL

\* The coefficient is a positive number at every moment of every ramp, so that
\* no call fails for it (get_a; ann - 1 in _get_d).
THEOREM AmpAlwaysPositive == Spec => [](Amp \in Nat \ {0})
<1>1. StableInv => Amp \in Nat \ {0}
  BY AmpType DEF StableInv
<1> QED
  BY <1>1, StableInvariant, PTL

-----------------------------------------------------------------------------
(* The delay of a fee                                                      *)

LEMMA FeeInit == Init => FeeChange!Init
BY StableAssumption DEF StableAssumption, Init, FeeChange!Init

feeVars == <<fee, pendingFee, ledger>>

LEMMA FeeStep ==
    StableInv /\ [Next]_vars => [FeeChange!Next]_(FeeChange!vars)
<1> SUFFICES ASSUME StableInv, [Next]_vars
             PROVE  FeeChange!Next \/ UNCHANGED FeeChange!vars
  OBVIOUS
<1> USE DEF feeVars
<1>1. ledger \in Nat \ {0} /\ AdminDelay \in Nat
  BY StableAssumption DEF StableAssumption, StableInv, SettingsOK
<1>2. pendingFee \in [fee : Nat, deadline : Nat]
  BY DenominatorFacts DEF StableInv, SettingsOK
<1>3. CASE UNCHANGED feeVars
  BY <1>3 DEF FeeChange!vars
<1>4. ASSUME NEW caller \in Callers, NEW f \in Fees, CommitNewFee(caller, f)
      PROVE  FeeChange!Next
  <2>1. /\ pendingFee.deadline = 0
        /\ pendingFee' = [fee |-> f, deadline |-> ledger + AdminDelay]
        /\ UNCHANGED <<fee, ledger>>
    BY <1>4 DEF CommitNewFee, envVars
  <2>2. pendingFee'.deadline # 0 /\ pendingFee'.deadline - AdminDelay = ledger
    BY <1>1, <2>1
  <2>3. FeeChange!Propose(f)
    BY <2>1, <2>2 DEF FeeChange!Propose
  <2> QED
    BY <2>3 DEF FeeChange!Next
<1>5. ASSUME NEW caller \in Callers, ApplyNewFee(caller)
      PROVE  FeeChange!Next
  <2> DEFINE p == [value |-> pendingFee.fee, since |-> pendingFee.deadline - AdminDelay]
  <2>1. /\ pendingFee.deadline # 0 /\ ledger >= pendingFee.deadline
        /\ pendingFee'.deadline = 0 /\ fee' = pendingFee.fee /\ UNCHANGED ledger
    BY <1>2, <1>5 DEF ApplyNewFee, envVars
  <2>2. ledger >= p.since + AdminDelay
    BY <1>1, <1>2, <2>1
  <2>3. FeeChange!Enact
    BY <2>1, <2>2 DEF FeeChange!Enact
  <2> QED
    BY <2>3 DEF FeeChange!Next
<1>6. ASSUME NEW caller \in Callers, RevertNewParameters(caller)
      PROVE  FeeChange!Next
  <2>1. pendingFee'.deadline = 0 /\ UNCHANGED <<fee, ledger>>
    BY <1>2, <1>6 DEF RevertNewParameters, envVars
  <2> QED
    BY <2>1 DEF FeeChange!Next, FeeChange!Cancel
<1>7. CASE NextLedger
  <2>1. ledger' = ledger + 1 /\ UNCHANGED <<fee, pendingFee>>
    BY <1>7 DEF NextLedger, cfgVars
  <2> QED
    BY <1>1, <2>1 DEF FeeChange!Next, FeeChange!Tick
<1>8. UserStep => UNCHANGED feeVars
  <2>1. ASSUME UNCHANGED <<cfgVars, envVars>> PROVE UNCHANGED feeVars
    BY <2>1 DEF cfgVars, envVars
  <2> HIDE DEF feeVars
  <2>2. ASSUME NEW u \in Users, NEW amounts, NEW n, NEW i,
               \/ Deposit(u, amounts)
               \/ Withdraw(u, n)
               \/ RemoveLiquidityImbalance(u, amounts, n)
               \/ WithdrawOneCoin(u, n, i, 0)
               \/ TransferShares(u, i, n)
        PROVE  UNCHANGED feeVars
    BY <2>1, <2>2, Zenon
       DEF Deposit, Withdraw, RemoveLiquidityImbalance, WithdrawOneCoin, TransferShares
  <2>3. ASSUME NEW u \in Users, NEW in, NEW out, NEW n,
               \/ Swap(u, in, out, n, 0)
               \/ SwapStrictReceive(u, in, out, n, bal[u][in])
        PROVE  UNCHANGED feeVars
    BY <2>1, <2>3, Zenon DEF Swap, SwapStrictReceive, Trade
  <2> QED
    BY <2>2, <2>3, Zenon DEF UserStep
<1>9. RewardStep => UNCHANGED feeVars
  BY DEF RewardStep, Claim, GetUserReward, SetRewardsState, GetPoolRewards, RewardsBecome,
         cfgVars, envVars
<1>10. EnvStep => UNCHANGED feeVars \/ NextLedger
  BY DEF EnvStep, SyncReserves, BackfillPlane, SendToPool, ChangeLock, cfgVars, envVars
<1>11. ASSUME NEW caller \in Callers,
              \/ \E a \in Amps, t \in RampEnds : RampA(caller, a, t)
              \/ StopRampA(caller)
              \/ \E f \in ProtocolFractions : SetProtocolFeeFraction(caller, f)
              \/ ClaimProtocolFees(caller)
              \/ \E s \in UsedSwitches : Kill(caller, s) \/ Unkill(caller, s)
              \/ \E e \in Expirations, tps \in TpsValues : SetRewardsConfig(caller, e, tps)
              \/ ReturnUnusedReward(caller)
              \/ \E diff \in Diffs : AdjustTotalAccumulatedReward(caller, diff)
       PROVE  UNCHANGED feeVars
  BY <1>11 DEF RampA, StopRampA, SetProtocolFeeFraction, ClaimProtocolFees, Kill, Unkill,
               SetRewardsConfig, ReturnUnusedReward, AdjustTotalAccumulatedReward,
               RewardsBecome, cfgVars, envVars
<1>12. AdminStep => FeeChange!Next \/ UNCHANGED feeVars
  BY <1>4, <1>5, <1>6, <1>11 DEF AdminStep
<1>13. UNCHANGED vars => UNCHANGED feeVars
  BY DEF vars
<1> QED
  BY <1>3, <1>7, <1>8, <1>9, <1>10, <1>12, <1>13 DEF Next

\* commit_new_fee, apply_new_fee and revert_new_parameters: the fee of a pool
\* is only ever the first one or one that was committed and then left pending
\* for the whole delay.
THEOREM FeeAlwaysDelayed == Spec => FeeDelayed
BY StableInvariant, FeeInit, FeeStep, PTL
   DEF Spec, FeeDelayed, FeeChange!Spec

=============================================================================
