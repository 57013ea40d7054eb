------------------------ MODULE RewardStreamProofs ------------------------
(***************************************************************************)
(* The two streams of rewards.                                             *)
(*                                                                         *)
(* A pool and its gauge: the gauge never blocks the pool, it holds what it *)
(* owes to the stream and to the users, and while it is on the pool the    *)
(* users together never have more coming than was accumulated.  First what *)
(* each operation of the gauge does to its own books, then the calls       *)
(* inside a transaction (pairs of reward state and gauge state) and the    *)
(* order in which the entry points make them.                              *)
(*                                                                         *)
(* The pages of the reward manager: every cell holds the sum of its        *)
(* blocks, also of those added before its level was begun to be used, so   *)
(* that the jumps over cells sum every range of blocks exactly.            *)
(***************************************************************************)
EXTENDS PoolGauges, RewardPages, RewardsProofs, SequenceTheorems

-----------------------------------------------------------------------------
(* The invariant                                                           *)

\* The books of the gauge at the time now, with n configurations scheduled so
\* far: every configuration it still keeps ends after the last epoch, and a
\* user who was settled in this epoch has the index of this epoch.
GoodConfigs(g, n) ==
    /\ IsFiniteSet(g.configs)
    /\ \A c \in g.configs : c.id < n /\ c.startAt < c.expiredAt /\ g.epoch < c.expiredAt

GoodUsers(g) ==
    \A u \in Users :
        /\ g.user[u].lastInv <= g.inv
        /\ g.user[u].epoch <= g.epoch
        /\ g.user[u].epoch = g.epoch => g.user[u].lastInv = g.inv

Funded(g) ==
    /\ g.claimed <= g.accumulated
    /\ g.bal = g.accumulated - g.claimed + Gauge!Unstreamed(g)

GoodGauge(g, now, n) ==
    /\ g \in Gauge!GaugeState
    /\ g.epoch <= now
    /\ GoodConfigs(g, n)
    /\ GoodUsers(g)
    /\ Funded(g)

\* What a user has coming at the scale of the index, before any rounding, for
\* a working balance w[u]; and that all of it was accumulated.
GaugePots(g, w) ==
    [u \in Users |-> RewardPrecision * g.user[u].toClaim
                       + (g.inv - g.user[u].lastInv) * w[u]]

GaugeCovered(g, w) ==
    RewardPrecision * g.claimed + SumFunctionOnSet(GaugePots(g, w), Users)
        <= RewardPrecision * g.accumulated

\* Between two calls of a transaction.  The coverage is about the gauges that
\* were never taken off the pool: one that was missed the changes of working
\* balances in between.
StateOK(s) ==
    /\ s = [rw |-> s.rw, gauge |-> s.gauge]
    /\ RewardsOK(s.rw, shares, totalShares, ledger)
    /\ GoodGauge(s.gauge, ledger, scheduled)
    /\ ~attached /\ ~detached => s.gauge.inv = 0
    /\ ~detached => GaugeCovered(s.gauge, Working(s.rw))

\* The index has reached u: his working balance may change.
AtIndex(g, u) == g.user[u].lastInv = g.inv
Ready(s, u) == ~detached => AtIndex(s.gauge, u)

OtherTypes ==
    /\ shares \in [Users -> Nat] /\ totalShares \in Nat
    /\ lock \in [Users -> Nat]
    /\ ledger \in Nat
    /\ attached \in BOOLEAN /\ killed \in BOOLEAN /\ detached \in BOOLEAN
    /\ scheduled \in Nat
    /\ owed \in [Users -> Int]

\* What was burned at the token still counts in the total of shares.
SharesWithin == SumFunctionOnSet(shares, Users) <= totalShares

PoolGaugesInv == StateOK(State) /\ OtherTypes /\ SharesWithin

-----------------------------------------------------------------------------
(* What a checkpoint generates                                             *)

\* The gauge sums with its own copy of the library.
LEMMA SameSum ==
    ASSUME NEW D, NEW fun \in [D -> Int], NEW S
    PROVE  Gauge!SumFunctionOnSet(fun, S) = SumFunctionOnSet(fun, S)
BY DEF Gauge!SumFunctionOnSet, Gauge!FoldFunctionOnSet, Gauge!MapThenFoldSet,
       SumFunctionOnSet, FoldFunctionOnSet, MapThenFoldSet

LEMMA ConfigFacts ==
    ASSUME NEW g \in Gauge!GaugeState, NEW n, GoodConfigs(g, n), NEW now \in Nat,
           g.epoch <= now, NEW c \in g.configs
    PROVE  /\ c.id \in Nat /\ c.startAt \in Nat /\ c.expiredAt \in Nat /\ c.tps \in Nat
           /\ c.startAt < c.expiredAt /\ g.epoch < c.expiredAt /\ g.epoch \in Nat
           /\ Gauge!RewardStart(g, c) \in Nat /\ Gauge!RewardEnd(c, now) \in Nat
           /\ Gauge!RewardStart(g, c) < c.expiredAt
           /\ c.startAt <= now => /\ Gauge!RewardStart(g, c) <= Gauge!RewardEnd(c, now)
                                  /\ Gauge!GeneratedTokens(g, c, now) \in Nat
<1>1. /\ c.id \in Nat /\ c.startAt \in Nat /\ c.expiredAt \in Nat /\ c.tps \in Nat
      /\ g.epoch \in Nat /\ c.startAt < c.expiredAt /\ g.epoch < c.expiredAt
  BY DEF Gauge!GaugeState, Gauge!RewardConfig, GoodConfigs
<1>2. /\ Gauge!RewardStart(g, c) \in Nat /\ Gauge!RewardEnd(c, now) \in Nat
      /\ Gauge!RewardStart(g, c) < c.expiredAt
      /\ c.startAt <= now => Gauge!RewardStart(g, c) <= Gauge!RewardEnd(c, now)
  BY <1>1 DEF Gauge!RewardStart, Gauge!RewardEnd
<1>3. ASSUME c.startAt <= now PROVE Gauge!GeneratedTokens(g, c, now) \in Nat
  <2>1. Gauge!RewardEnd(c, now) - Gauge!RewardStart(g, c) \in Nat
    BY <1>2, <1>3
  <2> QED
    BY <1>1, <2>1, MulNat DEF Gauge!GeneratedTokens
<1> QED
  BY <1>1, <1>2, <1>3

\* No checkpoint aborts: reward_end - reward_start does not underflow.
LEMMA CheckpointPasses ==
    ASSUME NEW g \in Gauge!GaugeState, NEW n, GoodConfigs(g, n), NEW now \in Nat,
           g.epoch <= now
    PROVE  Gauge!CheckpointOK(g, now)
BY ConfigFacts DEF Gauge!CheckpointOK, Gauge!Started

\* The index never grows by more than what was generated, nor twice in a second.
LEMMA GeneratedFacts ==
    ASSUME NEW g \in Gauge!GaugeState, NEW n, GoodConfigs(g, n), NEW now \in Nat,
           g.epoch <= now, NEW ws \in Nat
    PROVE  /\ Gauge!Generated(g, now) \in Nat
           /\ Gauge!RewardPerShare(g, now, ws) \in Nat
           /\ Gauge!RewardPerShare(g, now, ws) * ws
                <= RewardPrecision * Gauge!Generated(g, now)
           /\ g.epoch = now => Gauge!RewardPerShare(g, now, ws) = 0
<1> DEFINE S == Gauge!Started(g, now)
           gen == [c \in S |-> Gauge!GeneratedTokens(g, c, now)]
           part == [c \in S |-> (Gauge!GeneratedTokens(g, c, now) * RewardPrecision) \div ws]
<1>1. S \in SUBSET g.configs /\ IsFiniteSet(S) /\ \A c \in S : c.startAt <= now
  BY FS_Subset DEF Gauge!Started, GoodConfigs
<1>2. \A c \in S : c \in g.configs /\ Gauge!GeneratedTokens(g, c, now) \in Nat
  BY <1>1, ConfigFacts
<1>3. gen \in [S -> Nat] /\ gen \in [S -> Int]
  BY <1>2
<1>4. /\ Gauge!Generated(g, now) = SumFunctionOnSet(gen, S)
      /\ SumFunctionOnSet(gen, S) \in Nat
  <2> HIDE DEF gen
  <2>1. Gauge!Generated(g, now) = Gauge!SumFunctionOnSet(gen, S)
    BY DEF Gauge!Generated, gen
  <2>2. Gauge!SumFunctionOnSet(gen, S) = SumFunctionOnSet(gen, S)
    BY <1>3, SameSum
  <2> HIDE DEF S
  <2>3. SumFunctionOnSet(gen, S) \in Nat
    BY <1>1, <1>3, SumNat
  <2> QED
    BY <2>1, <2>2, <2>3
<1>5. CASE ws = 0
  <2>1. Gauge!RewardPerShare(g, now, ws) = 0
    BY <1>5 DEF Gauge!RewardPerShare
  <2>2. RewardPrecision * SumFunctionOnSet(gen, S) \in Nat
    BY <1>4, MulNat, RewardPrecisionAssumption
  <2> QED
    BY <1>4, <1>5, <2>1, <2>2
<1>6. CASE ws # 0
  <2>1. ASSUME NEW c \in S
        PROVE  part[c] \in Nat /\ ws * part[c] <= RewardPrecision * gen[c]
    <3>1. gen[c] * RewardPrecision \in Nat /\ gen[c] \in Nat
      BY <1>2, MulNat, RewardPrecisionAssumption
    <3>2. part[c] \in Nat /\ part[c] * ws <= gen[c] * RewardPrecision
      BY <1>6, <3>1, DivFacts
    <3> HIDE DEF part, gen
    <3> QED
      BY <3>1, <3>2, RewardPrecisionAssumption
  <2>2. part \in [S -> Nat] /\ part \in [S -> Int]
    BY <2>1
  <2>3. Gauge!RewardPerShare(g, now, ws) = SumFunctionOnSet(part, S)
    <3>1. Gauge!RewardPerShare(g, now, ws) = Gauge!SumFunctionOnSet(part, S)
      BY <1>6 DEF Gauge!RewardPerShare
    <3> HIDE DEF part, S
    <3> QED
      BY <2>2, <3>1, SameSum
  <2> DEFINE scaled == [c \in S |-> RewardPrecision * gen[c]]
             zero == [c \in S |-> 0]
  <2>4. /\ scaled \in [S -> Int] /\ zero \in [S -> Int] /\ \A c \in S : zero[c] = 0
        /\ \A c \in S : scaled[c] = RewardPrecision * gen[c]
    BY <1>3, RewardPrecisionAssumption
  <2>5. g.epoch = now => \A c \in S : part[c] = 0
    <3> SUFFICES ASSUME g.epoch = now, NEW c \in S PROVE part[c] = 0
      OBVIOUS
    <3>1. Gauge!RewardStart(g, c) = now /\ Gauge!RewardEnd(c, now) = now /\ c.tps \in Nat
      BY <1>1, ConfigFacts DEF Gauge!RewardStart, Gauge!RewardEnd
    <3>2. Gauge!GeneratedTokens(g, c, now) = 0
      BY <3>1 DEF Gauge!GeneratedTokens
    <3>3. part[c] = (0 * RewardPrecision) \div ws
      BY <3>2
    <3> QED
      BY <1>6, <3>3, RewardPrecisionAssumption
  <2> HIDE DEF S, gen, part, scaled, zero
  <2>6. SumFunctionOnSet(part, S) \in Nat
    BY <1>1, <2>1, <2>2, SumNat
  <2>7. ws * SumFunctionOnSet(part, S) <= SumFunctionOnSet(scaled, S)
    <3>1. \A c \in S : ws * part[c] <= scaled[c]
      BY <2>1, <2>4
    <3>2. ws \in Int /\ S \in SUBSET S
      OBVIOUS
    <3> QED
      BY <1>1, <2>2, <2>4, <3>1, <3>2, SumScaled
  <2>8. SumFunctionOnSet(scaled, S) <= RewardPrecision * SumFunctionOnSet(gen, S)
    <3>1. \A c \in S : scaled[c] <= zero[c] + RewardPrecision * gen[c]
      BY <1>3, <2>4, RewardPrecisionAssumption
    <3>2. SumFunctionOnSet(scaled, S)
            <= SumFunctionOnSet(zero, S) + RewardPrecision * SumFunctionOnSet(gen, S)
      BY <1>1, <1>3, <2>4, <3>1, SumGrowth, RewardPrecisionAssumption
    <3>3. SumFunctionOnSet(zero, S) = 0
      BY <1>1, <2>4, SumOfZeros
    <3>4. RewardPrecision * SumFunctionOnSet(gen, S) \in Nat
      BY <1>4, MulNat, RewardPrecisionAssumption
    <3> QED
      BY <3>2, <3>3, <3>4
  <2>9. SumFunctionOnSet(scaled, S) \in Int
    BY <1>1, <2>4, SumInt
  <2>10. SumFunctionOnSet(part, S) * ws <= RewardPrecision * SumFunctionOnSet(gen, S)
    <3>1. /\ SumFunctionOnSet(part, S) * ws = ws * SumFunctionOnSet(part, S)
          /\ ws * SumFunctionOnSet(part, S) \in Int
          /\ RewardPrecision * SumFunctionOnSet(gen, S) \in Int
      BY <1>4, <2>6, RewardPrecisionAssumption
    <3> QED
      BY <2>7, <2>8, <2>9, <3>1
  <2>11. g.epoch = now => SumFunctionOnSet(part, S) = 0
    BY <1>1, <2>2, <2>5, SumOfZeros
  <2> QED
    BY <1>4, <2>3, <2>6, <2>10, <2>11
<1> QED
  BY <1>5, <1>6

-----------------------------------------------------------------------------
(* The operations of the gauge                                             *)

\* What a configuration still has to stream.
Rest(g) == [c \in g.configs |-> (c.expiredAt - Gauge!RewardStart(g, c)) * c.tps]

LEMMA RestFacts ==
    ASSUME NEW g \in Gauge!GaugeState, NEW n, GoodConfigs(g, n)
    PROVE  /\ Rest(g) \in [g.configs -> Nat] /\ Rest(g) \in [g.configs -> Int]
           /\ Gauge!Unstreamed(g) = SumFunctionOnSet(Rest(g), g.configs)
           /\ Gauge!Unstreamed(g) \in Nat
<1>1. g.epoch \in Nat
  BY DEF Gauge!GaugeState
<1>2. ASSUME NEW c \in g.configs
      PROVE  (c.expiredAt - Gauge!RewardStart(g, c)) * c.tps \in Nat
  <2>1. c.tps \in Nat /\ c.expiredAt - Gauge!RewardStart(g, c) \in Nat
    BY <1>1, ConfigFacts
  <2> QED
    BY <2>1, MulNat
<1>3. Rest(g) \in [g.configs -> Nat] /\ Rest(g) \in [g.configs -> Int]
  BY <1>2 DEF Rest
<1>4. Gauge!Unstreamed(g) = Gauge!SumFunctionOnSet(Rest(g), g.configs)
  BY DEF Gauge!Unstreamed, Rest
<1>5. Gauge!Unstreamed(g) = SumFunctionOnSet(Rest(g), g.configs)
  BY <1>3, <1>4, SameSum
<1>6. SumFunctionOnSet(Rest(g), g.configs) \in Nat
  BY <1>3, SumNat DEF GoodConfigs
<1> QED
  BY <1>3, <1>5, <1>6

\* The configurations after a checkpoint: those that end later.
LEMMA GlobalConfigs ==
    ASSUME NEW g \in Gauge!GaugeState, NEW n, GoodConfigs(g, n), NEW now \in Nat,
           g.epoch <= now, NEW ws \in Nat
    PROVE  LET q == Gauge!CheckpointGlobal(g, now, ws)
           IN /\ q \in Gauge!GaugeState
              /\ GoodConfigs(q, n)
              /\ q.epoch = now
              /\ q.inv = g.inv + Gauge!RewardPerShare(g, now, ws)
              /\ q.accumulated = g.accumulated + Gauge!Generated(g, now)
              /\ q.claimed = g.claimed /\ q.user = g.user /\ q.bal = g.bal
              /\ q.configs = Gauge!Remaining(g, now)
<1> DEFINE q == Gauge!CheckpointGlobal(g, now, ws)
           a == g.accumulated + Gauge!Generated(g, now)
           i == g.inv + Gauge!RewardPerShare(g, now, ws)
           R == Gauge!Remaining(g, now)
<1>1. a \in Nat /\ i \in Nat
  BY GeneratedFacts DEF Gauge!GaugeState
<1>2. R \in SUBSET g.configs /\ IsFiniteSet(R)
  BY FS_Subset DEF Gauge!Remaining, GoodConfigs
<1>3. \A c \in R : c.id < n /\ c.startAt < c.expiredAt /\ now < c.expiredAt
  <2> SUFFICES ASSUME NEW c \in R
               PROVE  c.id < n /\ c.startAt < c.expiredAt /\ now < c.expiredAt
    OBVIOUS
  <2>1. c \in g.configs /\ (c.startAt > now \/ c.expiredAt > now)
    BY DEF Gauge!Remaining
  <2>2. c.startAt \in Nat /\ c.expiredAt \in Nat /\ c.startAt < c.expiredAt /\ c.id < n
    BY <2>1, ConfigFacts DEF GoodConfigs
  <2> QED
    BY <2>1, <2>2
<1>4. q = [g EXCEPT !.epoch = now, !.configs = R, !.inv = i, !.accumulated = a]
  BY DEF Gauge!CheckpointGlobal, Gauge!GaugeState
<1> HIDE DEF q, a, i, R
<1>5. /\ q \in Gauge!GaugeState /\ q.epoch = now /\ q.configs = R
      /\ q.inv = i /\ q.accumulated = a
      /\ q.claimed = g.claimed /\ q.user = g.user /\ q.bal = g.bal
  BY <1>1, <1>2, <1>4 DEF Gauge!GaugeState
<1>6. GoodConfigs(q, n)
  BY <1>2, <1>3, <1>5 DEF GoodConfigs
<1> QED
  BY <1>5, <1>6 DEF q, a, i, R

\* A checkpoint moves what it generates from the stream to what is accumulated.
LEMMA UnstreamedSplit ==
    ASSUME NEW g \in Gauge!GaugeState, NEW n, GoodConfigs(g, n), NEW now \in Nat,
           g.epoch <= now, NEW ws \in Nat
    PROVE  Gauge!Unstreamed(g) = Gauge!Generated(g, now)
                + Gauge!Unstreamed(Gauge!CheckpointGlobal(g, now, ws))
<1> DEFINE q == Gauge!CheckpointGlobal(g, now, ws)
           C == g.configs
           S == Gauge!Started(g, now)
           gen == [c \in S |-> Gauge!GeneratedTokens(g, c, now)]
           genAll == [c \in C |-> IF c \in S THEN Gauge!GeneratedTokens(g, c, now) ELSE 0]
           restAll == [c \in C |-> IF c \in q.configs THEN Rest(q)[c] ELSE 0]
<1>1. /\ q \in Gauge!GaugeState /\ GoodConfigs(q, n) /\ q.epoch = now
      /\ q.configs = Gauge!Remaining(g, now) /\ q.configs \in SUBSET C
  BY GlobalConfigs DEF Gauge!Remaining
<1>2. /\ Rest(g) \in [C -> Int] /\ Gauge!Unstreamed(g) = SumFunctionOnSet(Rest(g), C)
      /\ Rest(q) \in [q.configs -> Int]
      /\ Gauge!Unstreamed(q) = SumFunctionOnSet(Rest(q), q.configs)
  BY <1>1, RestFacts
<1> HIDE DEF q
<1>3. S \in SUBSET C /\ IsFiniteSet(C) /\ \A c \in C : c \in S <=> c.startAt <= now
  BY DEF Gauge!Started, GoodConfigs
<1>4. \A c \in S : Gauge!GeneratedTokens(g, c, now) \in Nat
  BY <1>3, ConfigFacts
<1>5. gen \in [S -> Int] /\ genAll \in [C -> Int] /\ restAll \in [C -> Int]
  BY <1>1, <1>2, <1>4
<1>6. \A c \in C : Rest(g)[c] = genAll[c] + restAll[c]
  <2> SUFFICES ASSUME NEW c \in C PROVE Rest(g)[c] = genAll[c] + restAll[c]
    OBVIOUS
  <2> DEFINE x == Gauge!RewardStart(g, c)
             e == c.expiredAt
             b == c.startAt
  <2>1. /\ b \in Nat /\ e \in Nat /\ c.tps \in Nat /\ b < e
        /\ g.epoch \in Nat /\ g.epoch < e /\ x \in Nat
        /\ x = IF b < g.epoch THEN g.epoch ELSE b
    BY ConfigFacts DEF Gauge!RewardStart
  <2>2. Rest(g)[c] = (e - x) * c.tps
    BY DEF Rest
  <2>3. c \in q.configs <=> b > now \/ e > now
    BY <1>1 DEF Gauge!Remaining
  <2>4. c \in q.configs => Rest(q)[c] = (e - IF b < now THEN now ELSE b) * c.tps
    BY <1>1 DEF Rest, Gauge!RewardStart
  <2>5. c \in S => genAll[c] = ((IF e > now THEN now ELSE e) - x) * c.tps
    BY DEF Gauge!GeneratedTokens, Gauge!RewardEnd
  <2>6. CASE b > now
    <3>1. c \notin S /\ x = b /\ genAll[c] = 0
      BY <1>3, <2>1, <2>6
    <3>2. restAll[c] = (e - b) * c.tps
      BY <2>1, <2>3, <2>4, <2>6
    <3>3. (e - b) * c.tps \in Int
      BY <2>1
    <3> HIDE DEF genAll, restAll
    <3> QED
      BY <2>2, <3>1, <3>2, <3>3
  <2>7. CASE b <= now /\ e <= now
    <3>1. c \in S /\ genAll[c] = (e - x) * c.tps
      BY <1>3, <2>1, <2>5, <2>7
    <3>2. restAll[c] = 0
      BY <2>1, <2>3, <2>7
    <3>3. (e - x) * c.tps \in Int
      BY <2>1
    <3> HIDE DEF genAll, restAll
    <3> QED
      BY <2>2, <3>1, <3>2, <3>3
  <2>8. CASE b <= now /\ e > now
    <3>1. c \in S /\ genAll[c] = (now - x) * c.tps
      BY <1>3, <2>1, <2>5, <2>8
    <3>2. restAll[c] = (e - now) * c.tps
      BY <2>1, <2>3, <2>4, <2>8
    <3>3. (e - x) * c.tps = (now - x) * c.tps + (e - now) * c.tps
      <4> HIDE DEF x, e, b
      <4> QED BY <2>1
    <3> HIDE DEF genAll, restAll
    <3> QED
      BY <2>2, <3>1, <3>2, <3>3
  <2> QED
    BY <2>1, <2>6, <2>7, <2>8
<1>7. SumFunctionOnSet(Rest(g), C) = SumFunctionOnSet(genAll, C) + SumFunctionOnSet(restAll, C)
  <2> HIDE DEF genAll, restAll
  <2> QED BY <1>2, <1>3, <1>5, <1>6, SumPlus
<1>8. SumFunctionOnSet(genAll, C) = SumFunctionOnSet(gen, S)
  <2>1. (\A c \in S : genAll[c] = gen[c]) /\ \A c \in C \ S : genAll[c] = 0
    BY <1>3
  <2> HIDE DEF genAll, gen, S
  <2> QED
    BY <1>3, <1>5, <2>1, SumPart
<1>9. SumFunctionOnSet(restAll, C) = SumFunctionOnSet(Rest(q), q.configs)
  <2>1. (\A c \in q.configs : restAll[c] = Rest(q)[c])
        /\ \A c \in C \ q.configs : restAll[c] = 0
    BY <1>1
  <2> HIDE DEF restAll
  <2> QED
    BY <1>1, <1>2, <1>3, <1>5, <2>1, SumPart
<1>10. Gauge!Generated(g, now) = SumFunctionOnSet(gen, S)
  <2>1. Gauge!Generated(g, now) = Gauge!SumFunctionOnSet(gen, S)
    BY DEF Gauge!Generated
  <2> HIDE DEF gen, S
  <2> QED
    BY <1>5, <2>1, SameSum
<1> HIDE DEF gen, genAll, restAll, S, C
<1> QED
  BY <1>2, <1>7, <1>8, <1>9, <1>10 DEF q

\* The types of the gauge's numbers.
LEMMA GaugeTypes ==
    ASSUME NEW g \in Gauge!GaugeState
    PROVE  /\ g.epoch \in Nat /\ g.inv \in Nat /\ g.accumulated \in Nat
           /\ g.claimed \in Nat /\ g.bal \in Nat
           /\ \A u \in Users : /\ g.user[u] \in Gauge!UserRewardData
                               /\ g.user[u].epoch \in Nat /\ g.user[u].lastInv \in Nat
                               /\ g.user[u].toClaim \in Nat
BY DEF Gauge!GaugeState, Gauge!UserRewardData

LEMMA PotFacts ==
    ASSUME NEW g \in Gauge!GaugeState, GoodUsers(g), NEW w \in [Users -> Nat]
    PROVE  /\ GaugePots(g, w) \in [Users -> Nat] /\ GaugePots(g, w) \in [Users -> Int]
           /\ SumFunctionOnSet(GaugePots(g, w), Users) \in Nat
           /\ \A u \in Users : /\ RewardPrecision * g.user[u].toClaim \in Nat
                               /\ g.inv - g.user[u].lastInv \in Nat
                               /\ (g.inv - g.user[u].lastInv) * w[u] \in Nat
<1>1. ASSUME NEW u \in Users
      PROVE  /\ RewardPrecision * g.user[u].toClaim \in Nat
             /\ g.inv - g.user[u].lastInv \in Nat
             /\ (g.inv - g.user[u].lastInv) * w[u] \in Nat
  <2>1. /\ g.inv \in Nat /\ g.user[u].lastInv \in Nat /\ g.user[u].toClaim \in Nat
        /\ g.user[u].lastInv <= g.inv /\ w[u] \in Nat
    BY GaugeTypes DEF GoodUsers
  <2>2. g.inv - g.user[u].lastInv \in Nat
    BY <2>1
  <2> QED
    BY <2>1, <2>2, MulNat, RewardPrecisionAssumption
<1>2. GaugePots(g, w) \in [Users -> Nat] /\ GaugePots(g, w) \in [Users -> Int]
  BY <1>1 DEF GaugePots
<1>3. SumFunctionOnSet(GaugePots(g, w), Users) \in Nat
  BY <1>2, SumNat, UsersAssumption
<1> QED
  BY <1>1, <1>2, <1>3

\* checkpoint_global keeps the books, and the cover of everybody's pot as long
\* as the supply it is told is the sum of the working balances.
LEMMA GlobalFacts ==
    ASSUME NEW g, NEW now \in Nat, NEW n, GoodGauge(g, now, n), NEW ws \in Nat
    PROVE  /\ GoodGauge(Gauge!CheckpointGlobal(g, now, ws), now, n)
           /\ Gauge!CheckpointGlobal(g, now, ws).epoch = now
           /\ \A w \in [Users -> Nat] :
                ws = SumFunctionOnSet(w, Users) /\ GaugeCovered(g, w)
                    => GaugeCovered(Gauge!CheckpointGlobal(g, now, ws), w)
<1> DEFINE q == Gauge!CheckpointGlobal(g, now, ws)
           made == Gauge!Generated(g, now)
           step == Gauge!RewardPerShare(g, now, ws)
<1>1. g \in Gauge!GaugeState /\ g.epoch <= now /\ GoodConfigs(g, n) /\ GoodUsers(g) /\ Funded(g)
  BY DEF GoodGauge
<1>2. /\ q \in Gauge!GaugeState /\ GoodConfigs(q, n) /\ q.epoch = now
      /\ q.inv = g.inv + step /\ q.accumulated = g.accumulated + made
      /\ q.claimed = g.claimed /\ q.user = g.user /\ q.bal = g.bal
  BY <1>1, GlobalConfigs
<1>3. /\ made \in Nat /\ step \in Nat /\ step * ws <= RewardPrecision * made
      /\ g.epoch = now => step = 0
  BY <1>1, GeneratedFacts
<1>4. Gauge!Unstreamed(g) = made + Gauge!Unstreamed(q)
  BY <1>1, UnstreamedSplit
<1>5. Gauge!Unstreamed(g) \in Nat /\ Gauge!Unstreamed(q) \in Nat
  BY <1>1, <1>2, RestFacts
<1> HIDE DEF q, made, step
<1>6. Funded(q)
  BY <1>1, <1>2, <1>3, <1>4, <1>5, GaugeTypes DEF Funded
<1>7. GoodUsers(q)
  <2> SUFFICES ASSUME NEW u \in Users
               PROVE  /\ q.user[u].lastInv <= q.inv
                      /\ q.user[u].epoch <= q.epoch
                      /\ q.user[u].epoch = q.epoch => q.user[u].lastInv = q.inv
    BY DEF GoodUsers
  <2>1. /\ g.user[u].lastInv <= g.inv /\ g.user[u].epoch <= g.epoch
        /\ g.user[u].epoch = g.epoch => g.user[u].lastInv = g.inv
    BY <1>1 DEF GoodUsers
  <2>2. /\ g.user[u].lastInv \in Nat /\ g.inv \in Nat /\ g.user[u].epoch \in Nat
        /\ g.epoch \in Nat
    BY <1>1, GaugeTypes
  <2> QED
    BY <1>1, <1>2, <1>3, <2>1, <2>2
<1>8. GoodGauge(q, now, n)
  BY <1>2, <1>6, <1>7 DEF GoodGauge
<1>9. ASSUME NEW w \in [Users -> Nat], ws = SumFunctionOnSet(w, Users), GaugeCovered(g, w)
      PROVE  GaugeCovered(q, w)
  <2> DEFINE a == SumFunctionOnSet(GaugePots(g, w), Users)
             b == SumFunctionOnSet(GaugePots(q, w), Users)
  <2>1. /\ GaugePots(g, w) \in [Users -> Int] /\ GaugePots(q, w) \in [Users -> Int]
        /\ a \in Nat /\ b \in Nat /\ w \in [Users -> Int]
    BY <1>1, <1>2, <1>7, PotFacts
  <2>2. ASSUME NEW u \in Users PROVE GaugePots(q, w)[u] <= GaugePots(g, w)[u] + step * w[u]
    <3> DEFINE x == RewardPrecision * g.user[u].toClaim
               l == g.user[u].lastInv
    <3>1. x \in Nat /\ l \in Nat /\ g.inv \in Nat /\ w[u] \in Nat
      BY <1>1, GaugeTypes, PotFacts
    <3>2. /\ GaugePots(g, w)[u] = x + (g.inv - l) * w[u]
          /\ GaugePots(q, w)[u] = x + (g.inv + step - l) * w[u]
      <4>1. /\ GaugePots(g, w)[u] = x + (g.inv - l) * w[u]
            /\ GaugePots(q, w)[u] = RewardPrecision * q.user[u].toClaim
                                      + (q.inv - q.user[u].lastInv) * w[u]
        BY DEF GaugePots
      <4>2. q.user[u] = g.user[u] /\ q.inv = g.inv + step
        BY <1>2
      <4>3. q.inv - q.user[u].lastInv = g.inv + step - l
        BY <1>3, <3>1, <4>2
      <4>4. RewardPrecision * q.user[u].toClaim = x
        BY <1>3, <3>1, <4>2
      <4> HIDE DEF x, l
      <4> QED
        BY <4>1, <4>3, <4>4
    <3> HIDE DEF x, l
    <3>3. (g.inv + step - l) * w[u] = (g.inv - l) * w[u] + step * w[u]
      BY <1>3, <3>1
    <3>4. (g.inv - l) * w[u] \in Int /\ step * w[u] \in Int
      BY <1>3, <3>1
    <3> QED
      BY <3>1, <3>2, <3>3, <3>4
  <2>3. b <= a + step * ws
    <3>1. \A u \in Users : GaugePots(q, w)[u] <= GaugePots(g, w)[u] + step * w[u]
      BY <2>2
    <3>2. step \in Int /\ Users \in SUBSET Users
      BY <1>3
    <3> QED
      BY <1>9, <2>1, <3>1, <3>2, SumGrowth, UsersAssumption
  <2>4. RewardPrecision * q.accumulated = RewardPrecision * g.accumulated + RewardPrecision * made
    BY <1>1, <1>2, <1>3, GaugeTypes, RewardPrecisionAssumption
  <2>5. /\ RewardPrecision * g.accumulated \in Int /\ RewardPrecision * made \in Int
        /\ RewardPrecision * g.claimed \in Int /\ step * ws \in Int
    BY <1>1, <1>3, GaugeTypes, RewardPrecisionAssumption
  <2>6. RewardPrecision * g.claimed + a <= RewardPrecision * g.accumulated
    BY <1>9 DEF GaugeCovered
  <2> HIDE DEF a, b
  <2>7. RewardPrecision * g.claimed + b <= RewardPrecision * q.accumulated
    BY <1>3, <2>1, <2>3, <2>4, <2>5, <2>6
  <2> QED
    BY <1>2, <2>7 DEF GaugeCovered, b
<1> QED
  BY <1>2, <1>8, <1>9 DEF q

\* What a user is paid never exceeds his pot.
LEMMA SettleFacts ==
    ASSUME NEW g, NEW now \in Nat, NEW n, GoodGauge(g, now, n),
           NEW u \in Users, NEW balance \in Nat
    PROVE  /\ GoodGauge(Gauge!SettleUser(g, u, balance), now, n)
           /\ Gauge!SettleUser(g, u, balance).inv = g.inv
           /\ Gauge!SettleUser(g, u, balance).user[u].lastInv = g.inv
           /\ RewardPrecision * Gauge!SettleUser(g, u, balance).user[u].toClaim
                <= RewardPrecision * g.user[u].toClaim
                     + (g.inv - g.user[u].lastInv) * balance
           /\ \A w \in [Users -> Nat] : w[u] = balance /\ GaugeCovered(g, w)
                    => GaugeCovered(Gauge!SettleUser(g, u, balance), w)
<1> DEFINE d == g.user[u]
           due == IF balance = 0 THEN 0
                  ELSE (balance * (g.inv - d.lastInv)) \div RewardPrecision
           e == [epoch |-> g.epoch, lastInv |-> g.inv, toClaim |-> d.toClaim + due]
           f == [g.user EXCEPT ![u] = e]
           q == [g EXCEPT !.user = f]
<1>1. g \in Gauge!GaugeState /\ g.epoch <= now /\ GoodConfigs(g, n) /\ GoodUsers(g) /\ Funded(g)
  BY DEF GoodGauge
<1>2. /\ d.lastInv \in Nat /\ d.epoch \in Nat /\ d.toClaim \in Nat
      /\ g.epoch \in Nat /\ g.inv \in Nat /\ d.lastInv <= g.inv
      /\ g.inv - d.lastInv \in Nat /\ RewardPrecision \in Nat \ {0}
      /\ d.epoch = g.epoch => d.lastInv = g.inv
  BY <1>1, GaugeTypes, RewardPrecisionAssumption DEF GoodUsers
<1>3. Gauge!SettleUser(g, u, balance) = IF d.epoch = g.epoch THEN g ELSE q
  BY <1>1 DEF Gauge!SettleUser, Gauge!GaugeState
<1>4. due \in Nat /\ RewardPrecision * due <= (g.inv - d.lastInv) * balance
  <2>1. balance * (g.inv - d.lastInv) \in Nat
    BY <1>2, MulNat
  <2>2. balance * (g.inv - d.lastInv) = (g.inv - d.lastInv) * balance
    BY <1>2
  <2>3. CASE balance = 0
    BY <1>2, <2>3
  <2>4. CASE balance # 0
    <3> DEFINE x == (balance * (g.inv - d.lastInv)) \div RewardPrecision
    <3>1. x \in Nat /\ x * RewardPrecision <= balance * (g.inv - d.lastInv)
      BY <1>2, <2>1, DivFacts
    <3>2. due = x
      BY <2>4
    <3> HIDE DEF due, x
    <3>3. x * RewardPrecision = RewardPrecision * x
      BY <1>2, <3>1
    <3> QED
      BY <2>2, <3>1, <3>2, <3>3
  <2> QED
    BY <2>3, <2>4
<1> HIDE DEF due
<1>5. /\ f \in [Users -> Gauge!UserRewardData]
      /\ f[u] = e /\ \A v \in Users : v # u => f[v] = g.user[v]
  <2>1. e \in Gauge!UserRewardData /\ g.user \in [Users -> Gauge!UserRewardData]
    BY <1>1, <1>2, <1>4 DEF Gauge!UserRewardData, Gauge!GaugeState
  <2> HIDE DEF e
  <2> QED
    BY <2>1
<1> HIDE DEF f
<1>6. /\ q \in Gauge!GaugeState /\ q.user = f /\ q.configs = g.configs
      /\ q.epoch = g.epoch /\ q.inv = g.inv /\ q.accumulated = g.accumulated
      /\ q.claimed = g.claimed /\ q.bal = g.bal
  BY <1>1, <1>5 DEF Gauge!GaugeState
<1> HIDE DEF q
<1>7. Gauge!Unstreamed(q) = Gauge!Unstreamed(g)
  BY <1>6 DEF Gauge!Unstreamed, Gauge!RewardStart
<1>8. GoodUsers(q)
  BY <1>1, <1>2, <1>5, <1>6 DEF GoodUsers
<1>9. GoodGauge(q, now, n)
  BY <1>1, <1>6, <1>7, <1>8 DEF GoodGauge, GoodConfigs, Funded
<1>10. RewardPrecision * e.toClaim
         <= RewardPrecision * d.toClaim + (g.inv - d.lastInv) * balance
  <2>1. RewardPrecision * e.toClaim = RewardPrecision * d.toClaim + RewardPrecision * due
    BY <1>2, <1>4
  <2>2. /\ RewardPrecision * d.toClaim \in Int /\ RewardPrecision * due \in Int
        /\ (g.inv - d.lastInv) * balance \in Int
    BY <1>2, <1>4
  <2> HIDE DEF e, d
  <2> QED
    BY <1>4, <2>1, <2>2
<1>11. ASSUME NEW w \in [Users -> Nat], w[u] = balance, GaugeCovered(g, w)
       PROVE  GaugeCovered(q, w)
  <2> DEFINE a == SumFunctionOnSet(GaugePots(g, w), Users)
             b == SumFunctionOnSet(GaugePots(q, w), Users)
  <2>1. /\ GaugePots(g, w) \in [Users -> Int] /\ GaugePots(q, w) \in [Users -> Int]
        /\ a \in Nat /\ b \in Nat
    BY <1>1, <1>6, <1>8, PotFacts
  <2>2. /\ \A v \in Users \ {u} : GaugePots(g, w)[v] = GaugePots(q, w)[v]
        /\ GaugePots(g, w)[u] = RewardPrecision * d.toClaim + (g.inv - d.lastInv) * balance
        /\ GaugePots(q, w)[u] = RewardPrecision * e.toClaim + (g.inv - g.inv) * balance
    BY <1>5, <1>6, <1>11 DEF GaugePots
  <2>3. GaugePots(q, w)[u] <= GaugePots(g, w)[u]
    <3>1. (g.inv - g.inv) * balance = 0 /\ RewardPrecision * e.toClaim \in Int
      BY <1>2, <1>4
    <3> HIDE DEF e, d
    <3> QED
      BY <1>10, <2>2, <3>1
  <2>4. b = a + GaugePots(q, w)[u] - GaugePots(g, w)[u]
    BY <2>1, <2>2, SumChange, UsersAssumption
  <2>5. /\ RewardPrecision * g.accumulated \in Int /\ RewardPrecision * g.claimed \in Int
        /\ GaugePots(q, w)[u] \in Int /\ GaugePots(g, w)[u] \in Int
    BY <1>1, <2>1, GaugeTypes, RewardPrecisionAssumption
  <2>6. RewardPrecision * g.claimed + a <= RewardPrecision * g.accumulated
    BY <1>11 DEF GaugeCovered
  <2> HIDE DEF a, b
  <2>7. RewardPrecision * g.claimed + b <= RewardPrecision * g.accumulated
    BY <2>1, <2>3, <2>4, <2>5, <2>6
  <2> QED
    BY <1>6, <2>7 DEF GaugeCovered, b
<1>12. CASE d.epoch = g.epoch
  <2>1. RewardPrecision * d.toClaim \in Int /\ (g.inv - d.lastInv) * balance \in Nat
    BY <1>2, MulNat
  <2>2. RewardPrecision * d.toClaim <= RewardPrecision * d.toClaim + (g.inv - d.lastInv) * balance
    <3> HIDE DEF d
    <3> QED BY <2>1
  <2> QED
    BY <1>2, <1>3, <1>12, <2>2
<1>13. CASE d.epoch # g.epoch
  <2>1. q.user[u].lastInv = g.inv /\ q.user[u].toClaim = e.toClaim
    BY <1>5, <1>6
  <2> QED
    BY <1>3, <1>6, <1>9, <1>10, <1>11, <1>13, <2>1
<1> QED
  BY <1>12, <1>13

\* checkpoint_user of the contract.
LEMMA CheckpointGaugeFacts ==
    ASSUME NEW g, NEW now \in Nat, NEW n, GoodGauge(g, now, n),
           NEW u \in Users, NEW balance \in Nat, NEW ws \in Nat
    PROVE  LET q == Gauge!CheckpointUser(g, now, u, balance, ws)
           IN /\ GoodGauge(q, now, n)
              /\ AtIndex(q, u)
              /\ \A w \in [Users -> Nat] :
                    ws = SumFunctionOnSet(w, Users) /\ w[u] = balance /\ GaugeCovered(g, w)
                        => GaugeCovered(q, w)
<1> DEFINE m == Gauge!CheckpointGlobal(g, now, ws)
           q == Gauge!SettleUser(m, u, balance)
<1>1. /\ GoodGauge(m, now, n)
      /\ \A w \in [Users -> Nat] :
            ws = SumFunctionOnSet(w, Users) /\ GaugeCovered(g, w) => GaugeCovered(m, w)
  BY GlobalFacts
<1> HIDE DEF m
<1>2. /\ GoodGauge(q, now, n) /\ q.inv = m.inv /\ q.user[u].lastInv = m.inv
      /\ \A w \in [Users -> Nat] : w[u] = balance /\ GaugeCovered(m, w) => GaugeCovered(q, w)
  BY <1>1, SettleFacts
<1>3. Gauge!CheckpointUser(g, now, u, balance, ws) = q
  BY DEF Gauge!CheckpointUser, m
<1> HIDE DEF q
<1>4. AtIndex(q, u)
  BY <1>2 DEF AtIndex
<1> QED
  BY <1>1, <1>2, <1>3, <1>4

\* The cap of claim: what is transferred was accumulated and not claimed.
LEMMA TransferFacts ==
    ASSUME NEW g \in Gauge!GaugeState, Funded(g), NEW u \in Users
    PROVE  /\ Gauge!TransferAmount(g, u) \in Nat
           /\ Gauge!TransferAmount(g, u) <= g.user[u].toClaim
           /\ Gauge!TransferAmount(g, u) <= g.accumulated - g.claimed
BY GaugeTypes DEF Funded, Gauge!TransferAmount

SameIndex(q, g) == q.inv = g.inv

LEMMA PayFacts ==
    ASSUME NEW g, NEW now \in Nat, NEW n, GoodGauge(g, now, n), NEW u \in Users
    PROVE  /\ GoodGauge(Gauge!Pay(g, u), now, n)
           /\ SameIndex(Gauge!Pay(g, u), g)
           /\ \A w \in [Users -> Nat] : GaugeCovered(g, w) => GaugeCovered(Gauge!Pay(g, u), w)
<1> DEFINE n0 == Gauge!TransferAmount(g, u)
           f == [g.user EXCEPT ![u].toClaim = 0]
           c == g.claimed + n0
           b == g.bal - n0
           q == [g EXCEPT !.claimed = c, !.user = f, !.bal = b]
<1>1. g \in Gauge!GaugeState /\ g.epoch <= now /\ GoodConfigs(g, n) /\ GoodUsers(g) /\ Funded(g)
  BY DEF GoodGauge
<1>2. /\ n0 \in Nat /\ n0 <= g.user[u].toClaim /\ n0 <= g.accumulated - g.claimed
  BY <1>1, TransferFacts
<1>3. /\ g.claimed \in Nat /\ g.bal \in Nat /\ g.accumulated \in Nat
      /\ Gauge!Unstreamed(g) \in Nat
      /\ g.claimed <= g.accumulated
      /\ g.bal = g.accumulated - g.claimed + Gauge!Unstreamed(g)
  BY <1>1, GaugeTypes, RestFacts DEF Funded
<1>4. Gauge!Pay(g, u) = q
  BY <1>1 DEF Gauge!Pay, Gauge!GaugeState
<1> HIDE DEF n0
<1>5. /\ c \in Nat /\ b \in Nat /\ c <= g.accumulated
      /\ b = g.accumulated - c + Gauge!Unstreamed(g)
  BY <1>2, <1>3
<1>6. /\ f \in [Users -> Gauge!UserRewardData]
      /\ \A v \in Users : f[v].lastInv = g.user[v].lastInv /\ f[v].epoch = g.user[v].epoch
      /\ f[u].toClaim = 0 /\ \A v \in Users : v # u => f[v] = g.user[v]
  BY <1>1 DEF Gauge!UserRewardData, Gauge!GaugeState
<1> HIDE DEF f
<1>7. /\ q \in Gauge!GaugeState /\ q.user = f /\ q.configs = g.configs
      /\ q.epoch = g.epoch /\ q.inv = g.inv /\ q.accumulated = g.accumulated
      /\ q.claimed = c /\ q.bal = b
  BY <1>1, <1>5, <1>6 DEF Gauge!GaugeState
<1> HIDE DEF q, b
<1>8. Gauge!Unstreamed(q) = Gauge!Unstreamed(g)
  BY <1>7 DEF Gauge!Unstreamed, Gauge!RewardStart
<1>9. GoodUsers(q)
  BY <1>1, <1>6, <1>7 DEF GoodUsers
<1>10. GoodGauge(q, now, n)
  BY <1>1, <1>5, <1>7, <1>8, <1>9 DEF GoodGauge, GoodConfigs, Funded
<1>11. ASSUME NEW w \in [Users -> Nat], GaugeCovered(g, w) PROVE GaugeCovered(q, w)
  <2> DEFINE x == SumFunctionOnSet(GaugePots(g, w), Users)
             y == SumFunctionOnSet(GaugePots(q, w), Users)
             k == RewardPrecision * g.user[u].toClaim
             z == (g.inv - g.user[u].lastInv) * w[u]
  <2>1. /\ GaugePots(g, w) \in [Users -> Int] /\ GaugePots(q, w) \in [Users -> Int]
        /\ x \in Nat /\ y \in Nat /\ k \in Nat /\ z \in Nat
    BY <1>1, <1>7, <1>9, PotFacts
  <2>2. \A v \in Users \ {u} : GaugePots(g, w)[v] = GaugePots(q, w)[v]
    BY <1>6, <1>7 DEF GaugePots
  <2>3. GaugePots(g, w)[u] = k + z /\ GaugePots(q, w)[u] = z
    <3>1. GaugePots(g, w)[u] = k + z /\ GaugePots(q, w)[u] = RewardPrecision * 0 + z
      BY <1>6, <1>7 DEF GaugePots
    <3>2. RewardPrecision * 0 = 0
      BY RewardPrecisionAssumption
    <3> HIDE DEF z, k
    <3> QED
      BY <2>1, <3>1, <3>2
  <2>4. y = x + GaugePots(q, w)[u] - GaugePots(g, w)[u]
    BY <2>1, <2>2, SumChange, UsersAssumption
  <2>5. RewardPrecision * n0 <= k
    <3> DEFINE due == g.user[u].toClaim
    <3>1. n0 \in Nat /\ due \in Nat /\ n0 <= due /\ RewardPrecision \in Nat
      BY <1>1, <1>2, GaugeTypes, RewardPrecisionAssumption
    <3>2. k = RewardPrecision * due
      OBVIOUS
    <3> HIDE DEF k, due
    <3>3. RewardPrecision * n0 <= RewardPrecision * due
      BY <3>1, MulMono
    <3> QED
      BY <3>2, <3>3
  <2>6. /\ RewardPrecision * c = RewardPrecision * g.claimed + RewardPrecision * n0
        /\ RewardPrecision * g.accumulated \in Int /\ RewardPrecision * g.claimed \in Int
        /\ RewardPrecision * n0 \in Int
    BY <1>2, <1>3, RewardPrecisionAssumption
  <2>7. RewardPrecision * g.claimed + x <= RewardPrecision * g.accumulated
    BY <1>11 DEF GaugeCovered
  <2> HIDE DEF x, y, k, z, c
  <2>8. RewardPrecision * c + y <= RewardPrecision * g.accumulated
    BY <2>1, <2>3, <2>4, <2>5, <2>6, <2>7
  <2> QED
    BY <1>7, <2>8 DEF GaugeCovered, y
<1>12. SameIndex(q, g)
  BY <1>7 DEF SameIndex
<1> QED
  BY <1>4, <1>10, <1>11, <1>12

\* A new configuration is paid for in full before it streams anything.
LEMMA ScheduleFacts ==
    ASSUME NEW g, NEW now \in Nat, NEW n \in Nat, GoodGauge(g, now, n),
           NEW startAt \in Nat, NEW duration \in Nat, NEW tps \in Nat, NEW ws \in Nat,
           Gauge!ConfigAccepted(g, now, startAt, duration, tps)
    PROVE  LET q == Gauge!ScheduleRewardsConfig(g, n, now, startAt, duration, tps, ws)
           IN /\ GoodGauge(q, now, n + 1)
              /\ \A w \in [Users -> Nat] :
                    ws = SumFunctionOnSet(w, Users) /\ GaugeCovered(g, w)
                        => GaugeCovered(q, w)
<1> DEFINE m == Gauge!CheckpointGlobal(g, now, ws)
           c == [id |-> n, startAt |-> startAt, expiredAt |-> startAt + duration, tps |-> tps]
           b == m.bal + tps * duration
           cs == m.configs \cup {c}
           q == [m EXCEPT !.bal = b, !.configs = cs]
<1>1. /\ GoodGauge(m, now, n) /\ m.epoch = now
      /\ \A w \in [Users -> Nat] :
            ws = SumFunctionOnSet(w, Users) /\ GaugeCovered(g, w) => GaugeCovered(m, w)
  BY GlobalFacts
<1>2. Gauge!ScheduleRewardsConfig(g, n, now, startAt, duration, tps, ws) = q
  BY <1>1 DEF Gauge!ScheduleRewardsConfig, GoodGauge, Gauge!GaugeState
<1> HIDE DEF m
<1>3. startAt >= now /\ duration > 0
  BY DEF Gauge!ConfigAccepted
<1>4. /\ m \in Gauge!GaugeState /\ GoodConfigs(m, n) /\ GoodUsers(m) /\ Funded(m)
      /\ m.bal \in Nat /\ m.accumulated \in Nat /\ m.claimed \in Nat
  BY <1>1, GaugeTypes DEF GoodGauge
<1>5. /\ c.id = n /\ c.startAt = startAt /\ c.expiredAt = startAt + duration /\ c.tps = tps
      /\ c \in Gauge!RewardConfig
  BY DEF Gauge!RewardConfig
<1> HIDE DEF c
<1>6. c \notin m.configs
  <2> SUFFICES ASSUME c \in m.configs PROVE FALSE
    OBVIOUS
  <2>1. n < n
    BY <1>4, <1>5 DEF GoodConfigs
  <2> QED
    BY <2>1
<1>7. IsFiniteSet(cs) /\ cs \in SUBSET Gauge!RewardConfig
  BY <1>4, <1>5, FS_AddElement DEF GoodConfigs, Gauge!GaugeState
<1>8. tps * duration \in Nat /\ b \in Nat
  BY <1>4, MulNat
<1> HIDE DEF b
<1>9. /\ q \in Gauge!GaugeState /\ q.configs = cs /\ q.bal = b
      /\ q.epoch = m.epoch /\ q.inv = m.inv /\ q.accumulated = m.accumulated
      /\ q.claimed = m.claimed /\ q.user = m.user
  BY <1>4, <1>7, <1>8 DEF Gauge!GaugeState
<1> HIDE DEF q, cs
<1>10. GoodConfigs(q, n + 1)
  <2> SUFFICES ASSUME NEW d \in q.configs
               PROVE  d.id < n + 1 /\ d.startAt < d.expiredAt /\ q.epoch < d.expiredAt
    BY <1>7, <1>9 DEF GoodConfigs
  <2>1. CASE d = c
    BY <1>1, <1>3, <1>5, <1>9, <2>1
  <2>2. CASE d \in m.configs
    <3>1. d.id \in Nat /\ d.id < n /\ d.startAt < d.expiredAt /\ m.epoch < d.expiredAt
      BY <1>4, <2>2 DEF GoodConfigs, Gauge!GaugeState, Gauge!RewardConfig
    <3> QED
      BY <1>9, <3>1
  <2> QED
    BY <1>9, <2>1, <2>2 DEF cs
<1>11. Gauge!Unstreamed(q) = Gauge!Unstreamed(m) + tps * duration
  <2>1. /\ Rest(m) \in [m.configs -> Int]
        /\ Gauge!Unstreamed(m) = SumFunctionOnSet(Rest(m), m.configs)
        /\ Rest(q) \in [q.configs -> Int]
        /\ Gauge!Unstreamed(q) = SumFunctionOnSet(Rest(q), q.configs)
    BY <1>4, <1>9, <1>10, RestFacts
  <2>2. q.configs = m.configs \cup {c} /\ c \in q.configs /\ m.configs \in SUBSET q.configs
        /\ m.configs \in SUBSET m.configs /\ IsFiniteSet(m.configs)
    BY <1>4, <1>9 DEF cs, GoodConfigs
  <2>3. \A d \in m.configs : Rest(q)[d] = Rest(m)[d]
    BY <1>9, <2>2 DEF Rest, Gauge!RewardStart
  <2>4. SumFunctionOnSet(Rest(q), m.configs \cup {c})
          = SumFunctionOnSet(Rest(m), m.configs) + Rest(q)[c]
    BY <1>6, <2>1, <2>2, <2>3, SumAdd
  <2>5. Rest(q)[c] = tps * duration
    <3>1. Gauge!RewardStart(q, c) = startAt
      BY <1>1, <1>3, <1>5, <1>9 DEF Gauge!RewardStart
    <3>2. Rest(q)[c] = (c.expiredAt - Gauge!RewardStart(q, c)) * c.tps
      BY <2>2 DEF Rest
    <3>3. Rest(q)[c] = (startAt + duration - startAt) * tps
      BY <1>5, <3>1, <3>2
    <3> QED
      BY <3>3
  <2> QED
    BY <2>1, <2>2, <2>4, <2>5
<1>12. Funded(q)
  <2>1. Gauge!Unstreamed(m) \in Nat /\ b = m.bal + tps * duration
    BY <1>4, RestFacts DEF b
  <2> QED
    BY <1>4, <1>8, <1>9, <1>11, <2>1 DEF Funded
<1>13. GoodUsers(q)
  BY <1>4, <1>9 DEF GoodUsers
<1>14. GoodGauge(q, now, n + 1)
  BY <1>1, <1>9, <1>10, <1>12, <1>13 DEF GoodGauge
<1>15. ASSUME NEW w \in [Users -> Nat], GaugeCovered(m, w) PROVE GaugeCovered(q, w)
  BY <1>9, <1>15 DEF GaugeCovered, GaugePots
<1> QED
  BY <1>1, <1>2, <1>14, <1>15 DEF q

-----------------------------------------------------------------------------
(* The calls of a transaction                                              *)

\* The working balance of a user the index has reached may change.
LEMMA ReadyCovered ==
    ASSUME NEW g \in Gauge!GaugeState, NEW u \in Users, AtIndex(g, u),
           NEW w \in [Users -> Nat], NEW x \in [Users -> Nat],
           \A v \in Users : v # u => x[v] = w[v], GaugeCovered(g, w)
    PROVE  GaugeCovered(g, x)
<1>1. GaugePots(g, x) = GaugePots(g, w)
  <2> SUFFICES ASSUME NEW v \in Users
               PROVE  (g.inv - g.user[v].lastInv) * x[v] = (g.inv - g.user[v].lastInv) * w[v]
    BY DEF GaugePots
  <2>1. CASE v = u
    <3>1. g.inv - g.user[v].lastInv = 0 /\ x[v] \in Nat /\ w[v] \in Nat
      BY <2>1, GaugeTypes DEF AtIndex
    <3> QED
      BY <3>1
  <2> QED
    BY <2>1
<1> QED
  BY <1>1 DEF GaugeCovered

LEMMA LockType ==
    ASSUME OtherTypes
    PROVE  lock \in [Users -> Nat] /\ TotalLocked \in Nat
BY SumNat, UsersAssumption DEF TotalLocked, OtherTypes

\* One more known user.
LEMMA KnownTwice ==
    ASSUME NEW r, NEW q, NEW p, NEW u, KnownFor(q, r, u), KnownFor(p, q, u)
    PROVE  KnownFor(p, r, u)
BY DEF KnownFor

\* When a new working balance reaches a state of the rewards that the index is
\* ready for.
LEMMA RewardsKeep ==
    ASSUME NEW s, StateOK(s), NEW u \in Users, Ready(s, u),
           NEW r, RewardsOK(r, shares, totalShares, ledger),
           \A v \in Users : v # u => r.wb[v] = s.rw.wb[v]
    PROVE  /\ StateOK([s EXCEPT !.rw = r]) /\ Ready([s EXCEPT !.rw = r], u)
           /\ [s EXCEPT !.rw = r].rw = r
<1> DEFINE q == [s EXCEPT !.rw = r]
<1>1. q = [rw |-> q.rw, gauge |-> q.gauge] /\ q.rw = r /\ q.gauge = s.gauge
  BY DEF StateOK
<1> HIDE DEF q
<1>2. /\ Working(s.rw) \in [Users -> Nat] /\ Working(r) \in [Users -> Nat]
      /\ \A v \in Users : v # u => Working(r)[v] = Working(s.rw)[v]
  BY WorkingType DEF Working, StateOK, RewardsOK
<1>3. ~detached => GaugeCovered(s.gauge, Working(r))
  BY <1>2, ReadyCovered DEF StateOK, Ready, GoodGauge
<1>4. StateOK(q) /\ Ready(q, u)
  BY <1>1, <1>3 DEF StateOK, Ready
<1> QED
  BY <1>1, <1>4 DEF q

\* operations::checkpoint_user of the pool.
LEMMA GaugeCheckpointKeeps ==
    ASSUME OtherTypes, NEW s, StateOK(s), NEW u \in Users,
           NEW total \in Nat, s.rw.ws = Unset => total = 0,
           NEW n \in Nat, s.rw.wb[u] = Unset => n = 0
    PROVE  LET q == CheckpointGauge(s, u, n, total)
           IN StateOK(q) /\ Ready(q, u) /\ KnownFor(q.rw, s.rw, u)
<1> DEFINE r == InitWorking(s.rw, u, total, n)
           w == Working(s.rw)
           h == Gauge!CheckpointUser(s.gauge, ledger, u, r.wb[u], r.ws)
           g == IF attached THEN h ELSE s.gauge
           q == [rw |-> r, gauge |-> g]
<1>1. /\ RewardsOK(s.rw, shares, totalShares, ledger)
      /\ s.rw \in RewardState /\ Balanced(s.rw)
      /\ GoodGauge(s.gauge, ledger, scheduled)
      /\ ~attached /\ ~detached => s.gauge.inv = 0
      /\ ~detached => GaugeCovered(s.gauge, w)
      /\ ledger \in Nat
  BY DEF StateOK, RewardsOK, OtherTypes
<1>2. /\ r \in RewardState /\ Balanced(r) /\ r.ws \in Nat /\ r.wb[u] \in Nat
      /\ \A v \in Users : v # u => r.wb[v] = s.rw.wb[v]
      /\ Working(r) = w /\ SameBut(r, s.rw)
  BY <1>1, InitWorkingFacts
<1>3. CheckpointGauge(s, u, n, total) = q
  BY DEF CheckpointGauge
<1> HIDE DEF r
<1>4. KnownFor(r, s.rw, u)
  BY <1>2 DEF KnownFor, Unset
<1>5. RewardsOK(r, shares, totalShares, ledger)
  BY <1>1, <1>2, <1>4 DEF RewardsOK, KnownFor, SameBut
<1>6. w \in [Users -> Nat] /\ w[u] = r.wb[u] /\ r.ws = SumFunctionOnSet(w, Users)
  <2>1. w[u] = r.wb[u] /\ r.ws = SumFunctionOnSet(Working(r), Users)
    BY <1>2 DEF Balanced, Stored, Working, Unset
  <2> QED
    BY <1>1, <1>2, <2>1, WorkingType
<1> HIDE DEF w
<1>7. /\ GoodGauge(h, ledger, scheduled) /\ AtIndex(h, u)
      /\ GaugeCovered(s.gauge, w) => GaugeCovered(h, w)
  <2>1. /\ GoodGauge(h, ledger, scheduled) /\ AtIndex(h, u)
        /\ \A x \in [Users -> Nat] :
              r.ws = SumFunctionOnSet(x, Users) /\ x[u] = r.wb[u] /\ GaugeCovered(s.gauge, x)
                  => GaugeCovered(h, x)
    BY <1>1, <1>2, CheckpointGaugeFacts
  <2> HIDE DEF h
  <2> QED
    BY <1>6, <2>1
<1> HIDE DEF h
<1>8. ~attached /\ ~detached => AtIndex(s.gauge, u)
  <2>1. s.gauge.user[u].lastInv <= s.gauge.inv /\ s.gauge.user[u].lastInv \in Nat
    BY <1>1, GaugeTypes DEF GoodGauge, GoodUsers
  <2> QED
    BY <1>1, <2>1 DEF AtIndex
<1>9. /\ GoodGauge(g, ledger, scheduled)
      /\ ~attached /\ ~detached => g.inv = 0
      /\ ~detached => GaugeCovered(g, w) /\ AtIndex(g, u)
  BY <1>1, <1>7, <1>8
<1> HIDE DEF g
<1>10. q.rw = r /\ q.gauge = g
  OBVIOUS
<1>11. StateOK(q)
  BY <1>2, <1>5, <1>9, <1>10 DEF StateOK
<1>12. Ready(q, u) /\ KnownFor(q.rw, s.rw, u)
  BY <1>4, <1>9, <1>10 DEF Ready
<1> QED
  BY <1>3, <1>11, <1>12

\* checkpoint_user of the rewards, after the gauge's.
LEMMA RewardsCheckpointKeeps ==
    ASSUME OtherTypes, NEW s, StateOK(s), NEW u \in Users, Ready(s, u),
           NEW total \in Nat, s.rw.ws = Unset => total = 0,
           NEW n \in Nat, s.rw.wb[u] = Unset => n = 0
    PROVE  LET q == CheckpointRewards(s, u, n, total)
           IN StateOK(q) /\ Ready(q, u) /\ KnownFor(q.rw, s.rw, u)
<1> DEFINE r == CheckpointUser(s.rw, lock, TotalLocked, ledger, u, total, n)
           q == [s EXCEPT !.rw = r]
<1>1. RewardsOK(s.rw, shares, totalShares, ledger) /\ ledger \in Nat
  BY DEF StateOK, OtherTypes
<1>2. RewardsOK(r, shares, totalShares, ledger) /\ KnownFor(r, s.rw, u)
  BY <1>1, LockType, CheckpointFacts
<1>3. CheckpointRewards(s, u, n, total) = q
  BY DEF CheckpointRewards, StateOK
<1> HIDE DEF r
<1>4. StateOK(q) /\ Ready(q, u) /\ q.rw = r
  BY <1>2, RewardsKeep DEF KnownFor
<1> QED
  BY <1>2, <1>3, <1>4

LEMMA SetWorkingKeeps ==
    ASSUME OtherTypes, NEW s, StateOK(s), NEW u \in Users, Ready(s, u),
           NEW total \in Nat, NEW n \in Nat, s.rw.ws # Unset, s.rw.wb[u] # Unset
    PROVE  LET q == SetWorking(s, u, n, total)
           IN StateOK(q) /\ Ready(q, u) /\ KnownFor(q.rw, s.rw, u)
<1> DEFINE r == UpdateWorkingBalance(s.rw, lock, TotalLocked, u, total, n)
           q == [s EXCEPT !.rw = r]
<1>1. RewardsOK(s.rw, shares, totalShares, ledger) /\ ledger \in Nat
  BY DEF StateOK, OtherTypes
<1>2. RewardsOK(r, shares, totalShares, ledger) /\ KnownFor(r, s.rw, u)
  BY <1>1, LockType, NewWorkingFacts
<1>3. SetWorking(s, u, n, total) = q
  BY DEF SetWorking, StateOK
<1> HIDE DEF r
<1>4. StateOK(q) /\ Ready(q, u) /\ q.rw = r
  BY <1>2, RewardsKeep DEF KnownFor
<1> QED
  BY <1>2, <1>3, <1>4

\* Both checkpoints, in the order of the entry points.
LEMMA BothKeeps ==
    ASSUME OtherTypes, NEW s, StateOK(s), NEW u \in Users,
           NEW total \in Nat, s.rw.ws = Unset => total = 0,
           NEW n \in Nat, s.rw.wb[u] = Unset => n = 0
    PROVE  LET q == CheckpointBoth(s, u, n, total)
           IN StateOK(q) /\ Ready(q, u) /\ KnownFor(q.rw, s.rw, u)
<1> DEFINE m == CheckpointGauge(s, u, n, total)
           q == CheckpointRewards(m, u, n, total)
<1>1. StateOK(m) /\ Ready(m, u) /\ KnownFor(m.rw, s.rw, u)
  BY GaugeCheckpointKeeps
<1>2. CheckpointBoth(s, u, n, total) = q
  BY DEF CheckpointBoth
<1> HIDE DEF m
<1>3. m.rw.ws # Unset /\ m.rw.wb[u] # Unset
  BY <1>1 DEF KnownFor
<1>4. StateOK(q) /\ Ready(q, u) /\ KnownFor(q.rw, m.rw, u)
  BY <1>1, <1>3, RewardsCheckpointKeeps
<1> HIDE DEF q
<1>5. KnownFor(q.rw, s.rw, u)
  BY <1>1, <1>4, KnownTwice
<1> QED
  BY <1>2, <1>4, <1>5

-----------------------------------------------------------------------------
(* Every action keeps the invariant                                        *)

LEMMA GaugesInit == Init => PoolGaugesInv
<1> SUFFICES ASSUME Init PROVE PoolGaugesInv
  OBVIOUS
<1> DEFINE r == EmptyRewards
           g == Gauge!EmptyGauge
<1>1. r \in RewardState /\ g \in Gauge!GaugeState
  BY DEF EmptyRewards, RewardState, UserReward, Unset,
         Gauge!EmptyGauge, Gauge!GaugeState, Gauge!UserRewardData
<1>2. /\ r.ws = Unset /\ Stored(r.ws) = 0 /\ r.lastTime = 0
      /\ \A u \in Users : r.user[u].lastCum = 0 /\ r.cum = 0 /\ Working(r)[u] = 0
  BY DEF EmptyRewards, Stored, Working
<1>3. /\ g.configs = {} /\ g.epoch = 0 /\ g.inv = 0 /\ g.accumulated = 0
      /\ g.claimed = 0 /\ g.bal = 0
      /\ \A u \in Users : /\ g.user[u].epoch = 0 /\ g.user[u].lastInv = 0
                          /\ g.user[u].toClaim = 0
  BY DEF Gauge!EmptyGauge
<1>4. /\ rw = r /\ gauge = g /\ ledger = 1 /\ totalShares = 0
      /\ shares = [u \in Users |-> 0] /\ lock = [u \in Users |-> 0]
      /\ attached = FALSE /\ killed = FALSE /\ scheduled = 0 /\ detached = FALSE
      /\ owed = [u \in Users |-> 0]
  BY DEF Init
<1> HIDE DEF r, g
<1>5. SumFunctionOnSet(Working(r), Users) = 0
  <2>1. Working(r) \in [Users -> Int]
    BY <1>1, WorkingType
  <2> QED
    BY <1>2, <2>1, SumOfZeros, UsersAssumption
<1>6. RewardsOK(r, shares, totalShares, ledger)
  BY <1>1, <1>2, <1>4, <1>5 DEF RewardsOK, Balanced
<1>7. GoodConfigs(g, 0) /\ GoodUsers(g)
  BY <1>3, FS_EmptySet DEF GoodConfigs, GoodUsers
<1>8. Gauge!Unstreamed(g) = 0
  <2>1. Rest(g) \in [{} -> Int] /\ Gauge!Unstreamed(g) = SumFunctionOnSet(Rest(g), {})
    BY <1>1, <1>3, <1>7, RestFacts
  <2> QED
    BY <2>1, SumEmpty
<1>9. GoodGauge(g, ledger, scheduled)
  BY <1>1, <1>3, <1>4, <1>7, <1>8 DEF GoodGauge, Funded
<1>10. GaugeCovered(g, Working(r))
  <2> DEFINE f == GaugePots(g, Working(r))
  <2>1. f \in [Users -> Int]
    BY <1>1, <1>7, WorkingType, PotFacts
  <2>2. RewardPrecision * 0 = 0 /\ 0 - 0 = 0 /\ 0 * 0 = 0 /\ 0 + 0 = 0
    BY RewardPrecisionAssumption
  <2>3. \A u \in Users : f[u] = 0
    BY <1>2, <1>3, <2>2 DEF GaugePots
  <2> HIDE DEF f
  <2>4. SumFunctionOnSet(f, Users) = 0
    BY <2>1, <2>3, SumOfZeros, UsersAssumption
  <2> QED
    BY <1>3, <2>2, <2>4 DEF GaugeCovered, f
<1>11. StateOK(State)
  BY <1>3, <1>4, <1>6, <1>9, <1>10 DEF StateOK, State
<1>12. shares \in [Users -> Nat] /\ lock \in [Users -> Nat] /\ owed \in [Users -> Int]
  BY <1>4
<1>13. SharesWithin
  <2>1. shares \in [Users -> Int] /\ \A u \in Users : shares[u] = 0
    BY <1>4
  <2>2. SumFunctionOnSet(shares, Users) = 0
    BY <2>1, SumOfZeros, UsersAssumption
  <2> QED
    BY <1>4, <2>2 DEF SharesWithin
<1> QED
  BY <1>4, <1>11, <1>12, <1>13 DEF PoolGaugesInv, OtherTypes

\* What the reward state says about the shares of a user and the total.
LEMMA Defaults ==
    ASSUME NEW s, StateOK(s), NEW u \in Users
    PROVE  /\ s.rw.ws = Unset => totalShares = 0
           /\ s.rw.wb[u] = Unset => shares[u] = 0
BY DEF StateOK, RewardsOK

\* An action ends in a pair of states that is in order for the new shares.
LEMMA Becomes ==
    ASSUME NEW s, StateOK(s), Become(s), UNCHANGED <<ledger, mapVars>>,
           RewardsOK(s.rw, shares', totalShares', ledger)
    PROVE  StateOK(State)'
<1>1. rw' = s.rw /\ gauge' = s.gauge /\ ledger' = ledger /\ scheduled' = scheduled
      /\ attached' = attached /\ detached' = detached
  BY DEF Become, mapVars
<1>2. State' = [rw |-> rw', gauge |-> gauge']
  BY DEF State
<1> QED
  BY <1>1, <1>2 DEF StateOK

LEMMA StaysOK ==
    ASSUME PoolGaugesInv, NEW s, StateOK(s), Become(s),
           UNCHANGED <<shares, totalShares, lock, ledger, mapVars>>,
           owed' \in [Users -> Int]
    PROVE  PoolGaugesInv'
<1>1. RewardsOK(s.rw, shares', totalShares', ledger)
  BY DEF StateOK
<1>2. StateOK(State)'
  BY <1>1, Becomes
<1> QED
  BY <1>2 DEF PoolGaugesInv, OtherTypes, SharesWithin, mapVars

\* The shares of one user change, and with them the sum.
LEMMA SharesSet ==
    ASSUME OtherTypes, NEW u \in Users, NEW n \in Nat, shares' = [shares EXCEPT ![u] = n]
    PROVE  /\ shares' \in [Users -> Nat]
           /\ \A v \in Users : v # u => shares'[v] = shares[v]
           /\ SumFunctionOnSet(shares', Users) = SumFunctionOnSet(shares, Users) + n - shares[u]
           /\ SumFunctionOnSet(shares, Users) \in Nat /\ shares[u] \in Nat
           /\ shares[u] <= SumFunctionOnSet(shares, Users)
<1>1. shares \in [Users -> Nat] /\ shares \in [Users -> Int] /\ Users \in SUBSET Users
  BY DEF OtherTypes
<1>2. \A f \in [Users -> Nat] : \A x \in Users : \A k \in Nat :
        /\ [f EXCEPT ![x] = k] \in [Users -> Nat]
        /\ SumFunctionOnSet([f EXCEPT ![x] = k], Users) = SumFunctionOnSet(f, Users) + k - f[x]
        /\ SumFunctionOnSet(f, Users) \in Nat
  BY SumUpdate, UsersAssumption, Zenon
<1>3. /\ shares' \in [Users -> Nat]
      /\ SumFunctionOnSet(shares', Users) = SumFunctionOnSet(shares, Users) + n - shares[u]
      /\ SumFunctionOnSet(shares, Users) \in Nat
  BY <1>1, <1>2, Zenon
<1>4. \A v \in Users : v # u => shares'[v] = shares[v]
  BY <1>1
<1>5. shares[u] <= SumFunctionOnSet(shares, Users)
  BY <1>1, SumAtLeast, UsersAssumption
<1> QED
  BY <1>1, <1>3, <1>4, <1>5

LEMMA GaugesDeposit ==
    ASSUME PoolGaugesInv, NEW u \in Users, NEW n \in Nat, Deposit(u, n)
    PROVE  PoolGaugesInv'
<1> DEFINE total == totalShares + n
           before == CheckpointBoth(State, u, shares[u], totalShares)
           none == 0
           second == CheckpointGauge(before, u, none, none)
           last == SetWorking(second, u, shares[u] + n, total)
<1>1. /\ StateOK(State) /\ OtherTypes
      /\ shares[u] \in Nat /\ totalShares \in Nat /\ total \in Nat /\ shares[u] + n \in Nat
      /\ SharesWithin
  BY DEF PoolGaugesInv, OtherTypes
<1>2. /\ shares' = [shares EXCEPT ![u] = @ + n] /\ totalShares' = total
      /\ Become(last) /\ UNCHANGED <<lock, ledger, mapVars, owed>>
  BY DEF Deposit
<1>3. StateOK(before) /\ KnownFor(before.rw, State.rw, u)
  BY <1>1, Defaults, BothKeeps
<1> HIDE DEF before
<1>4. StateOK(second) /\ Ready(second, u) /\ KnownFor(second.rw, before.rw, u)
  <2>1. none \in Nat /\ before.rw.ws # Unset /\ before.rw.wb[u] # Unset
    BY <1>3 DEF KnownFor
  <2> HIDE DEF none
  <2> QED
    BY <1>1, <1>3, <2>1, GaugeCheckpointKeeps
<1> HIDE DEF second
<1>5. StateOK(last) /\ KnownFor(last.rw, second.rw, u)
  BY <1>1, <1>4, SetWorkingKeeps DEF KnownFor
<1> HIDE DEF last
<1>6. /\ shares' \in [Users -> Nat] /\ \A v \in Users : v # u => shares'[v] = shares[v]
      /\ SharesWithin'
  <2> DEFINE k == shares[u] + n
  <2>1. shares' = [shares EXCEPT ![u] = k] /\ k \in Nat
    BY <1>1, <1>2
  <2> HIDE DEF k
  <2>2. /\ shares' \in [Users -> Nat] /\ \A v \in Users : v # u => shares'[v] = shares[v]
        /\ SumFunctionOnSet(shares', Users) = SumFunctionOnSet(shares, Users) + k - shares[u]
        /\ SumFunctionOnSet(shares, Users) \in Nat
    BY <1>1, <2>1, SharesSet
  <2> QED
    BY <1>1, <1>2, <2>2 DEF SharesWithin, k
<1>7. RewardsOK(last.rw, shares', totalShares', ledger)
  BY <1>5, <1>6, SharesMoveOK DEF StateOK
<1>8. StateOK(State)'
  BY <1>2, <1>5, <1>7, Becomes
<1> QED
  BY <1>1, <1>2, <1>6, <1>8 DEF PoolGaugesInv, OtherTypes, mapVars

LEMMA GaugesWithdraw ==
    ASSUME PoolGaugesInv, NEW u \in Users, NEW n \in Nat, Withdraw(u, n)
    PROVE  PoolGaugesInv'
<1> DEFINE total == totalShares - n
           before == CheckpointBoth(State, u, shares[u], totalShares)
           second == CheckpointGauge(before, u, shares[u] - n, total)
           last == SetWorking(second, u, shares[u] - n, total)
<1>1. /\ StateOK(State) /\ OtherTypes
      /\ shares[u] \in Nat /\ totalShares \in Nat /\ total \in Nat /\ shares[u] - n \in Nat
      /\ SharesWithin
  <2>1. StateOK(State) /\ OtherTypes /\ SharesWithin
    BY DEF PoolGaugesInv
  <2>2. n <= shares[u] /\ shares[u] \in Nat /\ totalShares \in Nat /\ shares \in [Users -> Nat]
    BY <2>1 DEF OtherTypes, Withdraw
  <2>3. /\ shares[u] <= SumFunctionOnSet(shares, Users)
        /\ SumFunctionOnSet(shares, Users) \in Int
    BY <2>2, SumAtLeast, SumInt, UsersAssumption
  <2>4. shares[u] <= totalShares
    BY <2>1, <2>2, <2>3 DEF SharesWithin
  <2> QED
    BY <2>1, <2>2, <2>4
<1>2. /\ shares' = [shares EXCEPT ![u] = @ - n] /\ totalShares' = total
      /\ Become(last) /\ UNCHANGED <<lock, ledger, mapVars, owed>>
  BY DEF Withdraw
<1>3. StateOK(before) /\ KnownFor(before.rw, State.rw, u)
  BY <1>1, Defaults, BothKeeps
<1> HIDE DEF before
<1>4. StateOK(second) /\ Ready(second, u) /\ KnownFor(second.rw, before.rw, u)
  <2>1. before.rw.ws # Unset /\ before.rw.wb[u] # Unset
    BY <1>3 DEF KnownFor
  <2> QED
    BY <1>1, <1>3, <2>1, GaugeCheckpointKeeps
<1> HIDE DEF second
<1>5. StateOK(last) /\ KnownFor(last.rw, second.rw, u)
  BY <1>1, <1>4, SetWorkingKeeps DEF KnownFor
<1> HIDE DEF last
<1>6. /\ shares' \in [Users -> Nat] /\ \A v \in Users : v # u => shares'[v] = shares[v]
      /\ SharesWithin'
  <2> DEFINE k == shares[u] - n
  <2>1. shares' = [shares EXCEPT ![u] = k] /\ k \in Nat
    BY <1>1, <1>2
  <2> HIDE DEF k
  <2>2. /\ shares' \in [Users -> Nat] /\ \A v \in Users : v # u => shares'[v] = shares[v]
        /\ SumFunctionOnSet(shares', Users) = SumFunctionOnSet(shares, Users) + k - shares[u]
        /\ SumFunctionOnSet(shares, Users) \in Nat
    BY <1>1, <2>1, SharesSet
  <2> QED
    BY <1>1, <1>2, <2>2 DEF SharesWithin, k
<1>7. RewardsOK(last.rw, shares', totalShares', ledger)
  BY <1>5, <1>6, SharesMoveOK DEF StateOK
<1>8. StateOK(State)'
  BY <1>2, <1>5, <1>7, Becomes
<1> QED
  BY <1>1, <1>2, <1>6, <1>8 DEF PoolGaugesInv, OtherTypes, mapVars

LEMMA GaugesTransferShares ==
    ASSUME PoolGaugesInv, NEW from \in Users, NEW to \in Users, NEW n \in Nat,
           TransferShares(from, to, n)
    PROVE  PoolGaugesInv'
<1> DEFINE less == [shares EXCEPT ![from] = @ - n]
           moved == [less EXCEPT ![to] = @ + n]
           s1 == CheckpointBoth(State, from, shares[from], totalShares)
           s2 == CheckpointBoth(s1, to, shares[to], totalShares)
           s3 == CheckpointBoth(s2, from, moved[from], totalShares)
           s4 == CheckpointBoth(s3, to, moved[to], totalShares)
<1>1. /\ StateOK(State) /\ OtherTypes /\ SharesWithin
      /\ shares \in [Users -> Nat] /\ totalShares \in Nat /\ n <= shares[from]
  BY DEF PoolGaugesInv, OtherTypes, TransferShares
<1>2. /\ shares' = moved /\ Become(s4)
      /\ UNCHANGED <<totalShares, lock, ledger, mapVars, owed>>
  BY DEF TransferShares
<1>3. /\ less \in [Users -> Nat] /\ moved \in [Users -> Nat]
      /\ \A v \in Users : v # from => less[v] = shares[v]
      /\ \A v \in Users : v # to => moved[v] = less[v]
      /\ less[from] = shares[from] - n /\ moved[to] = less[to] + n
  BY <1>1
<1>4. SumFunctionOnSet(moved, Users) = SumFunctionOnSet(shares, Users)
  <2>1. /\ less \in [Users -> Int] /\ moved \in [Users -> Int] /\ shares \in [Users -> Int]
        /\ \A v \in Users \ {from} : shares[v] = less[v]
        /\ \A v \in Users \ {to} : less[v] = moved[v]
    BY <1>1, <1>3
  <2> HIDE DEF less, moved
  <2>2. SumFunctionOnSet(less, Users) = SumFunctionOnSet(shares, Users) + less[from] - shares[from]
    BY <2>1, SumChange, UsersAssumption
  <2>3. SumFunctionOnSet(moved, Users) = SumFunctionOnSet(less, Users) + moved[to] - less[to]
    BY <2>1, SumChange, UsersAssumption
  <2>4. SumFunctionOnSet(shares, Users) \in Int
    BY <2>1, SumInt, UsersAssumption
  <2> QED
    BY <1>1, <1>3, <2>2, <2>3, <2>4
<1> HIDE DEF less, moved
<1>5. /\ shares[from] \in Nat /\ shares[to] \in Nat
      /\ moved[from] \in Nat /\ moved[to] \in Nat
  BY <1>1, <1>3
<1>6. StateOK(s1) /\ KnownFor(s1.rw, State.rw, from)
  BY <1>1, <1>5, Defaults, BothKeeps
<1> HIDE DEF s1
<1>7. StateOK(s2) /\ KnownFor(s2.rw, s1.rw, to)
  BY <1>1, <1>5, <1>6, Defaults, BothKeeps
<1> HIDE DEF s2
<1>8. s2.rw.ws # Unset /\ s2.rw.wb[from] # Unset
  BY <1>6, <1>7 DEF KnownFor
<1>9. StateOK(s3) /\ KnownFor(s3.rw, s2.rw, from)
  BY <1>1, <1>5, <1>7, <1>8, BothKeeps
<1> HIDE DEF s3
<1>10. s3.rw.ws # Unset /\ s3.rw.wb[to] # Unset
  BY <1>7, <1>9 DEF KnownFor
<1>11. StateOK(s4) /\ KnownFor(s4.rw, s3.rw, to)
  BY <1>1, <1>5, <1>9, <1>10, BothKeeps
<1> HIDE DEF s4
<1>12. s4.rw.ws # Unset /\ s4.rw.wb[from] # Unset /\ s4.rw.wb[to] # Unset
  BY <1>9, <1>11 DEF KnownFor
<1>13. RewardsOK(s4.rw, shares, totalShares, ledger)
  BY <1>11 DEF StateOK
<1>14. RewardsOK(s4.rw, moved, totalShares, ledger)
  BY <1>3, <1>12, <1>13 DEF RewardsOK
<1>15. StateOK(State)'
  <2>1. shares' = moved /\ totalShares' = totalShares /\ UNCHANGED <<ledger, mapVars>>
    BY <1>2
  <2>2. RewardsOK(s4.rw, shares', totalShares', ledger)
    BY <1>14, <2>1
  <2> QED
    BY <1>2, <1>11, <2>1, <2>2, Becomes
<1> QED
  BY <1>1, <1>2, <1>3, <1>4, <1>15 DEF PoolGaugesInv, OtherTypes, SharesWithin, mapVars

LEMMA GaugesBurnShares ==
    ASSUME PoolGaugesInv, NEW u \in Users, NEW n \in Nat, BurnShares(u, n)
    PROVE  PoolGaugesInv'
<1> DEFINE k == shares[u] - n
<1>1. StateOK(State) /\ OtherTypes /\ SharesWithin /\ totalShares \in Nat
  BY DEF PoolGaugesInv, OtherTypes
<1>2. /\ shares' = [shares EXCEPT ![u] = k] /\ k \in Nat /\ n <= shares[u] /\ shares[u] \in Nat
      /\ UNCHANGED <<totalShares, rw, lock, ledger, gauge, mapVars, owed>>
  BY <1>1 DEF BurnShares, OtherTypes
<1>3. k <= shares[u]
  BY <1>2
<1>4. shares[u] = 0 => k = 0
  BY <1>2
<1> HIDE DEF k
<1>5. /\ shares' \in [Users -> Nat] /\ \A v \in Users : v # u => shares'[v] = shares[v]
      /\ SumFunctionOnSet(shares', Users) = SumFunctionOnSet(shares, Users) + k - shares[u]
      /\ SumFunctionOnSet(shares, Users) \in Nat
  BY <1>1, <1>2, SharesSet
<1>6. shares'[u] = k
  BY <1>1, <1>2 DEF OtherTypes
<1>7. SharesWithin'
  BY <1>1, <1>2, <1>3, <1>5 DEF SharesWithin
<1>8. \A v \in Users : shares[v] = 0 => shares'[v] = 0
  BY <1>4, <1>5, <1>6
<1>9. RewardsOK(State.rw, shares', totalShares', ledger)
  BY <1>1, <1>2, <1>8 DEF StateOK, RewardsOK
<1>10. Become(State)
  BY <1>2 DEF Become, State
<1>11. StateOK(State)'
  <2>1. UNCHANGED <<ledger, mapVars>>
    BY <1>2
  <2> QED
    BY <1>1, <1>9, <1>10, <2>1, Becomes
<1> QED
  BY <1>1, <1>2, <1>5, <1>7, <1>11 DEF PoolGaugesInv, OtherTypes, mapVars

\* A change of the rewards that leaves the working balances alone.
LEMMA SameBooksKeep ==
    ASSUME OtherTypes, NEW s, StateOK(s), NEW r,
           RewardsOK(r, shares, totalShares, ledger), SameBooks(r, s.rw)
    PROVE  StateOK([s EXCEPT !.rw = r]) /\ [s EXCEPT !.rw = r].rw = r
<1> DEFINE q == [s EXCEPT !.rw = r]
<1>1. q = [rw |-> q.rw, gauge |-> q.gauge] /\ q.rw = r /\ q.gauge = s.gauge
  BY DEF StateOK
<1> HIDE DEF q
<1>2. Working(r) = Working(s.rw)
  BY DEF Working, SameBooks
<1>3. StateOK(q)
  BY <1>1, <1>2 DEF StateOK
<1> QED
  BY <1>1, <1>3 DEF q

LEMMA GaugesClaimRewards ==
    ASSUME PoolGaugesInv, NEW u \in Users, Claim(u)
    PROVE  PoolGaugesInv'
<1> DEFINE before == CheckpointBoth(State, u, shares[u], totalShares)
           r == PayUser(before.rw, u)
           paid == [before EXCEPT !.rw = r]
           last == CheckpointGauge(paid, u, shares[u], totalShares)
<1>1. /\ StateOK(State) /\ OtherTypes
      /\ shares[u] \in Nat /\ totalShares \in Nat /\ owed \in [Users -> Int]
  BY DEF PoolGaugesInv, OtherTypes
<1>2. StateOK(before) /\ KnownFor(before.rw, State.rw, u)
  BY <1>1, Defaults, BothKeeps
<1>3. /\ Become(last)
      /\ UNCHANGED <<shares, totalShares, lock, ledger, mapVars, owed>>
  <2>1. paid = [before EXCEPT !.rw = PayUser(@, u)]
    BY <1>2 DEF StateOK
  <2> QED
    BY <2>1 DEF Claim
<1> HIDE DEF before
<1>4. RewardsOK(r, shares, totalShares, ledger) /\ SameBooks(r, before.rw)
  <2>1. RewardsOK(before.rw, shares, totalShares, ledger)
    BY <1>2 DEF StateOK
  <2>2. SameBooks(r, before.rw)
    BY <2>1 DEF PayUser, SameBooks, RewardsOK, RewardState
  <2> QED
    BY <2>1, <2>2, PayUserFacts
<1> HIDE DEF r
<1>5. StateOK(paid) /\ paid.rw = r
  BY <1>1, <1>2, <1>4, SameBooksKeep
<1> HIDE DEF paid
<1>6. StateOK(last)
  BY <1>1, <1>5, Defaults, GaugeCheckpointKeeps
<1> HIDE DEF last
<1> QED
  BY <1>1, <1>3, <1>6, StaysOK

LEMMA GaugesGetUserReward ==
    ASSUME PoolGaugesInv, NEW u \in Users, GetUserReward(u)
    PROVE  PoolGaugesInv'
<1> DEFINE last == CheckpointBoth(State, u, shares[u], totalShares)
<1>1. /\ StateOK(State) /\ OtherTypes
      /\ shares[u] \in Nat /\ totalShares \in Nat /\ owed \in [Users -> Int]
  BY DEF PoolGaugesInv, OtherTypes
<1>2. /\ Become(last)
      /\ UNCHANGED <<shares, totalShares, lock, ledger, mapVars, owed>>
  BY DEF GetUserReward
<1>3. StateOK(last)
  BY <1>1, Defaults, BothKeeps
<1> HIDE DEF last
<1> QED
  BY <1>1, <1>2, <1>3, StaysOK

LEMMA GaugesInfo ==
    ASSUME PoolGaugesInv, NEW u \in Users, GaugesGetRewardInfo(u)
    PROVE  PoolGaugesInv'
<1> DEFINE last == CheckpointGauge(State, u, shares[u], totalShares)
<1>1. /\ StateOK(State) /\ OtherTypes
      /\ shares[u] \in Nat /\ totalShares \in Nat /\ owed \in [Users -> Int]
  BY DEF PoolGaugesInv, OtherTypes
<1>2. /\ Become(last)
      /\ UNCHANGED <<shares, totalShares, lock, ledger, mapVars, owed>>
  BY DEF GaugesGetRewardInfo
<1>3. StateOK(last)
  BY <1>1, Defaults, GaugeCheckpointKeeps
<1> HIDE DEF last
<1> QED
  BY <1>1, <1>2, <1>3, StaysOK

LEMMA GaugesSetRewardsState ==
    ASSUME PoolGaugesInv, NEW u \in Users, NEW value \in BOOLEAN, SetRewardsState(u, value)
    PROVE  PoolGaugesInv'
<1> DEFINE first == CheckpointGauge(State, u, shares[u], totalShares)
           r == SetUserRewardsState(first.rw, u, shares[u], value)
           switched == [first EXCEPT !.rw = r]
           settled == CheckpointRewards(switched, u, shares[u], totalShares)
           last == CheckpointGauge(settled, u, shares[u], totalShares)
<1>1. /\ StateOK(State) /\ OtherTypes
      /\ shares[u] \in Nat /\ totalShares \in Nat /\ owed \in [Users -> Int]
  BY DEF PoolGaugesInv, OtherTypes
<1>2. StateOK(first) /\ Ready(first, u)
  BY <1>1, Defaults, GaugeCheckpointKeeps
<1>3. /\ Become(last)
      /\ UNCHANGED <<shares, totalShares, lock, ledger, mapVars, owed>>
  <2>1. switched = [first EXCEPT !.rw = SetUserRewardsState(@, u, shares[u], value)]
    BY <1>2 DEF StateOK
  <2> QED
    BY <2>1 DEF SetRewardsState
<1> HIDE DEF first
<1>4. RewardsOK(r, shares, totalShares, ledger) /\ SameBooks(r, first.rw)
  <2>1. RewardsOK(first.rw, shares, totalShares, ledger)
    BY <1>2 DEF StateOK
  <2> QED
    BY <1>1, <2>1, SetUserRewardsStateFacts
<1> HIDE DEF r
<1>5. StateOK(switched) /\ switched.rw = r
  BY <1>1, <1>2, <1>4, SameBooksKeep
<1>6. Ready(switched, u)
  BY <1>2 DEF Ready, StateOK
<1> HIDE DEF switched
<1>7. StateOK(settled)
  BY <1>1, <1>5, <1>6, Defaults, RewardsCheckpointKeeps
<1> HIDE DEF settled
<1>8. StateOK(last)
  BY <1>1, <1>7, Defaults, GaugeCheckpointKeeps
<1> HIDE DEF last
<1> QED
  BY <1>1, <1>3, <1>8, StaysOK

\* A new state of the gauge with the same rewards.
LEMMA GaugeKeeps ==
    ASSUME NEW s, StateOK(s), NEW g, GoodGauge(g, ledger, scheduled), SameIndex(g, s.gauge),
           \A w \in [Users -> Nat] : GaugeCovered(s.gauge, w) => GaugeCovered(g, w)
    PROVE  StateOK([s EXCEPT !.gauge = g])
<1> DEFINE q == [s EXCEPT !.gauge = g]
<1>1. q = [rw |-> q.rw, gauge |-> q.gauge] /\ q.rw = s.rw /\ q.gauge = g
  BY DEF StateOK
<1> HIDE DEF q
<1>2. Working(s.rw) \in [Users -> Nat]
  BY WorkingType DEF StateOK, RewardsOK
<1>3. ~detached => GaugeCovered(g, Working(s.rw))
  BY <1>2 DEF StateOK
<1>4. StateOK(q)
  BY <1>1, <1>3 DEF StateOK, SameIndex
<1> QED
  BY <1>4 DEF q

LEMMA GaugesGaugesClaim ==
    ASSUME PoolGaugesInv, NEW u \in Users, GaugesClaim(u)
    PROVE  PoolGaugesInv'
<1> DEFINE s == CheckpointGauge(State, u, shares[u], totalShares)
           g == Gauge!Pay(s.gauge, u)
           last == [s EXCEPT !.gauge = g]
           n == Gauge!TransferAmount(s.gauge, u)
<1>1. /\ StateOK(State) /\ OtherTypes
      /\ shares[u] \in Nat /\ totalShares \in Nat /\ owed \in [Users -> Int]
  BY DEF PoolGaugesInv, OtherTypes
<1>2. StateOK(s)
  BY <1>1, Defaults, GaugeCheckpointKeeps
<1>3. /\ Become(last)
      /\ UNCHANGED <<shares, totalShares, lock, ledger, mapVars>>
      /\ owed' = IF detached THEN owed ELSE [owed EXCEPT ![u] = @ - n]
  <2>1. last = [s EXCEPT !.gauge = Gauge!Pay(@, u)]
    BY <1>2 DEF StateOK
  <2> QED
    BY <2>1 DEF GaugesClaim
<1> HIDE DEF s
<1>4. GoodGauge(s.gauge, ledger, scheduled) /\ ledger \in Nat
  BY <1>1, <1>2 DEF StateOK, OtherTypes
<1>5. /\ GoodGauge(g, ledger, scheduled) /\ SameIndex(g, s.gauge)
      /\ \A w \in [Users -> Nat] : GaugeCovered(s.gauge, w) => GaugeCovered(g, w)
  BY <1>4, PayFacts
<1> HIDE DEF g
<1>6. StateOK(last)
  BY <1>2, <1>5, GaugeKeeps
<1>7. n \in Nat
  BY <1>4, TransferFacts DEF GoodGauge
<1> HIDE DEF last, n
<1>8. owed' \in [Users -> Int]
  BY <1>1, <1>3, <1>7
<1> QED
  BY <1>1, <1>3, <1>6, <1>8, StaysOK

LEMMA GaugesSchedule ==
    ASSUME PoolGaugesInv, NEW delay \in Nat, NEW duration \in Nat, NEW tps \in Nat,
           GaugeScheduleReward(delay, duration, tps)
    PROVE  PoolGaugesInv'
<1> DEFINE r == InitWorkingSupply(rw, totalShares)
           at == ledger + delay
           ws == r.ws
           g == Gauge!ScheduleRewardsConfig(gauge, scheduled, ledger, at, duration, tps, ws)
           w == Working(rw)
<1>1. /\ StateOK(State) /\ OtherTypes /\ SharesWithin
      /\ totalShares \in Nat /\ ledger \in Nat /\ scheduled \in Nat
      /\ State.rw = rw /\ State.gauge = gauge
  BY DEF PoolGaugesInv, OtherTypes, State
<1>2. /\ RewardsOK(rw, shares, totalShares, ledger)
      /\ rw \in RewardState /\ Balanced(rw) /\ (rw.ws = Unset => totalShares = 0)
      /\ GoodGauge(gauge, ledger, scheduled)
      /\ ~detached => GaugeCovered(gauge, w)
  BY <1>1 DEF StateOK, RewardsOK
<1>3. /\ Gauge!ConfigAccepted(gauge, ledger, at, duration, tps)
      /\ rw' = r /\ gauge' = g
      /\ attached' = TRUE /\ scheduled' = scheduled + 1
      /\ UNCHANGED <<shares, totalShares, lock, ledger, killed, detached, owed>>
  BY DEF GaugeScheduleReward, Become
<1>4. at \in Nat
  BY <1>1
<1> HIDE DEF at
<1>5. /\ r \in RewardState /\ ws \in Nat /\ r.wb = rw.wb
      /\ Stored(ws) = Stored(rw.ws) /\ Stored(ws) = ws
      /\ SameBut(r, rw)
  BY <1>1, <1>2 DEF InitWorkingSupply, RewardState, Unset, Stored, SameBut
<1> HIDE DEF r
<1>6. Working(r) = w /\ w \in [Users -> Nat] /\ ws = SumFunctionOnSet(w, Users)
  BY <1>2, <1>5, WorkingType DEF Working, Balanced
<1>7. RewardsOK(r, shares, totalShares, ledger)
  <2>1. r.ws # Unset
    BY <1>5 DEF Unset
  <2>2. Balanced(r)
    BY <1>5, <1>6 DEF Balanced
  <2> QED
    BY <1>2, <1>5, <2>1, <2>2 DEF RewardsOK, SameBut
<1> HIDE DEF ws, w
<1>8. /\ GoodGauge(g, ledger, scheduled + 1)
      /\ \A x \in [Users -> Nat] :
            ws = SumFunctionOnSet(x, Users) /\ GaugeCovered(gauge, x) => GaugeCovered(g, x)
  BY <1>1, <1>2, <1>3, <1>4, <1>5, ScheduleFacts
<1> HIDE DEF g
<1>9. ~detached => GaugeCovered(g, Working(r))
  BY <1>2, <1>6, <1>8
<1>10. StateOK(State)'
  <2>1. State' = [rw |-> rw', gauge |-> gauge']
    BY DEF State
  <2> QED
    BY <1>3, <1>7, <1>8, <1>9, <2>1 DEF StateOK
<1>11. scheduled' \in Nat
  BY <1>1, <1>3
<1> QED
  BY <1>1, <1>3, <1>10, <1>11 DEF PoolGaugesInv, OtherTypes, SharesWithin

\* The gauge comes and goes with everything else as it was.
LEMMA GaugesMap ==
    ASSUME PoolGaugesInv, UNCHANGED <<poolVars, ledger, gauge, scheduled>>,
           attached' \in BOOLEAN, killed' \in BOOLEAN, detached' \in BOOLEAN,
           detached => detached', ~attached' /\ ~detached' => ~attached,
           owed' \in [Users -> Int]
    PROVE  PoolGaugesInv'
<1>1. /\ rw' = rw /\ gauge' = gauge /\ ledger' = ledger /\ scheduled' = scheduled
      /\ shares' = shares /\ totalShares' = totalShares /\ lock' = lock
  BY DEF poolVars
<1>2. State' = State
  BY <1>1 DEF State
<1>3. StateOK(State)'
  BY <1>1, <1>2 DEF StateOK, PoolGaugesInv
<1> QED
  BY <1>1, <1>3 DEF PoolGaugesInv, OtherTypes, SharesWithin

LEMMA GaugesChangeLock ==
    ASSUME PoolGaugesInv, NEW u \in Users, NEW n \in Nat, ChangeLock(u, n)
    PROVE  PoolGaugesInv'
<1>1. /\ UNCHANGED <<shares, totalShares, rw, ledger, gauge, mapVars, owed>>
      /\ lock' = [lock EXCEPT ![u] = n]
  BY DEF ChangeLock
<1>2. State' = State /\ StateOK(State) /\ OtherTypes /\ SharesWithin
  BY <1>1 DEF State, PoolGaugesInv
<1>3. StateOK(State)'
  BY <1>1, <1>2 DEF StateOK, mapVars
<1>4. lock' \in [Users -> Nat]
  BY <1>1, <1>2 DEF OtherTypes
<1> QED
  BY <1>1, <1>2, <1>3, <1>4 DEF PoolGaugesInv, OtherTypes, SharesWithin, mapVars

LEMMA GaugesTick ==
    ASSUME PoolGaugesInv, Tick
    PROVE  PoolGaugesInv'
<1> DEFINE f == [c \in gauge.configs |->
                    IF c.startAt <= ledger /\ ledger < c.expiredAt THEN c.tps ELSE 0]
           earned(u) == IF detached \/ Stored(rw.ws) = 0 THEN 0
                        ELSE (Gauge!Rate(gauge, ledger) * Stored(rw.wb[u])) \div rw.ws
<1>1. /\ StateOK(State) /\ OtherTypes /\ SharesWithin
      /\ State.rw = rw /\ State.gauge = gauge /\ ledger \in Nat
  BY DEF PoolGaugesInv, OtherTypes, State
<1>2. /\ RewardsOK(rw, shares, totalShares, ledger)
      /\ GoodGauge(gauge, ledger, scheduled) /\ gauge \in Gauge!GaugeState
      /\ IsFiniteSet(gauge.configs) /\ gauge.epoch \in Nat /\ gauge.epoch <= ledger
      /\ rw \in RewardState /\ rw.lastTime \in Nat /\ rw.lastTime <= ledger
  BY <1>1, GaugeTypes DEF StateOK, GoodGauge, GoodConfigs, RewardsOK, RewardState
<1>3. /\ ledger' = ledger + 1
      /\ UNCHANGED <<poolVars, gauge, mapVars>>
      /\ owed' = [u \in Users |-> owed[u] + earned(u)]
  BY DEF Tick
<1>4. ledger' \in Nat /\ ledger <= ledger'
  BY <1>1, <1>3
<1>5. /\ rw' = rw /\ gauge' = gauge /\ scheduled' = scheduled
      /\ shares' = shares /\ totalShares' = totalShares /\ lock' = lock
      /\ attached' = attached /\ killed' = killed /\ detached' = detached
      /\ State' = State
  BY <1>3 DEF poolVars, mapVars, State
<1>6. StateOK(State)'
  <2>0. rw.lastTime <= ledger' /\ gauge.epoch <= ledger'
    BY <1>1, <1>2, <1>4
  <2>1. RewardsOK(rw, shares, totalShares, ledger')
    BY <1>2, <2>0 DEF RewardsOK
  <2>2. GoodGauge(gauge, ledger', scheduled)
    BY <1>2, <2>0 DEF GoodGauge
  <2> QED
    BY <1>1, <1>5, <2>1, <2>2 DEF StateOK
<1>7. Gauge!Rate(gauge, ledger) \in Nat
  <2>1. ASSUME NEW c \in gauge.configs
        PROVE  (IF c.startAt <= ledger /\ ledger < c.expiredAt THEN c.tps ELSE 0) \in Nat
    BY <1>2 DEF Gauge!GaugeState, Gauge!RewardConfig
  <2>2. f \in [gauge.configs -> Nat] /\ f \in [gauge.configs -> Int]
    BY <2>1
  <2>3. Gauge!Rate(gauge, ledger) = Gauge!SumFunctionOnSet(f, gauge.configs)
    BY DEF Gauge!Rate
  <2> HIDE DEF f
  <2>4. Gauge!SumFunctionOnSet(f, gauge.configs) = SumFunctionOnSet(f, gauge.configs)
    BY <2>2, SameSum
  <2>5. SumFunctionOnSet(f, gauge.configs) \in Nat
    BY <1>2, <2>2, SumNat
  <2> QED
    BY <2>3, <2>4, <2>5
<1>8. ASSUME NEW u \in Users PROVE earned(u) \in Int
  <2>1. CASE detached \/ Stored(rw.ws) = 0
    BY <2>1
  <2>2. CASE ~(detached \/ Stored(rw.ws) = 0)
    <3>1. rw.ws \in Nat \ {0} /\ Stored(rw.wb[u]) \in Nat
      BY <1>2, <2>2 DEF Stored, Unset, RewardState
    <3>2. Gauge!Rate(gauge, ledger) * Stored(rw.wb[u]) \in Nat
      BY <1>7, <3>1, MulNat
    <3>3. earned(u) = (Gauge!Rate(gauge, ledger) * Stored(rw.wb[u])) \div rw.ws
      BY <2>2
    <3> HIDE DEF earned
    <3> QED
      BY <3>1, <3>2, <3>3, DivFacts
  <2> QED
    BY <2>1, <2>2
<1> HIDE DEF earned
<1>9. owed' \in [Users -> Int]
  BY <1>1, <1>3, <1>8 DEF OtherTypes
<1> QED
  BY <1>1, <1>4, <1>5, <1>6, <1>9 DEF PoolGaugesInv, OtherTypes, SharesWithin

LEMMA GaugesStep == PoolGaugesInv /\ [Next]_vars => PoolGaugesInv'
<1> SUFFICES ASSUME PoolGaugesInv, [Next]_vars PROVE PoolGaugesInv'
  OBVIOUS
<1> USE PoolGaugesAssumption DEF PoolGaugesAssumption
<1>1. ASSUME NEW u \in Users, NEW n \in ShareAmounts, Deposit(u, n) PROVE PoolGaugesInv'
  BY <1>1, GaugesDeposit
<1>2. ASSUME NEW u \in Users, NEW n \in ShareAmounts, Withdraw(u, n) PROVE PoolGaugesInv'
  BY <1>2, GaugesWithdraw
<1>3. ASSUME NEW u \in Users, NEW n \in ShareAmounts, BurnShares(u, n) PROVE PoolGaugesInv'
  BY <1>3, GaugesBurnShares
<1>4. ASSUME NEW u \in Users, NEW n \in ShareAmounts, NEW to \in Users,
             TransferShares(u, to, n)
      PROVE  PoolGaugesInv'
  BY <1>4, GaugesTransferShares
<1>5. ASSUME NEW u \in Users, Claim(u) PROVE PoolGaugesInv'
  BY <1>5, GaugesClaimRewards
<1>6. ASSUME NEW u \in Users, GetUserReward(u) PROVE PoolGaugesInv'
  BY <1>6, GaugesGetUserReward
<1>7. ASSUME NEW u \in Users, NEW value \in RewardSwitches, SetRewardsState(u, value)
      PROVE  PoolGaugesInv'
  BY <1>7, GaugesSetRewardsState
<1>8. ASSUME NEW u \in Users, GaugesGetRewardInfo(u) PROVE PoolGaugesInv'
  BY <1>8, GaugesInfo
<1>9. ASSUME NEW u \in Users, GaugesClaim(u) PROVE PoolGaugesInv'
  BY <1>9, GaugesGaugesClaim
<1>10. ASSUME NEW u \in Users, NEW n \in LockAmounts, ChangeLock(u, n) PROVE PoolGaugesInv'
  BY <1>10, GaugesChangeLock
<1>11. ASSUME NEW delay \in StartDelays, NEW duration \in Durations, NEW tps \in TpsValues,
              GaugeScheduleReward(delay, duration, tps)
       PROVE  PoolGaugesInv'
  BY <1>11, GaugesSchedule
<1>12. OtherTypes
  BY DEF PoolGaugesInv
<1>13. CASE GaugeAdd
  BY <1>12, <1>13, GaugesMap DEF GaugeAdd, OtherTypes
<1>14. CASE GaugeRemove
  <2>1. owed' \in [Users -> Int]
    BY <1>14 DEF GaugeRemove
  <2> QED
    BY <1>12, <1>14, <2>1, GaugesMap DEF GaugeRemove, OtherTypes
<1>15. ASSUME NEW value \in KillSwitches, SwitchGaugesClaim(value) PROVE PoolGaugesInv'
  BY <1>12, <1>15, GaugesMap DEF SwitchGaugesClaim, OtherTypes
<1>16. CASE Tick
  BY <1>16, GaugesTick
<1>17. CASE UNCHANGED vars
  BY <1>12, <1>17, GaugesMap DEF vars, poolVars, mapVars, OtherTypes
<1> QED
  BY <1>1, <1>2, <1>3, <1>4, <1>5, <1>6, <1>7, <1>8, <1>9, <1>10, <1>11, <1>13, <1>14,
     <1>15, <1>16, <1>17 DEF Next

LEMMA GaugesInvariant == Spec => []PoolGaugesInv
BY GaugesInit, GaugesStep, PTL DEF Spec

-----------------------------------------------------------------------------
(* The theorems                                                            *)

\* The whole state of a pool and its gauge keeps its types: no checkpoint, no
\* payment and no change of the working supply subtracts more than is there.
THEOREM GaugesTypeCorrect == Spec => []TypeOK
<1>1. PoolGaugesInv => TypeOK
  <2> SUFFICES ASSUME PoolGaugesInv PROVE TypeOK
    OBVIOUS
  <2>1. rw \in RewardState /\ gauge \in Gauge!GaugeState
    BY DEF PoolGaugesInv, StateOK, State, RewardsOK, GoodGauge
  <2> QED
    BY <2>1 DEF PoolGaugesInv, OtherTypes, TypeOK
<1> QED
  BY <1>1, GaugesInvariant, PTL

\* reward_end - reward_start never underflows, so that no gauge can block the
\* deposits, withdrawals and share transfers of its pool.
THEOREM GaugeNeverBlocksPool == Spec => []NeverBlocksPool
<1>1. PoolGaugesInv => NeverBlocksPool
  <2> SUFFICES ASSUME PoolGaugesInv PROVE Gauge!CheckpointOK(gauge, ledger)
    BY DEF NeverBlocksPool
  <2>1. GoodGauge(gauge, ledger, scheduled) /\ ledger \in Nat
    BY DEF PoolGaugesInv, StateOK, State, OtherTypes
  <2> QED
    BY <2>1, CheckpointPasses DEF GoodGauge
<1> QED
  BY <1>1, GaugesInvariant, PTL

\* The gauge holds what it has yet to stream and what it accumulated and did
\* not pay, through removals and returns.
THEOREM GaugeAlwaysFunded == Spec => []GaugeFunded
<1>1. PoolGaugesInv => GaugeFunded
  BY DEF PoolGaugesInv, StateOK, State, GoodGauge, Funded, GaugeFunded
<1> QED
  BY <1>1, GaugesInvariant, PTL

\* Everybody settled now, the gauge has accumulated what all of them together
\* can claim: the cap of claim never withholds anything.
LEMMA SettledWithin == PoolGaugesInv => CapNeverBites
<1> SUFFICES ASSUME PoolGaugesInv, ~detached
             PROVE  SumFunctionOnSet([u \in Users |-> Settled.user[u].toClaim], Users)
                      <= Settled.accumulated - Settled.claimed
  BY DEF CapNeverBites
<1> DEFINE w == Working(rw)
           ws == Stored(rw.ws)
           all == Gauge!CheckpointGlobal(gauge, ledger, ws)
           due == [u \in Users |-> Gauge!SettleUser(all, u, w[u]).user[u].toClaim]
           pots == GaugePots(all, w)
<1>1. /\ GoodGauge(gauge, ledger, scheduled) /\ GaugeCovered(gauge, w)
      /\ ledger \in Nat /\ rw \in RewardState /\ Balanced(rw)
  BY DEF PoolGaugesInv, StateOK, State, OtherTypes, RewardsOK
<1>2. w \in [Users -> Nat] /\ ws = SumFunctionOnSet(w, Users) /\ ws \in Nat
  BY <1>1, WorkingType DEF Balanced, Stored, RewardState, Unset
<1>3. /\ Settled.accumulated = all.accumulated /\ Settled.claimed = all.claimed
      /\ \A u \in Users : Settled.user[u].toClaim = due[u]
  <2>1. \A u \in Users : w[u] = Stored(rw.wb[u])
    BY DEF Working
  <2>2. Settled = [all EXCEPT !.user = [u \in Users |->
                      Gauge!SettleUser(all, u, Stored(rw.wb[u])).user[u]]]
    BY DEF Settled
  <2>3. all \in Gauge!GaugeState
    BY <1>1, <1>2, GlobalFacts DEF GoodGauge
  <2> HIDE DEF all, w
  <2>4. /\ Settled.accumulated = all.accumulated /\ Settled.claimed = all.claimed
        /\ Settled.user = [u \in Users |->
                              Gauge!SettleUser(all, u, Stored(rw.wb[u])).user[u]]
    BY <2>2, <2>3 DEF Gauge!GaugeState
  <2> QED
    BY <2>1, <2>4
<1> HIDE DEF w, ws
<1>4. GoodGauge(all, ledger, scheduled) /\ GaugeCovered(all, w)
  BY <1>1, <1>2, GlobalFacts
<1> HIDE DEF all
<1>5. all \in Gauge!GaugeState /\ GoodUsers(all) /\ Funded(all)
  BY <1>4 DEF GoodGauge
<1>6. pots \in [Users -> Int] /\ SumFunctionOnSet(pots, Users) \in Nat
  BY <1>2, <1>5, PotFacts
<1>7. ASSUME NEW u \in Users
      PROVE  due[u] \in Nat /\ RewardPrecision * due[u] <= pots[u]
  <2> DEFINE q == Gauge!SettleUser(all, u, w[u])
  <2>1. /\ GoodGauge(q, ledger, scheduled)
        /\ RewardPrecision * q.user[u].toClaim
             <= RewardPrecision * all.user[u].toClaim + (all.inv - all.user[u].lastInv) * w[u]
    BY <1>1, <1>2, <1>4, SettleFacts
  <2>2. due[u] = q.user[u].toClaim
    OBVIOUS
  <2>3. pots[u] = RewardPrecision * all.user[u].toClaim
                    + (all.inv - all.user[u].lastInv) * w[u]
    BY DEF GaugePots
  <2> HIDE DEF q, due, pots
  <2>4. q.user[u].toClaim \in Nat
    BY <2>1, GaugeTypes DEF GoodGauge
  <2> QED
    BY <2>1, <2>2, <2>3, <2>4
<1>8. due \in [Users -> Int] /\ due \in [Users -> Nat]
  BY <1>7
<1>9. [u \in Users |-> Settled.user[u].toClaim] = due
  BY <1>3
<1> HIDE DEF due, pots
<1>10. RewardPrecision * SumFunctionOnSet(due, Users) <= SumFunctionOnSet(pots, Users)
  BY <1>6, <1>7, <1>8, SumScaled, UsersAssumption, RewardPrecisionAssumption
<1>11. SumFunctionOnSet(due, Users) \in Nat
  BY <1>8, SumNat, UsersAssumption
<1> DEFINE d == SumFunctionOnSet(due, Users)
           k == all.claimed + d
<1>12. /\ all.claimed \in Nat /\ all.accumulated \in Nat /\ k \in Nat
       /\ RewardPrecision \in Nat \ {0}
  BY <1>5, <1>11, GaugeTypes, RewardPrecisionAssumption
<1>13. RewardPrecision * k <= RewardPrecision * all.accumulated
  <2>1. RewardPrecision * all.claimed + SumFunctionOnSet(pots, Users)
          <= RewardPrecision * all.accumulated
    BY <1>4 DEF GaugeCovered, pots
  <2> HIDE DEF d
  <2>2. /\ RewardPrecision * k = RewardPrecision * all.claimed + RewardPrecision * d
        /\ RewardPrecision * d \in Int /\ RewardPrecision * all.claimed \in Int
        /\ RewardPrecision * all.accumulated \in Int
    BY <1>11, <1>12 DEF d
  <2> HIDE DEF k
  <2> QED
    BY <1>6, <1>10, <2>1, <2>2 DEF d
<1>14. k <= all.accumulated
  <2> HIDE DEF k
  <2> QED BY <1>12, <1>13, MulCancel
<1>15. d <= all.accumulated - all.claimed
  BY <1>11, <1>12, <1>14
<1>16. SumFunctionOnSet([u \in Users |-> Settled.user[u].toClaim], Users) = d
  BY <1>9, Zenon
<1> HIDE DEF d
<1> QED
  BY <1>3, <1>15, <1>16

\* As long as the gauge stays on the pool, every user can claim all he earned.
THEOREM GaugePaysEveryone == Spec => []CapNeverBites
BY SettledWithin, GaugesInvariant, PTL

-----------------------------------------------------------------------------
(* Powers of the page size                                                 *)

\* f is the table of the powers up to n.
PowerTable(f, base, n) ==
    f[0] = 1 /\ \A i \in 1..n : f[i] = base * f[i - 1]

\* There is a table of any length,
LEMMA PowerTableExists ==
    ASSUME NEW base \in Nat, NEW n \in Nat
    PROVE  \E f \in [0..n -> Nat] : PowerTable(f, base, n)
<1> DEFINE g == [i \in 1..n |-> [x \in Nat |-> base * x]]
<1>1. g \in [1..n -> [Nat -> Nat]] /\ 1 \in Nat
  BY MulNat
<1>2. PICK f \in [0..n -> Nat] : Recursion(f, n, 1, g)
  <2> HIDE DEF g
  <2> QED BY <1>1, RecursionExists
<1>3. f = [i \in 0..n |-> IF i = 0 THEN 1 ELSE g[i][f[i - 1]]]
  BY <1>2 DEF Recursion
<1>4. 0 \in 0..n /\ \A i \in 1..n : i # 0 /\ i \in 0..n /\ i - 1 \in 0..n
  OBVIOUS
<1>5. f[0] = 1
  BY <1>3, <1>4
<1>6. ASSUME NEW i \in 1..n PROVE f[i] = base * f[i - 1]
  <2>1. f[i] = g[i][f[i - 1]] /\ f[i - 1] \in Nat
    BY <1>3, <1>4
  <2> QED
    BY <2>1
<1> QED
  BY <1>5, <1>6 DEF PowerTable

\* a longer one continues a shorter one,
LEMMA PowerTablesAgree ==
    ASSUME NEW base \in Nat, NEW n \in Nat, NEW m \in Nat, n <= m,
           NEW f, PowerTable(f, base, n), NEW h, PowerTable(h, base, m)
    PROVE  \A i \in 0..n : f[i] = h[i]
<1> DEFINE T == {i \in 0..n : f[i] = h[i]}
<1>1. 0 \in T
  BY DEF PowerTable
<1>2. ASSUME NEW i \in 1..n, i - 1 \in T PROVE i \in T
  BY <1>2 DEF PowerTable
<1>3. \A i \in 0..n : i \in T
  <2> HIDE DEF T
  <2> QED BY <1>1, <1>2, BoundedInduction
<1> QED
  BY <1>3

\* so the recursion of Powers has a solution.
LEMMA PowersAreThere ==
    ASSUME NEW base \in Nat
    PROVE  \E f : f = [n \in Nat |-> IF n = 0 THEN 1 ELSE base * f[n - 1]]
<1> DEFINE Table(n) == CHOOSE f \in [0..n -> Nat] : PowerTable(f, base, n)
           f == [n \in Nat |-> Table(n)[n]]
<1>1. \A n \in Nat : Table(n) \in [0..n -> Nat] /\ PowerTable(Table(n), base, n)
  BY PowerTableExists
<1> HIDE DEF Table
<1>2. f[0] = 1
  BY <1>1 DEF PowerTable
<1>3. ASSUME NEW n \in Nat, n # 0 PROVE f[n] = base * f[n - 1]
  <2>1. n - 1 \in Nat /\ n \in 1..n /\ n - 1 \in 0..(n - 1) /\ n - 1 <= n
    BY <1>3
  <2>2. Table(n)[n] = base * Table(n)[n - 1]
    BY <1>1, <2>1 DEF PowerTable
  <2>3. Table(n - 1)[n - 1] = Table(n)[n - 1]
    BY <1>1, <2>1, PowerTablesAgree
  <2> QED
    BY <2>1, <2>2, <2>3
<1>4. f = [n \in Nat |-> IF n = 0 THEN 1 ELSE base * f[n - 1]]
  <2>1. \A n \in Nat : f[n] = IF n = 0 THEN 1 ELSE base * f[n - 1]
    BY <1>2, <1>3
  <2>2. f = [n \in Nat |-> f[n]]
    OBVIOUS
  <2> HIDE DEF f
  <2> QED
    BY <2>1, <2>2
<1> HIDE DEF f
<1> QED
  BY <1>4

\* Powers grow faster than their exponents.
LEMMA PowersFacts ==
    ASSUME NEW base \in Nat \ {0, 1}
    PROVE  /\ Powers(base)[0] = 1
           /\ \A n \in Nat : /\ Powers(base)[n + 1] = base * Powers(base)[n]
                             /\ Powers(base)[n] \in Nat
                             /\ n + 1 <= Powers(base)[n]
<1> DEFINE P(f) == f = [n \in Nat |-> IF n = 0 THEN 1 ELSE base * f[n - 1]]
           p == CHOOSE f : P(f)
           T == {n \in Nat : p[n] \in Nat /\ n + 1 <= p[n]}
<1>1. Powers(base) = p
  BY DEF Powers
<1>2. \E f : P(f)
  BY PowersAreThere
<1>3. P(p)
  <2> HIDE DEF P
  <2> QED BY <1>2
<1>4. \A n \in Nat : p[n] = IF n = 0 THEN 1 ELSE base * p[n - 1]
  <2> HIDE DEF p
  <2> QED BY <1>3
<1> HIDE DEF p
<1>5. p[0] = 1
  BY <1>4
<1>6. ASSUME NEW n \in Nat PROVE p[n + 1] = base * p[n]
  <2>1. n + 1 \in Nat /\ n + 1 # 0 /\ (n + 1) - 1 = n
    OBVIOUS
  <2> QED
    BY <1>4, <2>1
<1>7. 0 \in T
  BY <1>5
<1>8. ASSUME NEW n \in T PROVE n + 1 \in T
  <2>1. n \in Nat /\ p[n] \in Nat /\ n + 1 <= p[n] /\ p[n + 1] = base * p[n]
    BY <1>6
  <2>2. base * p[n] \in Nat /\ 2 * p[n] <= base * p[n]
    BY <2>1, MulMono, MulNat
  <2> QED
    BY <2>1, <2>2
<1>9. T = Nat
  <2>1. T \in SUBSET Nat
    OBVIOUS
  <2> HIDE DEF T
  <2> QED BY <1>7, <1>8, <2>1, NatSetInduction
<1>10. \A n \in Nat : p[n] \in Nat /\ n + 1 <= p[n]
  BY <1>9
<1> HIDE DEF T, P
<1> QED
  BY <1>1, <1>5, <1>6, <1>10

-----------------------------------------------------------------------------
(* Cells and levels                                                        *)

\* The number of the cell of a block among all cells of its level.
CellNumber(pow, b) == b \div CellSize(pow)

\* A cell of one level is pageSize cells of the level below.
LEMMA SizeFacts ==
    ASSUME pageSize \in PageSizes
    PROVE  /\ pageSize \in Nat \ {0, 1} /\ CellSize(0) = 1
           /\ \A pow \in Nat : /\ CellSize(pow) \in Nat \ {0}
                               /\ pow + 1 <= CellSize(pow)
                               /\ CellSize(pow + 1) = CellSize(pow) * pageSize
                               /\ CellSize(pow) < CellSize(pow + 1)
<1>1. pageSize \in Nat \ {0, 1}
  BY PagesAssumption DEF PagesAssumption
<1>2. CellSize(0) = 1
  BY <1>1, PowersFacts DEF CellSize
<1>3. ASSUME NEW pow \in Nat
      PROVE  /\ CellSize(pow) \in Nat \ {0}
             /\ pow + 1 <= CellSize(pow)
             /\ CellSize(pow + 1) = CellSize(pow) * pageSize
             /\ CellSize(pow) < CellSize(pow + 1)
  <2>1. /\ CellSize(pow + 1) = pageSize * CellSize(pow)
        /\ CellSize(pow) \in Nat /\ pow + 1 <= CellSize(pow)
    BY <1>1, PowersFacts DEF CellSize
  <2>2. 2 * CellSize(pow) <= pageSize * CellSize(pow) /\ pageSize * CellSize(pow) \in Nat
    BY <1>1, <2>1, MulMono, MulNat
  <2>3. pageSize * CellSize(pow) = CellSize(pow) * pageSize
    BY <1>1, <2>1
  <2> QED
    BY <2>1, <2>2, <2>3
<1> QED
  BY <1>1, <1>2, <1>3

\* The cell of a block, and its place in its page.
LEMMA CellFacts ==
    ASSUME pageSize \in PageSizes, NEW pow \in Nat, NEW b \in Nat
    PROVE  /\ CellNumber(pow, b) \in Nat /\ PageNumber(pow, b) \in Nat
           /\ CellIdx(pow, b) \in 0..(pageSize - 1)
           /\ PageNumber(pow, b) = CellNumber(pow, b) \div pageSize
           /\ CellIdx(pow, b) = CellNumber(pow, b) % pageSize
           /\ CellNumber(pow, b) = PageNumber(pow, b) * pageSize + CellIdx(pow, b)
<1> DEFINE c == CellSize(pow)
           g == b \div c
<1>1. c \in Nat \ {0} /\ pageSize \in Nat \ {0}
  BY SizeFacts
<1>2. PageNumber(pow, b) = b \div (c * pageSize) /\ CellIdx(pow, b) = (b % (c * pageSize)) \div c
      /\ CellNumber(pow, b) = g
  BY DEF PageNumber, CellIdx, CellNumber
<1> HIDE DEF c
<1>3. PageNumber(pow, b) = g \div pageSize /\ CellIdx(pow, b) = g % pageSize
  BY <1>1, <1>2, DivTwice
<1>4. g \in Nat
  BY <1>1, DivFacts
<1> HIDE DEF g
<1>5. g \div pageSize \in Nat /\ g % pageSize \in 0..(pageSize - 1)
      /\ g = (g \div pageSize) * pageSize + (g % pageSize)
  BY <1>1, <1>4, DivFacts, ModFacts
<1> QED
  BY <1>2, <1>3, <1>4, <1>5

\* LevelsOf without its bound, which loses no level.
LEMMA LevelIs ==
    ASSUME pageSize \in PageSizes, NEW pow \in Nat, NEW b \in Nat
    PROVE  pow \in LevelsOf(b) <=> pow = 0 \/ CellSize(pow - 1) <= b + 1
<1>1. CASE pow = 0
  BY <1>1 DEF LevelsOf
<1>2. CASE pow # 0
  <2>1. pow - 1 \in Nat /\ CellSize(pow - 1) \in Nat /\ (pow - 1) + 1 <= CellSize(pow - 1)
    BY <1>2, SizeFacts
  <2>2. CellSize(pow - 1) <= b + 1 => pow \in 0..(b + 1)
    BY <2>1
  <2> QED
    BY <1>2, <2>1, <2>2 DEF LevelsOf
<1> QED
  BY <1>1, <1>2

\* A level that was begun stays in use.
LEMMA LevelsGrow ==
    ASSUME pageSize \in PageSizes, NEW pow \in Nat, NEW b \in Nat, NEW x \in 0..b,
           pow \in LevelsOf(x)
    PROVE  pow \in LevelsOf(b)
<1>1. pow = 0 \/ pow - 1 \in Nat
  OBVIOUS
<1>2. pow # 0 => CellSize(pow - 1) \in Nat
  BY <1>1, SizeFacts
<1> QED
  BY <1>1, <1>2, LevelIs

\* A level is on its first cell as long as it is not written.
LEMMA LateLevel ==
    ASSUME pageSize \in PageSizes, NEW pow \in Nat, pow # 0, NEW b \in Nat,
           b = 0 \/ pow \notin LevelsOf(b)
    PROVE  /\ CellNumber(pow, b + 1) = 0
           /\ PageNumber(pow, b + 1) = 0 /\ CellIdx(pow, b + 1) = 0
<1>1. pow - 1 \in Nat /\ (pow - 1) + 1 = pow /\ b + 1 \in Nat
  OBVIOUS
<1>2. /\ CellSize(pow) \in Nat \ {0} /\ CellSize(pow - 1) \in Nat
      /\ CellSize(pow - 1) < CellSize(pow) /\ pow + 1 <= CellSize(pow)
  BY <1>1, SizeFacts
<1>3. b + 1 < CellSize(pow)
  <2>1. CASE b = 0
    BY <1>2, <2>1
  <2>2. CASE pow \notin LevelsOf(b)
    BY <1>2, <2>2, LevelIs
  <2> QED
    BY <2>1, <2>2
<1>4. CellNumber(pow, b + 1) = 0
  <2> DEFINE c == CellSize(pow)
  <2>1. 0 * c <= b + 1 /\ b + 1 < (0 + 1) * c
    BY <1>2, <1>3
  <2>2. (b + 1) \div c = 0
    <3> HIDE DEF c
    <3>1. c \in Nat \ {0}
      BY <1>2 DEF c
    <3> QED
      BY <1>1, <2>1, <3>1, DivIs
  <2> QED
    BY <2>2 DEF CellNumber
<1>5. pageSize \in Nat \ {0} /\ 0 \div pageSize = 0 /\ 0 % pageSize = 0
  <2>1. pageSize \in Nat \ {0}
    BY SizeFacts
  <2> QED
    BY <2>1
<1> QED
  BY <1>1, <1>4, <1>5, CellFacts

-----------------------------------------------------------------------------
(* What the pages hold                                                     *)

BegunBy(pow, last) == last > 0 /\ pow \in LevelsOf(last)

\* The cells of a page that were begun by block last.
PageLength(pow, n, last) ==
    IF pow = 0 THEN pageSize
    ELSE IF ~BegunBy(pow, last) \/ n > PageNumber(pow, last) THEN 0
    ELSE IF n < PageNumber(pow, last) THEN pageSize
    ELSE CellIdx(pow, last) + 1

\* The blocks up to last that a cell sums.
BlocksOf(pow, c, last) == {b \in 1..last : pow \in LevelsOf(b) /\ CellNumber(pow, b) = c}

PageOK(pow, n) ==
    LET page == GetRewardInvData(pow, n)
    IN /\ page \in Seq(Nat) /\ Len(page) = PageLength(pow, n, block)
       /\ \A i \in 1..Len(page) :
             page[i] = SumFunctionOnSet(added, BlocksOf(pow, n * pageSize + (i - 1), block))

PagesInv ==
    /\ pageSize \in PageSizes /\ block \in 0..MaxBlock
    /\ added \in Seq(Nat) /\ Len(added) = block
    /\ \A pow \in Nat, n \in Nat : PageOK(pow, n)

\* The next block belongs to the last cell of its page, or to the one after.
LEMMA NextCell ==
    ASSUME pageSize \in PageSizes, NEW pow \in Nat, pow # 0, NEW b \in Nat,
           pow \in LevelsOf(b + 1)
    PROVE  LET len == PageLength(pow, PageNumber(pow, b + 1), b)
           IN len = CellIdx(pow, b + 1) \/ len = CellIdx(pow, b + 1) + 1
<1>1. CASE ~BegunBy(pow, b)
  <2>1. PageLength(pow, PageNumber(pow, b + 1), b) = 0
    BY <1>1 DEF PageLength
  <2>2. CellIdx(pow, b + 1) = 0
    BY <1>1, LateLevel DEF BegunBy
  <2> QED
    BY <2>1, <2>2
<1>2. CASE BegunBy(pow, b)
  <2> DEFINE g == CellNumber(pow, b)
             h == CellNumber(pow, b + 1)
             p == pageSize
  <2>1. /\ g \in Nat /\ h \in Nat /\ p \in Nat \ {0}
        /\ PageNumber(pow, b) = g \div p /\ CellIdx(pow, b) = g % p
        /\ PageNumber(pow, b + 1) = h \div p /\ CellIdx(pow, b + 1) = h % p
    <3>1. b + 1 \in Nat
      OBVIOUS
    <3> QED
      BY <3>1, CellFacts, SizeFacts
  <2>2. h = g \/ h = g + 1
    <3>1. CellSize(pow) \in Nat \ {0}
      BY SizeFacts
    <3> QED
      BY <3>1, DivNext DEF CellNumber
  <2> HIDE DEF g, h
  <2>3. CASE h = g
    BY <1>2, <2>1, <2>3 DEF PageLength
  <2>4. CASE h = g + 1
    <3>1. /\ g \div p \in Nat /\ h \div p \in Nat
          /\ g % p \in 0..(p - 1) /\ h % p \in 0..(p - 1)
          /\ g = (g \div p) * p + (g % p) /\ h = (h \div p) * p + (h % p)
      BY <2>1, DivFacts, ModFacts
    <3>2. h \div p = g \div p \/ h \div p = (g \div p) + 1
      BY <2>1, <2>4, DivNext
    <3>3. CASE h \div p = g \div p
      <4>1. h % p = (g % p) + 1
        <5> DEFINE k == (g \div p) * p
        <5>1. k \in Nat /\ g = k + (g % p) /\ h = k + (h % p)
          BY <2>1, <3>1, <3>3, MulNat
        <5> HIDE DEF k
        <5> QED
          BY <2>4, <3>1, <5>1
      <4>2. PageLength(pow, PageNumber(pow, b + 1), b) = (g % p) + 1
        BY <1>2, <2>1, <3>1, <3>3 DEF PageLength
      <4> QED
        BY <2>1, <3>1, <4>1, <4>2
    <3>4. CASE h \div p = (g \div p) + 1
      <4>1. h % p = 0
        <5> DEFINE k == (g \div p) * p
        <5>1. k \in Nat /\ ((g \div p) + 1) * p = k + p
          BY <2>1, <3>1, MulNat
        <5>2. g = k + (g % p) /\ h = (k + p) + (h % p)
          BY <3>1, <3>4, <5>1
        <5> HIDE DEF k
        <5> QED
          BY <2>1, <2>4, <3>1, <5>1, <5>2
      <4>2. PageLength(pow, PageNumber(pow, b + 1), b) = 0
        BY <2>1, <3>1, <3>4 DEF PageLength
      <4> QED
        BY <2>1, <4>1, <4>2
    <3> QED
      BY <3>2, <3>3, <3>4
  <2> QED
    BY <2>2, <2>3, <2>4
<1> QED
  BY <1>1, <1>2

\* The other pages stay as long as they are.
LEMMA OtherPages ==
    ASSUME pageSize \in PageSizes, NEW pow \in Nat, NEW n \in Nat, NEW b \in Nat,
           pow \notin LevelsOf(b + 1) \/ n # PageNumber(pow, b + 1)
    PROVE  PageLength(pow, n, b + 1) = PageLength(pow, n, b)
<1>1. CASE pow = 0
  BY <1>1 DEF PageLength
<1>2. CASE pow # 0 /\ pow \notin LevelsOf(b + 1)
  <2>1. pow \notin LevelsOf(b)
    BY <1>2, LevelsGrow
  <2> QED
    BY <1>2, <2>1 DEF PageLength, BegunBy
<1>3. CASE pow # 0 /\ pow \in LevelsOf(b + 1) /\ ~BegunBy(pow, b)
  <2>1. PageNumber(pow, b + 1) = 0
    BY <1>3, LateLevel DEF BegunBy
  <2> QED
    BY <1>3, <2>1 DEF PageLength
<1>4. CASE pow # 0 /\ pow \in LevelsOf(b + 1) /\ BegunBy(pow, b)
  <2> DEFINE g == CellNumber(pow, b)
             h == CellNumber(pow, b + 1)
             p == pageSize
  <2>1. /\ g \in Nat /\ h \in Nat /\ p \in Nat \ {0}
        /\ PageNumber(pow, b) = g \div p /\ CellIdx(pow, b) = g % p
        /\ PageNumber(pow, b + 1) = h \div p
    <3>1. b + 1 \in Nat
      OBVIOUS
    <3> QED
      BY <3>1, CellFacts, SizeFacts
  <2>2. h = g \/ h = g + 1
    <3>1. CellSize(pow) \in Nat \ {0}
      BY SizeFacts
    <3> QED
      BY <3>1, DivNext DEF CellNumber
  <2>3. BegunBy(pow, b + 1)
    BY <1>4 DEF BegunBy
  <2> HIDE DEF g, h
  <2>4. /\ g \div p \in Nat /\ h \div p \in Nat
        /\ g % p \in 0..(p - 1) /\ h % p \in 0..(p - 1)
        /\ g = (g \div p) * p + (g % p) /\ h = (h \div p) * p + (h % p)
    BY <2>1, DivFacts, ModFacts
  <2>5. \/ h \div p = g \div p
        \/ h = g + 1 /\ h \div p = (g \div p) + 1
    BY <2>1, <2>2, DivNext
  <2>6. CASE h \div p = g \div p
    BY <1>4, <2>1, <2>3, <2>4, <2>6 DEF PageLength
  <2>7. CASE h = g + 1 /\ h \div p = (g \div p) + 1
    <3>1. (g % p) + 1 = p
      <4> DEFINE k == (g \div p) * p
      <4>1. k \in Nat /\ ((g \div p) + 1) * p = k + p
        BY <2>1, <2>4, MulNat
      <4>2. g = k + (g % p) /\ h = (k + p) + (h % p)
        BY <2>4, <2>7, <4>1
      <4> HIDE DEF k
      <4> QED
        BY <2>1, <2>4, <2>7, <4>1, <4>2
    <3> QED
      BY <1>4, <2>1, <2>3, <2>4, <2>7, <3>1 DEF PageLength
  <2> QED
    BY <2>5, <2>6, <2>7
<1> QED
  BY <1>1, <1>2, <1>3, <1>4

\* Blocks are positions in the history.
LEMMA BlocksFacts ==
    ASSUME NEW pow, NEW c, NEW last \in Nat
    PROVE  /\ BlocksOf(pow, c, last) \in SUBSET (1..last)
           /\ IsFiniteSet(BlocksOf(pow, c, last))
<1>1. BlocksOf(pow, c, last) \in SUBSET (1..last)
  BY DEF BlocksOf
<1>2. IsFiniteSet(1..last)
  BY FS_Interval
<1> QED
  BY <1>1, <1>2, FS_Subset

\* One more block joins one cell of each of its levels.
LEMMA BlocksNext ==
    ASSUME NEW pow, NEW c, NEW b \in Nat
    PROVE  BlocksOf(pow, c, b + 1) =
             IF pow \in LevelsOf(b + 1) /\ CellNumber(pow, b + 1) = c
             THEN BlocksOf(pow, c, b) \cup {b + 1}
             ELSE BlocksOf(pow, c, b)
<1>1. 1..(b + 1) = (1..b) \cup {b + 1}
  OBVIOUS
<1> QED
  BY <1>1 DEF BlocksOf

\* A cell no block was added to.
LEMMA NoBlocks ==
    ASSUME pageSize \in PageSizes, NEW pow \in Nat, NEW c \in Nat, NEW last \in Nat,
           ~BegunBy(pow, last) \/ c > CellNumber(pow, last)
    PROVE  BlocksOf(pow, c, last) = {}
<1> SUFFICES ASSUME NEW b \in 1..last, pow \in LevelsOf(b), CellNumber(pow, b) = c
             PROVE  FALSE
  BY DEF BlocksOf
<1>1. b \in 0..last /\ b \in Nat /\ last > 0 /\ b <= last
  OBVIOUS
<1>2. BegunBy(pow, last)
  BY <1>1, LevelsGrow DEF BegunBy
<1>3. CellSize(pow) \in Nat \ {0}
  BY SizeFacts
<1>4. CellNumber(pow, b) <= CellNumber(pow, last)
  BY <1>1, <1>3, DivMono DEF CellNumber
<1>5. CellNumber(pow, last) \in Nat
  BY CellFacts
<1> QED
  BY <1>2, <1>4, <1>5

\* Every cell holds the sum of its blocks, also one that is not there yet.
LEMMA CellIs ==
    ASSUME PagesInv, NEW pow \in Nat, NEW b \in Nat
    PROVE  Cell(pow, b) = SumFunctionOnSet(added, BlocksOf(pow, CellNumber(pow, b), block))
<1> DEFINE n == PageNumber(pow, b)
           page == GetRewardInvData(pow, n)
           i == CellIdx(pow, b) + 1
           c == CellNumber(pow, b)
<1>1. /\ pageSize \in PageSizes /\ block \in Nat
      /\ n \in Nat /\ i \in 1..pageSize /\ c \in Nat /\ c = n * pageSize + (i - 1)
      /\ pageSize \in Nat \ {0}
  <2>1. pageSize \in PageSizes /\ block \in Nat
    BY PagesAssumption DEF PagesInv, PagesAssumption
  <2>2. pageSize \in Nat \ {0, 1} /\ CellIdx(pow, b) \in 0..(pageSize - 1)
    BY <2>1, SizeFacts, CellFacts
  <2>3. /\ n \in Nat /\ c \in Nat /\ c = n * pageSize + CellIdx(pow, b)
        /\ n * pageSize \in Nat
    BY <2>1, <2>2, CellFacts, MulNat
  <2>4. i - 1 = CellIdx(pow, b) /\ i \in 1..pageSize
    BY <2>2
  <2> HIDE DEF n, c, i
  <2> QED
    BY <2>1, <2>2, <2>3, <2>4
<1>2. /\ page \in Seq(Nat) /\ Len(page) = PageLength(pow, n, block)
      /\ \A j \in 1..Len(page) :
            page[j] = SumFunctionOnSet(added, BlocksOf(pow, n * pageSize + (j - 1), block))
  BY <1>1 DEF PagesInv, PageOK
<1>3. Cell(pow, b) = IF i \in DOMAIN page THEN page[i] ELSE 0
  BY DEF Cell
<1>4. DOMAIN page = 1..Len(page) /\ Len(page) \in Nat
  BY <1>2, LenProperties
<1> HIDE DEF page
<1>5. CASE i <= Len(page)
  <2>1. i \in 1..Len(page)
    BY <1>1, <1>4, <1>5
  <2> HIDE DEF i, n, c
  <2> QED
    BY <1>1, <1>2, <1>3, <1>4, <2>1 DEF c
<1>6. CASE i > Len(page)
  <2> DEFINE m == PageNumber(pow, block)
             j == CellIdx(pow, block)
  <2>1. /\ m \in Nat /\ j \in 0..(pageSize - 1)
        /\ CellNumber(pow, block) = m * pageSize + j /\ CellNumber(pow, block) \in Nat
    BY <1>1, CellFacts
  <2>2. \/ ~BegunBy(pow, block)
        \/ n > m
        \/ n = m /\ i > j + 1
    <3> HIDE DEF n, i
    <3> QED
      BY <1>1, <1>2, <1>6, <2>1 DEF PageLength
  <2>3. ~BegunBy(pow, block) \/ c > CellNumber(pow, block)
    <3> HIDE DEF n, i, c, m, j
    <3>1. CASE n > m
      <4>1. (m + 1) * pageSize <= n * pageSize /\ (m + 1) * pageSize = m * pageSize + pageSize
            /\ m * pageSize \in Nat /\ n * pageSize \in Nat
        BY <1>1, <2>1, <3>1, MulMono, MulNat
      <4> QED
        BY <1>1, <2>1, <4>1
    <3>2. CASE n = m /\ i > j + 1
      <4>1. m * pageSize \in Nat
        BY <1>1, <2>1, MulNat
      <4> QED
        BY <1>1, <2>1, <3>2, <4>1
    <3> QED
      BY <2>2, <3>1, <3>2
  <2>4. BlocksOf(pow, c, block) = {}
    BY <1>1, <2>3, NoBlocks
  <2>5. SumFunctionOnSet(added, {}) = 0
    <3>1. added \in [1..Len(added) -> Int]
      BY LenProperties DEF PagesInv
    <3> QED
      BY <3>1, SumEmpty
  <2>6. Cell(pow, b) = 0
    BY <1>3, <1>4, <1>6
  <2> QED
    BY <2>4, <2>5, <2>6
<1> QED
  BY <1>1, <1>4, <1>5, <1>6

\* Two functions that agree on what is summed.
LEMMA SumSameOn ==
    ASSUME NEW D, NEW fun \in [D -> Int], NEW E, NEW gun \in [E -> Int],
           NEW S \in SUBSET D, IsFiniteSet(S), S \in SUBSET E,
           \A x \in S : gun[x] = fun[x]
    PROVE  SumFunctionOnSet(gun, S) = SumFunctionOnSet(fun, S)
BY SumPart

\* Sums over the values when there is one more.
LEMMA SumsNext ==
    ASSUME NEW n \in Nat, NEW s \in Seq(Nat), Len(s) = n, NEW v \in Nat,
           NEW S \in SUBSET (1..n), IsFiniteSet(S)
    PROVE  /\ SumFunctionOnSet(Append(s, v), S) = SumFunctionOnSet(s, S)
           /\ SumFunctionOnSet(Append(s, v), S \cup {n + 1}) = SumFunctionOnSet(s, S) + v
           /\ SumFunctionOnSet(s, S) \in Nat
<1> DEFINE t == Append(s, v)
           D == 1..n
           E == 1..(n + 1)
           x == n + 1
           U == S
<1>1. s \in [D -> Nat]
  BY LenProperties
<1>2. /\ t \in Seq(Nat) /\ Len(t) = n + 1
      /\ \A i \in D : t[i] = s[i]
      /\ t[n + 1] = v
  BY AppendProperties
<1>3. t \in [E -> Nat]
  <2> HIDE DEF t
  <2>1. t \in [1..Len(t) -> Nat]
    BY <1>2, LenProperties
  <2> QED
    BY <1>2, <2>1
<1>4. \A i \in D : i \in E /\ i # x
  OBVIOUS
<1> HIDE DEF t
<1>5. IsFiniteSet(U)
  OBVIOUS
<1>6. s \in [D -> Int] /\ t \in [E -> Int]
  <2> HIDE DEF D, E
  <2> QED
    BY <1>1, <1>3
<1>7. U \in SUBSET D /\ U \in SUBSET E
  BY <1>4
<1>8. x \in E /\ x \notin U
  BY <1>4
<1> HIDE DEF D, E, x, U
<1>9. \A i \in U : t[i] = s[i]
  BY <1>2, <1>7
<1>10. \A i \in U : s[i] \in Nat
  BY <1>1, <1>7
<1>11. /\ SumFunctionOnSet(t, U) = SumFunctionOnSet(s, U)
      /\ SumFunctionOnSet(t, U \cup {x}) = SumFunctionOnSet(s, U) + t[x]
      /\ SumFunctionOnSet(s, U) \in Nat
  <2>1. SumFunctionOnSet(s, U) \in Nat
    BY ONLY <1>5, <1>6, <1>7, <1>10, SumNat
  <2>2. SumFunctionOnSet(t, U \cup {x}) = SumFunctionOnSet(s, U) + t[x]
    BY ONLY <1>5, <1>6, <1>7, <1>9, <1>8, SumAdd
  <2>3. SumFunctionOnSet(t, U) = SumFunctionOnSet(s, U)
    BY ONLY <1>5, <1>6, <1>7, <1>9, SumSameOn
  <2> QED
    BY <2>1, <2>2, <2>3
<1> QED
  BY <1>2, <1>11 DEF t, x, U

-----------------------------------------------------------------------------
(* A block is added                                                        *)

\* The next block has its place on every level, and what stands there.
LEMMA NextPage ==
    ASSUME PagesInv, NEW b \in Nat, b = block + 1, NEW pow \in LevelsOf(b)
    PROVE  LET page == GetRewardInvData(pow, PageNumber(pow, b))
           IN /\ pow \in Nat /\ PageNumber(pow, b) \in Nat
              /\ page \in Seq(Nat) /\ Len(page) \in Nat /\ Len(page) <= pageSize
              /\ CellIdx(pow, b) \in Nat /\ CellIdx(pow, b) <= Len(page)
              /\ PageLength(pow, PageNumber(pow, b), b)
                   = IF pow > 0 /\ CellIdx(pow, b) = Len(page) THEN Len(page) + 1 ELSE Len(page)
              /\ Cell(pow, b) \in Nat
<1> DEFINE n == PageNumber(pow, b)
           i == CellIdx(pow, b)
           page == GetRewardInvData(pow, n)
<1>1. /\ pageSize \in PageSizes /\ block \in Nat /\ pow \in Nat
      /\ pageSize \in Nat \ {0, 1}
  <2>1. pageSize \in PageSizes /\ block \in Nat
    BY PagesAssumption DEF PagesInv, PagesAssumption
  <2>2. pow \in Nat
    BY DEF LevelsOf
  <2> QED
    BY <2>1, <2>2, SizeFacts
<1>2. n \in Nat /\ i \in 0..(pageSize - 1)
  BY <1>1, CellFacts
<1>3. page \in Seq(Nat) /\ Len(page) = PageLength(pow, n, block)
      /\ \A j \in 1..Len(page) : page[j] \in Nat
  <2>1. page \in Seq(Nat) /\ Len(page) = PageLength(pow, n, block)
    BY <1>1, <1>2 DEF PagesInv, PageOK
  <2> HIDE DEF page
  <2> QED
    BY <2>1, ElementOfSeq
<1>4. Len(page) \in Nat
  BY <1>3, LenProperties
<1>5. i + 1 \in 1..Len(page) => page[i + 1] \in Nat
  BY <1>3
<1>6. Cell(pow, b) \in Nat
  <2>1. Cell(pow, b) = IF i + 1 \in DOMAIN page THEN page[i + 1] ELSE 0
    BY DEF Cell
  <2>2. DOMAIN page = 1..Len(page)
    BY <1>3, LenProperties
  <2> HIDE DEF page, i
  <2> QED
    BY <1>3, <2>1, <2>2
<1>7. CASE pow = 0
  <2>1. Len(page) = pageSize /\ PageLength(pow, n, b) = pageSize
    BY <1>3, <1>7 DEF PageLength
  <2> QED
    BY <1>1, <1>2, <1>3, <1>4, <1>6, <1>7, <2>1
<1>8. CASE pow # 0
  <2>1. Len(page) = i \/ Len(page) = i + 1
    BY <1>1, <1>3, <1>8, NextCell
  <2>2. PageLength(pow, n, b) = i + 1
    <3>1. BegunBy(pow, b)
      BY <1>1 DEF BegunBy
    <3> QED
      BY <1>2, <1>8, <3>1 DEF PageLength
  <2> HIDE DEF page, i, n
  <2>3. Len(page) <= pageSize /\ i \in Nat /\ i <= Len(page)
    BY <1>1, <1>2, <2>1
  <2>4. PageLength(pow, n, b) = IF pow > 0 /\ i = Len(page) THEN Len(page) + 1 ELSE Len(page)
    BY <1>1, <1>2, <1>8, <2>1, <2>2
  <2> QED
    BY <1>1, <1>2, <1>3, <1>4, <1>6, <2>3, <2>4 DEF page, i, n
<1> QED
  BY <1>7, <1>8

\* The page the next block is added to.
LEMMA PageWithFacts ==
    ASSUME PagesInv, NEW b \in Nat, b = block + 1, NEW pow \in LevelsOf(b), NEW v \in Nat
    PROVE  LET n    == PageNumber(pow, b)
               i    == CellIdx(pow, b) + 1
               page == GetRewardInvData(pow, n)
               new  == PageWith(pow, b, v)
           IN /\ new \in Seq(Nat) /\ Len(new) = PageLength(pow, n, b)
              /\ i \in 1..Len(new) /\ new[i] = Cell(pow, b) + v
              /\ \A j \in 1..Len(new) : j # i => j \in 1..Len(page) /\ new[j] = page[j]
<1> DEFINE n == PageNumber(pow, b)
           i == CellIdx(pow, b) + 1
           page == GetRewardInvData(pow, n)
           x == Cell(pow, b) + v
           new == PageWith(pow, b, v)
<1>1. /\ pow \in Nat /\ page \in Seq(Nat) /\ Len(page) \in Nat
      /\ i \in Nat \ {0} /\ i <= Len(page) + 1 /\ x \in Nat
      /\ PageLength(pow, n, b) = IF pow > 0 /\ i = Len(page) + 1 THEN Len(page) + 1 ELSE Len(page)
      /\ pow = 0 => i <= Len(page)
  <2> DEFINE k == CellIdx(pow, b)
  <2>1. /\ pow \in Nat /\ page \in Seq(Nat) /\ Len(page) \in Nat
        /\ k \in Nat /\ k <= Len(page) /\ Cell(pow, b) \in Nat
        /\ PageLength(pow, n, b) = IF pow > 0 /\ k = Len(page) THEN Len(page) + 1 ELSE Len(page)
    BY NextPage
  <2>2. pow = 0 => k < Len(page)
    <3>1. pageSize \in PageSizes
      BY DEF PagesInv
    <3>2. pow = 0 => Len(page) = pageSize
      <4>1. n \in Nat
        BY NextPage
      <4>2. PageOK(pow, n)
        BY <2>1, <4>1 DEF PagesInv
      <4> QED
        BY <4>2 DEF PageOK, PageLength
    <3>3. pageSize \in Nat /\ k \in 0..(pageSize - 1)
      BY <2>1, <3>1, CellFacts, SizeFacts
    <3> HIDE DEF k, page
    <3> QED
      BY <3>2, <3>3
  <2> HIDE DEF k, page, n
  <2> QED
    BY <2>1, <2>2 DEF k
<1>2. new = IF pow > 0 /\ i = Len(page) + 1 THEN Append(page, x) ELSE [page EXCEPT ![i] = x]
  BY DEF PageWith
<1> HIDE DEF n, i, page, x, new
<1>3. CASE pow > 0 /\ i = Len(page) + 1
  <2>1. new = Append(page, x) /\ PageLength(pow, n, b) = Len(page) + 1
    BY <1>1, <1>2, <1>3
  <2>2. /\ new \in Seq(Nat) /\ Len(new) = Len(page) + 1
        /\ \A j \in 1..Len(page) : new[j] = page[j]
        /\ new[Len(page) + 1] = x
    BY <1>1, <2>1, AppendProperties
  <2> QED
    BY <1>1, <1>3, <2>1, <2>2 DEF n, i, page, x, new
<1>4. CASE ~(pow > 0 /\ i = Len(page) + 1)
  <2>1. /\ new = [page EXCEPT ![i] = x] /\ PageLength(pow, n, b) = Len(page)
        /\ i \in 1..Len(page)
    BY <1>1, <1>2, <1>4
  <2>2. /\ new \in Seq(Nat) /\ Len(new) = Len(page)
        /\ \A j \in 1..Len(page) : new[j] = IF j = i THEN x ELSE page[j]
    BY <1>1, <2>1, ExceptSeq
  <2> QED
    BY <1>1, <2>1, <2>2 DEF n, i, page, x, new
<1> QED
  BY <1>3, <1>4

\* Nothing is written, and nothing is to be summed.
LEMMA PagesStart == PagesInit => PagesInv
<1> SUFFICES ASSUME PagesInit PROVE PagesInv
  OBVIOUS
<1>1. /\ pageSize \in PageSizes /\ block = 0 /\ pages = <<>> /\ added = <<>>
      /\ MaxBlock \in Nat
  BY PagesAssumption DEF PagesInit, PagesAssumption
<1>2. added \in Seq(Nat) /\ Len(added) = 0
  BY <1>1
<1>3. pageSize \in Nat
  BY <1>1, SizeFacts
<1>4. ASSUME NEW pow \in Nat, NEW n \in Nat PROVE PageOK(pow, n)
  <2> DEFINE page == GetRewardInvData(pow, n)
  <2>1. <<pow, n>> \notin DOMAIN pages /\ \A i : i \notin DOMAIN << >>
    BY <1>1
  <2>2. page = IF pow = 0 THEN [i \in 1..pageSize |-> 0] ELSE <<>>
    <3>1. page = IF pow = 0
                 THEN [i \in 1..pageSize |-> IF i \in DOMAIN << >> THEN << >>[i] ELSE 0]
                 ELSE <<>>
      BY <2>1 DEF GetRewardInvData
    <3>2. [i \in 1..pageSize |-> IF i \in DOMAIN << >> THEN << >>[i] ELSE 0]
            = [i \in 1..pageSize |-> 0]
      BY <2>1, Zenon
    <3> HIDE DEF page
    <3> QED
      BY <3>1, <3>2, Zenon
  <2>3. PageLength(pow, n, block) = IF pow = 0 THEN pageSize ELSE 0
    BY <1>1 DEF PageLength, BegunBy
  <2>4. \A c : SumFunctionOnSet(added, BlocksOf(pow, c, block)) = 0
    <3>1. \A c : BlocksOf(pow, c, block) = {}
      BY <1>1 DEF BlocksOf
    <3>2. added \in [1..0 -> Int]
      BY <1>1
    <3>3. SumFunctionOnSet(added, {}) = 0
      BY <3>2, SumEmpty
    <3> QED
      BY <3>1, <3>3
  <2>5. /\ page \in Seq(Nat) /\ Len(page) = PageLength(pow, n, block)
        /\ \A i \in 1..Len(page) : page[i] = 0
    <3> HIDE DEF page
    <3> QED
      BY <1>3, <2>2, <2>3
  <2> HIDE DEF page
  <2> QED
    BY <2>4, <2>5 DEF PageOK, page
<1> QED
  BY <1>1, <1>2, <1>4 DEF PagesInv

\* The page size is fixed, so the cells are where they were.
LEMMA SizesStay ==
    ASSUME pageSize' = pageSize
    PROVE  /\ \A pow : CellSize(pow)' = CellSize(pow)
           /\ \A b : LevelsOf(b)' = LevelsOf(b)
           /\ \A pow, b : /\ PageNumber(pow, b)' = PageNumber(pow, b)
                          /\ CellIdx(pow, b)' = CellIdx(pow, b)
                          /\ CellNumber(pow, b)' = CellNumber(pow, b)
           /\ \A pow, n, last : PageLength(pow, n, last)' = PageLength(pow, n, last)
           /\ \A pow, c, last : BlocksOf(pow, c, last)' = BlocksOf(pow, c, last)
<1>1. \A pow : CellSize(pow)' = CellSize(pow)
  BY DEF CellSize
<1>2. \A b : LevelsOf(b)' = LevelsOf(b)
  BY <1>1 DEF LevelsOf
<1>3. \A pow, b : /\ PageNumber(pow, b)' = PageNumber(pow, b)
                  /\ CellIdx(pow, b)' = CellIdx(pow, b)
                  /\ CellNumber(pow, b)' = CellNumber(pow, b)
  BY <1>1 DEF PageNumber, CellIdx, CellNumber
<1>4. \A pow, n, last : PageLength(pow, n, last)' = PageLength(pow, n, last)
  BY <1>2, <1>3 DEF PageLength, BegunBy
<1>5. \A pow, c, last : BlocksOf(pow, c, last)' = BlocksOf(pow, c, last)
  BY <1>2, <1>3 DEF BlocksOf
<1> QED
  BY <1>1, <1>2, <1>3, <1>4, <1>5

\* The pages once a block is added.
LEMMA PagesAfter ==
    ASSUME PagesInv, NEW v \in Values, AddRewardInv(v), NEW b, b = block + 1,
           NEW pow \in Nat, NEW n \in Nat
    PROVE  GetRewardInvData(pow, n)' =
             IF pow \in LevelsOf(b) /\ n = PageNumber(pow, b)
             THEN PageWith(pow, b, v)
             ELSE GetRewardInvData(pow, n)
<1> DEFINE written == {<<q, PageNumber(q, b)>> : q \in LevelsOf(b)}
           after == [key \in written \cup DOMAIN pages |->
                        IF key \in written THEN PageWith(key[1], b, v) ELSE pages[key]]
           key == <<pow, n>>
           hit == pow \in LevelsOf(b) /\ n = PageNumber(pow, b)
<1>1. pages' = after /\ pageSize' = pageSize
  BY DEF AddRewardInv
<1>2. b \in Nat /\ block \in Nat
  BY PagesAssumption DEF PagesInv, PagesAssumption
<1>3. key \in written <=> hit
  OBVIOUS
<1>4. key[1] = pow
  OBVIOUS
<1> HIDE DEF written, key
<1>5. DOMAIN pages' = written \cup DOMAIN pages
  BY <1>1, Zenon
<1>6. CASE hit
  <2>1. key \in DOMAIN pages' /\ pages'[key] = PageWith(pow, b, v)
    BY <1>1, <1>3, <1>4, <1>5, <1>6, Zenon
  <2> DEFINE w == PageWith(pow, b, v)
  <2>2. GetRewardInvData(pow, n)' =
          IF pow = 0 THEN [i \in 1..pageSize |-> IF i \in DOMAIN w THEN w[i] ELSE 0] ELSE w
    <3>1. (IF <<pow, n>> \in DOMAIN pages' THEN pages'[<<pow, n>>] ELSE <<>>) = w
      BY <2>1 DEF key
    <3> HIDE DEF w
    <3> QED
      BY <1>1, <3>1 DEF GetRewardInvData
  <2>3. pow = 0 => w \in Seq(Nat) /\ Len(w) = pageSize
    <3>1. v \in Nat
      BY PagesAssumption DEF PagesAssumption
    <3>2. w \in Seq(Nat) /\ Len(w) = PageLength(pow, n, b)
      BY <1>2, <1>6, <3>1, PageWithFacts
    <3> QED
      BY <3>2 DEF PageLength
  <2> HIDE DEF w
  <2>4. pow = 0 => w = [i \in 1..pageSize |-> IF i \in DOMAIN w THEN w[i] ELSE 0]
    <3>1. pow = 0 => DOMAIN w = 1..pageSize /\ w = [i \in 1..pageSize |-> w[i]]
      BY <2>3, LenProperties
    <3> QED
      BY <3>1
  <2> QED
    BY <1>6, <2>2, <2>4 DEF w
<1>7. CASE ~hit
  <2>1. key \in DOMAIN pages' <=> key \in DOMAIN pages
    BY <1>3, <1>5, <1>7
  <2>2. key \in DOMAIN pages => pages'[key] = pages[key]
    BY <1>1, <1>3, <1>5, <1>7, Zenon
  <2>3. (IF <<pow, n>> \in DOMAIN pages' THEN pages'[<<pow, n>>] ELSE <<>>)
          = (IF <<pow, n>> \in DOMAIN pages THEN pages[<<pow, n>>] ELSE <<>>)
    BY <2>1, <2>2 DEF key
  <2>4. GetRewardInvData(pow, n)' = GetRewardInvData(pow, n)
    BY <1>1, <2>3 DEF GetRewardInvData
  <2> QED
    BY <1>7, <2>4
<1> QED
  BY <1>6, <1>7

\* The sum of a cell once a block is added.
LEMMA CellSumNext ==
    ASSUME PagesInv, NEW v \in Nat, NEW b \in Nat, b = block + 1, NEW pow \in Nat, NEW c
    PROVE  SumFunctionOnSet(Append(added, v), BlocksOf(pow, c, b)) =
             IF pow \in LevelsOf(b) /\ CellNumber(pow, b) = c
             THEN SumFunctionOnSet(added, BlocksOf(pow, c, block)) + v
             ELSE SumFunctionOnSet(added, BlocksOf(pow, c, block))
<1> DEFINE S == BlocksOf(pow, c, block)
           R == BlocksOf(pow, c, b)
           hit == pow \in LevelsOf(b) /\ CellNumber(pow, b) = c
<1>1. block \in Nat /\ added \in Seq(Nat) /\ Len(added) = block
  BY PagesAssumption DEF PagesInv, PagesAssumption
<1>2. S \in SUBSET (1..block) /\ IsFiniteSet(S)
  BY <1>1, BlocksFacts
<1>3. R = IF hit THEN S \cup {block + 1} ELSE S
  <2>1. BlocksOf(pow, c, block + 1) =
          IF pow \in LevelsOf(block + 1) /\ CellNumber(pow, block + 1) = c
          THEN BlocksOf(pow, c, block) \cup {block + 1}
          ELSE BlocksOf(pow, c, block)
    <3>1. block \in Nat
      BY <1>1
    <3> QED
      BY ONLY <3>1, BlocksNext, Zenon
  <2>2. b = block + 1
    OBVIOUS
  <2> QED
    BY ONLY <2>1, <2>2
<1> HIDE DEF S, R, hit
<1>4. /\ SumFunctionOnSet(Append(added, v), S) = SumFunctionOnSet(added, S)
      /\ SumFunctionOnSet(Append(added, v), S \cup {block + 1}) = SumFunctionOnSet(added, S) + v
      /\ SumFunctionOnSet(added, S) \in Nat
  <2>1. v \in Nat
    OBVIOUS
  <2> QED
    BY <1>1, <1>2, <2>1, SumsNext
<1>5. SumFunctionOnSet(Append(added, v), R) =
        IF hit THEN SumFunctionOnSet(added, S) + v ELSE SumFunctionOnSet(added, S)
  BY <1>3, <1>4
<1> QED
  BY <1>5 DEF S, R, hit

\* add_reward_inv keeps every page what it stands for.
LEMMA PagesStep == PagesInv /\ [PagesNext]_pageVars => PagesInv'
<1> SUFFICES ASSUME PagesInv, [PagesNext]_pageVars PROVE PagesInv'
  OBVIOUS
<1>1. CASE UNCHANGED pageVars
  <2>1. pageSize' = pageSize /\ pages' = pages /\ block' = block /\ added' = added
    BY <1>1 DEF pageVars
  <2>2. ASSUME NEW pow \in Nat, NEW n \in Nat PROVE PageOK(pow, n)'
    <3>1. GetRewardInvData(pow, n)' = GetRewardInvData(pow, n)
      BY <2>1 DEF GetRewardInvData
    <3>2. PageLength(pow, n, block)' = PageLength(pow, n, block)
      BY <2>1, SizesStay
    <3>3. \A c : BlocksOf(pow, c, block)' = BlocksOf(pow, c, block)
      BY <2>1, SizesStay
    <3>4. PageOK(pow, n)
      BY DEF PagesInv
    <3> QED
      BY <2>1, <3>1, <3>2, <3>3, <3>4 DEF PageOK
  <2> QED
    BY <2>1, <2>2 DEF PagesInv
<1>2. ASSUME NEW v \in Values, AddRewardInv(v) PROVE PagesInv'
  <2> DEFINE b == block + 1
  <2>1. /\ block \in Nat /\ b \in Nat /\ b <= MaxBlock /\ v \in Nat /\ MaxBlock \in Nat
        /\ pageSize \in PageSizes /\ added \in Seq(Nat) /\ Len(added) = block
        /\ pageSize' = pageSize /\ block' = b /\ added' = Append(added, v)
        /\ pageSize \in Nat \ {0}
    <3>1. pageSize \in PageSizes /\ block \in 0..MaxBlock /\ MaxBlock \in Nat /\ v \in Nat
      BY PagesAssumption DEF PagesInv, PagesAssumption
    <3>2. block < MaxBlock
      BY <1>2 DEF AddRewardInv
    <3> QED
      BY <1>2, <3>1, <3>2, SizeFacts DEF PagesInv, AddRewardInv
  <2> HIDE DEF b
  <2>2. /\ pageSize' \in PageSizes /\ block' \in 0..MaxBlock
        /\ added' \in Seq(Nat) /\ Len(added') = block'
    <3>1. Append(added, v) \in Seq(Nat) /\ Len(Append(added, v)) = block + 1
      BY <2>1, AppendProperties
    <3> QED
      BY <2>1, <3>1 DEF b
  <2>3. ASSUME NEW pow \in Nat, NEW n \in Nat PROVE PageOK(pow, n)'
    <3> DEFINE hit == pow \in LevelsOf(b) /\ n = PageNumber(pow, b)
               old == GetRewardInvData(pow, n)
               new == PageWith(pow, b, v)
               page == GetRewardInvData(pow, n)'
               sum(i) == SumFunctionOnSet(Append(added, v), BlocksOf(pow, n * pageSize + (i - 1), b))
               was(i) == SumFunctionOnSet(added, BlocksOf(pow, n * pageSize + (i - 1), block))
    <3>1. page = IF hit THEN new ELSE old
      BY <1>2, PagesAfter DEF b
    <3>2. /\ old \in Seq(Nat) /\ Len(old) = PageLength(pow, n, block)
          /\ \A i \in 1..Len(old) : old[i] = was(i)
      BY DEF PagesInv, PageOK
    <3>3. \A i : sum(i) = IF pow \in LevelsOf(b) /\ CellNumber(pow, b) = n * pageSize + (i - 1)
                          THEN was(i) + v ELSE was(i)
      <4>1. b = block + 1
        BY DEF b
      <4>2. \A c : SumFunctionOnSet(Append(added, v), BlocksOf(pow, c, b)) =
                     IF pow \in LevelsOf(b) /\ CellNumber(pow, b) = c
                     THEN SumFunctionOnSet(added, BlocksOf(pow, c, block)) + v
                     ELSE SumFunctionOnSet(added, BlocksOf(pow, c, block))
        BY <2>1, <4>1, CellSumNext
      <4> QED
        BY <4>2
    <3>4. /\ PageNumber(pow, b) \in Nat
          /\ CellIdx(pow, b) \in 0..(pageSize - 1)
          /\ CellNumber(pow, b) = PageNumber(pow, b) * pageSize + CellIdx(pow, b)
      BY <2>1, CellFacts
    <3>5. /\ page \in Seq(Nat) /\ Len(page) = PageLength(pow, n, b)
          /\ \A i \in 1..Len(page) : page[i] = sum(i)
      <4>1. CASE hit
        <5> DEFINE k == CellIdx(pow, b) + 1
                   low == n * pageSize
        <5>1. /\ new \in Seq(Nat) /\ Len(new) = PageLength(pow, n, b)
              /\ k \in 1..Len(new) /\ new[k] = Cell(pow, b) + v
              /\ \A j \in 1..Len(new) : j # k => j \in 1..Len(old) /\ new[j] = old[j]
          <6>1. pow \in LevelsOf(b) /\ n = PageNumber(pow, b)
            BY <4>1
          <6>2. b = block + 1
            BY DEF b
          <6>3. LET r    == PageNumber(pow, b)
                    i    == CellIdx(pow, b) + 1
                    pg   == GetRewardInvData(pow, r)
                    next == PageWith(pow, b, v)
                IN /\ next \in Seq(Nat) /\ Len(next) = PageLength(pow, r, b)
                   /\ i \in 1..Len(next) /\ next[i] = Cell(pow, b) + v
                   /\ \A j \in 1..Len(next) : j # i => j \in 1..Len(pg) /\ next[j] = pg[j]
            <7>1. b \in Nat /\ v \in Nat /\ pow \in LevelsOf(b) /\ b = block + 1 /\ PagesInv
              BY <2>1, <6>1, <6>2
            <7> QED
              BY ONLY <7>1, PageWithFacts
          <6> QED
            BY <6>1, <6>3
        <5>2. Cell(pow, b) = was(k)
          <6>1. Cell(pow, b) = SumFunctionOnSet(added, BlocksOf(pow, CellNumber(pow, b), block))
            BY <2>1, CellIs
          <6>2. CellNumber(pow, b) = n * pageSize + (k - 1)
            BY <3>4, <4>1
          <6> QED
            BY <6>1, <6>2
        <5>3. low \in Nat /\ CellNumber(pow, b) = low + CellIdx(pow, b)
          BY <2>1, <3>4, <4>1, MulNat
        <5>4. \A i \in 1..Len(new) : new[i] = sum(i)
          <6> TAKE i \in 1..Len(new)
          <6>1. i \in Nat /\ k \in Nat /\ CellIdx(pow, b) \in Nat
            <7>1. Len(new) \in Nat
              BY <5>1, LenProperties
            <7> HIDE DEF new
            <7> QED
              BY <2>1, <3>4, <7>1
          <6>2. CellNumber(pow, b) = low + (i - 1) <=> i = k
            <7> HIDE DEF low
            <7> QED
              BY <5>3, <6>1
          <6>3. sum(i) = IF i = k THEN was(i) + v ELSE was(i)
            BY <3>3, <4>1, <6>2
          <6> HIDE DEF sum, was, new, old, k
          <6>4. CASE i = k
            BY <5>1, <5>2, <6>3, <6>4
          <6>5. CASE i # k
            BY <3>2, <5>1, <6>3, <6>5
          <6> QED
            BY <6>4, <6>5
        <5> HIDE DEF new, page, sum
        <5> QED
          BY <3>1, <4>1, <5>1, <5>4
      <4>2. CASE ~hit
        <5>1. PageLength(pow, n, b) = PageLength(pow, n, block)
          BY <2>1, <4>2, OtherPages DEF b
        <5>2. \A i \in 1..Len(old) : sum(i) = was(i)
          <6> TAKE i \in 1..Len(old)
          <6> SUFFICES ASSUME pow \in LevelsOf(b), CellNumber(pow, b) = n * pageSize + (i - 1)
                       PROVE  FALSE
            BY <3>3
          <6> DEFINE m == PageNumber(pow, b)
                     j == CellIdx(pow, b)
                     low == n * pageSize
                     high == m * pageSize
          <6>1. n # m
            BY <4>2
          <6>2. Len(old) \in Nat /\ Len(old) <= pageSize
            <7>1. Len(old) \in Nat
              BY <3>2, LenProperties
            <7>2. PageLength(pow, n, block) <= pageSize
              <8>1. CellIdx(pow, block) \in 0..(pageSize - 1)
                BY <2>1, CellFacts
              <8> QED
                BY <2>1, <8>1 DEF PageLength
            <7> QED
              BY <3>2, <7>1, <7>2
          <6> HIDE DEF old
          <6>3. i \in Nat /\ i >= 1 /\ i <= pageSize
            BY <2>1, <6>2
          <6>4. low + (i - 1) = high + j /\ low \in Nat /\ high \in Nat
                /\ m \in Nat /\ j \in 0..(pageSize - 1)
            BY <2>1, <3>4, MulNat
          <6>5. CASE n < m
            <7>1. (n + 1) * pageSize = n * pageSize + pageSize
              BY <2>1, <6>4
            <7> HIDE DEF j, m
            <7>2. n + 1 \in Nat /\ m \in Nat /\ n + 1 <= m
              BY <6>4, <6>5
            <7>3. (n + 1) * pageSize <= m * pageSize
              BY <2>1, <7>2, MulMono
            <7>4. low + pageSize <= high
              BY <7>1, <7>3
            <7> HIDE DEF low, high
            <7> QED
              BY <2>1, <6>3, <6>4, <7>4
          <6>6. CASE m < n
            <7>1. (m + 1) * pageSize = m * pageSize + pageSize
              BY <2>1, <6>4
            <7> HIDE DEF j, m
            <7>2. m + 1 \in Nat /\ n \in Nat /\ m + 1 <= n
              BY <6>4, <6>6
            <7>3. (m + 1) * pageSize <= n * pageSize
              BY <2>1, <7>2, MulMono
            <7>4. high + pageSize <= low
              BY <7>1, <7>3
            <7> HIDE DEF low, high
            <7> QED
              BY <2>1, <6>3, <6>4, <7>4
          <6> QED
            BY <6>1, <6>4, <6>5, <6>6
        <5> HIDE DEF old, page, sum, was
        <5> QED
          BY <3>1, <3>2, <4>2, <5>1, <5>2
      <4> QED
        BY <4>1, <4>2
    <3>6. /\ PageLength(pow, n, block)' = PageLength(pow, n, b)
          /\ \A c : BlocksOf(pow, c, block)' = BlocksOf(pow, c, b)
      BY <2>1, SizesStay
    <3>7. \A i : SumFunctionOnSet(added, BlocksOf(pow, n * pageSize + (i - 1), block))' = sum(i)
      <4>1. \A i : BlocksOf(pow, n * pageSize + (i - 1), block)'
                     = BlocksOf(pow, n * pageSize + (i - 1), b)
        BY <2>1, SizesStay
      <4> QED
        BY <2>1, <4>1
    <3> HIDE DEF sum
    <3> QED
      BY <3>5, <3>6, <3>7 DEF PageOK
  <2> QED
    BY <2>2, <2>3 DEF PagesInv
<1> QED
  BY <1>1, <1>2 DEF PagesNext

\* The pages hold what they stand for.
LEMMA PagesInvariant == PagesSpec => []PagesInv
BY PagesStart, PagesStep, PTL DEF PagesSpec

-----------------------------------------------------------------------------
(* Summing a range                                                         *)

\* The first k blocks of a range.
FirstOf(b, last, k) == {x \in b..last : x < b + k}

\* A range of the values is its first k blocks and the rest.
LEMMA RangeSplits ==
    ASSUME NEW n \in Nat, NEW s \in Seq(Nat), Len(s) = n, NEW b \in Nat \ {0}, NEW k \in Nat
    PROVE  SumFunctionOnSet(s, b..n) =
             SumFunctionOnSet(s, FirstOf(b, n, k)) + SumFunctionOnSet(s, (b + k)..n)
<1> DEFINE Lo(i) == {x \in b..n : x < b + i}
           Hi(i) == (b + i)..n
           Sum(S) == SumFunctionOnSet(s, S)
           T == {i \in Nat : Sum(b..n) = Sum(Lo(i)) + Sum(Hi(i))}
<1>1. s \in [1..n -> Int] /\ s \in [1..n -> Nat]
  BY LenProperties
<1>2. \A i \in Nat : /\ Lo(i) \in SUBSET (1..n) /\ Hi(i) \in SUBSET (1..n)
                     /\ IsFiniteSet(Lo(i)) /\ IsFiniteSet(Hi(i))
  <2>1. \A i \in Nat : Lo(i) \in SUBSET (1..n) /\ Hi(i) \in SUBSET (1..n)
    OBVIOUS
  <2>2. IsFiniteSet(1..n)
    BY FS_Interval
  <2> HIDE DEF Lo, Hi
  <2> QED
    BY <2>1, <2>2, FS_Subset
<1>3. \A i \in Nat : Sum(Lo(i)) \in Int /\ Sum(Hi(i)) \in Int
  <2> HIDE DEF Lo, Hi
  <2> QED
    BY <1>1, <1>2, SumInt
<1>4. 0 \in T
  <2>1. Lo(0) = {} /\ Hi(0) = b..n
    OBVIOUS
  <2>2. Sum({}) = 0
    BY <1>1, SumEmpty
  <2>3. Sum(Hi(0)) \in Int
    BY <1>3
  <2>4. Sum(Lo(0)) = 0 /\ Sum(b..n) = Sum(Hi(0))
    BY <2>1, <2>2
  <2> HIDE DEF Lo, Hi, Sum
  <2> QED
    BY <2>3, <2>4
<1>5. ASSUME NEW i \in T PROVE i + 1 \in T
  <2>1. i \in Nat /\ i + 1 \in Nat /\ Sum(b..n) = Sum(Lo(i)) + Sum(Hi(i))
    OBVIOUS
  <2>2. CASE b + i > n
    <3>1. Lo(i + 1) = Lo(i) /\ Hi(i + 1) = Hi(i)
      BY <2>1, <2>2
    <3> HIDE DEF Lo, Hi, Sum
    <3> QED
      BY <2>1, <3>1
  <2>3. CASE b + i <= n
    <3> DEFINE x == b + i
    <3>1. /\ Lo(i + 1) = Lo(i) \cup {x} /\ x \notin Lo(i) /\ x \in 1..n
          /\ x \in Hi(i) /\ Hi(i) \ {x} = Hi(i + 1)
      BY <2>1, <2>3
    <3> HIDE DEF Lo, Hi, x
    <3>2. Sum(Lo(i) \cup {x}) = Sum(Lo(i)) + s[x]
      <4>1. Lo(i) \in SUBSET (1..n) /\ IsFiniteSet(Lo(i)) /\ \A y \in Lo(i) : s[y] = s[y]
        BY <1>2, <2>1
      <4> QED
        BY <1>1, <3>1, <4>1, SumAdd
    <3>3. Sum(Hi(i)) = s[x] + Sum(Hi(i) \ {x})
      BY <1>1, <1>2, <2>1, <3>1, SumRemove
    <3>4. s[x] \in Int
      BY <1>1, <3>1
    <3>5. Sum(Lo(i)) \in Int /\ Sum(Hi(i + 1)) \in Int
      BY <1>3, <2>1
    <3>6. Sum(Lo(i + 1)) = Sum(Lo(i)) + s[x] /\ Sum(Hi(i)) = s[x] + Sum(Hi(i + 1))
      BY <3>1, <3>2, <3>3
    <3> HIDE DEF Sum
    <3> QED
      BY <2>1, <3>4, <3>5, <3>6
  <2> QED
    BY <2>1, <2>2, <2>3
<1>6. T = Nat
  <2>1. T \in SUBSET Nat
    OBVIOUS
  <2> HIDE DEF T
  <2> QED
    BY <1>4, <1>5, <2>1, NatSetInduction
<1>7. Lo(k) = FirstOf(b, n, k)
  BY DEF FirstOf
<1> QED
  BY <1>6, <1>7

\* The blocks of a cell that a jump begins with, at any block but 0.
LEMMA CellSpan ==
    ASSUME pageSize \in PageSizes, NEW pow \in Nat, NEW last \in Nat, NEW b \in 1..last,
           (b % CellSize(pow)) = 0
    PROVE  BlocksOf(pow, CellNumber(pow, b), last) = FirstOf(b, last, CellSize(pow))
<1> DEFINE c == CellSize(pow)
           q == b \div c
<1>1. /\ c \in Nat \ {0} /\ b \in Nat \ {0}
      /\ pow # 0 => pow - 1 \in Nat /\ CellSize(pow - 1) \in Nat /\ CellSize(pow - 1) < c
  <2>1. pow # 0 => pow - 1 \in Nat /\ (pow - 1) + 1 = pow
    OBVIOUS
  <2> QED
    BY <2>1, SizeFacts
<1>2. (b % c) = 0 /\ CellNumber(pow, b) = q /\ \A x : CellNumber(pow, x) = x \div c
  BY DEF CellNumber
<1>3. \A x \in 1..last : pow \in LevelsOf(x) <=> pow = 0 \/ CellSize(pow - 1) <= x + 1
  BY LevelIs
<1> HIDE DEF c
<1>4. q \in Nat /\ b = q * c
  BY <1>1, <1>2, DivFacts, ModFacts
<1> HIDE DEF q
<1>5. (q + 1) * c = b + c /\ q # 0 /\ c <= b
  <2>1. q # 0
    BY <1>1, <1>4
  <2>2. 1 * c <= q * c
    BY <1>1, <1>4, <2>1, MulMono
  <2> QED
    BY <1>1, <1>4, <2>1, <2>2
<1>6. ASSUME NEW x \in 1..last
      PROVE  pow \in LevelsOf(x) /\ CellNumber(pow, x) = q <=> b <= x /\ x < b + c
  <2>1. x \in Nat /\ CellNumber(pow, x) = x \div c
    BY <1>2
  <2>2. ASSUME x \div c = q PROVE b <= x /\ x < b + c
    BY <1>1, <1>4, <1>5, <2>1, <2>2, DivFacts
  <2>3. ASSUME b <= x, x < b + c PROVE x \div c = q
    BY <1>1, <1>4, <1>5, <2>1, <2>3, DivIs
  <2>4. ASSUME b <= x PROVE pow \in LevelsOf(x)
    BY <1>1, <1>3, <1>5, <2>1, <2>4
  <2> QED
    BY <2>1, <2>2, <2>3, <2>4
<1>7. BlocksOf(pow, q, last) = {x \in b..last : x < b + c}
  <2>1. \A x : x \in b..last <=> x \in 1..last /\ b <= x
    BY <1>1
  <2> QED
    BY <1>6, <2>1 DEF BlocksOf
<1> QED
  BY <1>2, <1>7 DEF c, FirstOf

\* A jump adds the blocks it passes over.
LEMMA JumpIsExact ==
    ASSUME PagesInv, NEW pow \in Nat, NEW b \in 1..block, (b % CellSize(pow)) = 0
    PROVE  PlainSum(b, block) = Cell(pow, b) + PlainSum(b + CellSize(pow), block)
<1> DEFINE c == CellSize(pow)
<1>1. /\ block \in Nat /\ added \in Seq(Nat) /\ Len(added) = block /\ pageSize \in PageSizes
      /\ b \in Nat \ {0}
  BY PagesAssumption DEF PagesInv, PagesAssumption
<1>2. c \in Nat
  BY <1>1, SizeFacts
<1>3. Cell(pow, b) = SumFunctionOnSet(added, FirstOf(b, block, c))
  <2>1. Cell(pow, b) = SumFunctionOnSet(added, BlocksOf(pow, CellNumber(pow, b), block))
    BY <1>1, CellIs
  <2>2. BlocksOf(pow, CellNumber(pow, b), block) = FirstOf(b, block, c)
    BY <1>1, CellSpan
  <2> QED
    BY <2>1, <2>2
<1> HIDE DEF c
<1>4. SumFunctionOnSet(added, b..block) =
        SumFunctionOnSet(added, FirstOf(b, block, c)) + SumFunctionOnSet(added, (b + c)..block)
  BY <1>1, <1>2, RangeSplits
<1> QED
  BY <1>3, <1>4 DEF PlainSum, c

\* There is a level whose cells are longer than any chain.
LEMMA MaxPowFacts ==
    ASSUME PagesInv, NEW start \in 1..(block + 1)
    PROVE  MaxPow(start, block) \in 1..254
<1> DEFINE P(pow) == /\ start + CellSize(pow) - 1 > block
                     /\ \A q \in 1..(pow - 1) : start + CellSize(q) - 1 <= block
           T == {pow \in 1..254 : start + CellSize(pow) - 1 > block}
<1>1. /\ pageSize \in PageSizes /\ block \in Nat /\ block <= MaxBlock /\ MaxBlock \in Nat
      /\ start \in Nat \ {0}
  BY PagesAssumption DEF PagesInv, PagesAssumption
<1>2. \A pow \in Nat : CellSize(pow) \in Nat
  BY <1>1, SizeFacts
<1>3. T # {}
  <2>1. PICK pow \in 1..253 : MaxBlock < Powers(pageSize)[pow]
    BY <1>1, PagesAssumption DEF PagesAssumption
  <2>2. CellSize(pow) \in Nat /\ MaxBlock < CellSize(pow)
    BY <1>2, <2>1 DEF CellSize
  <2> QED
    BY <1>1, <2>1, <2>2
<1>4. PICK pow \in T : \A q \in T : pow <= q
  <2>1. T \in SUBSET Nat
    OBVIOUS
  <2> HIDE DEF T
  <2> QED
    BY <1>3, <2>1, LeastElement
<1>5. pow \in 1..254 /\ P(pow)
  <2>1. \A q \in 1..(pow - 1) : q \in 1..254 /\ q \notin T /\ CellSize(q) \in Nat
    BY <1>2, <1>4
  <2> QED
    BY <1>1, <1>4, <2>1
<1>6. (CHOOSE x \in 1..254 : P(x)) \in 1..254
  <2> HIDE DEF P
  <2> QED
    BY <1>5
<1> QED
  BY <1>6 DEF MaxPow

\* Level 0 always takes the next step.
LEMMA JumpPowFacts ==
    ASSUME pageSize \in PageSizes, NEW b \in Nat, NEW m \in Nat
    PROVE  /\ JumpPow(b, m) \in 0..m
           /\ (b % CellSize(JumpPow(b, m))) = 0
<1> DEFINE Starts(pow) == (b % CellSize(pow)) = 0
           P(pow) == /\ (b % CellSize(pow)) = 0
                     /\ \A q \in (pow + 1)..m : (b % CellSize(q)) # 0
           T == {k \in 0..m : Starts(m - k)}
<1>1. m \in T
  <2>1. CellSize(0) = 1 /\ m - m = 0
    BY SizeFacts
  <2>2. (b % 1) = 0
    OBVIOUS
  <2> QED
    BY <2>1, <2>2
<1> HIDE DEF Starts
<1>2. PICK k \in T : \A l \in T : k <= l
  <2>1. T \in SUBSET Nat
    OBVIOUS
  <2> HIDE DEF T
  <2> QED
    BY <1>1, <2>1, LeastElement
<1> DEFINE pow == m - k
<1>3. pow \in 0..m /\ Starts(pow)
  BY <1>2
<1>4. ASSUME NEW q \in (pow + 1)..m PROVE ~Starts(q)
  <2>1. m - q \in 0..m /\ m - (m - q) = q /\ ~(k <= m - q)
    BY <1>2
  <2>2. m - q \notin T
    BY <1>2, <2>1
  <2> QED
    BY <2>1, <2>2
<1>5. P(pow)
  BY <1>3, <1>4 DEF Starts
<1>6. (CHOOSE x \in 0..m : P(x)) \in 0..m /\ P(CHOOSE x \in 0..m : P(x))
  <2> HIDE DEF P, pow
  <2> QED
    BY <1>3, <1>5
<1>7. JumpPow(b, m) = CHOOSE x \in 0..m : P(x)
  BY DEF JumpPow
<1> HIDE DEF P
<1>8. JumpPow(b, m) \in 0..m /\ P(JumpPow(b, m))
  BY <1>6, <1>7
<1> QED
  BY <1>8 DEF P

\* The sum of a range that begins after its end.
LEMMA NothingLeft ==
    ASSUME PagesInv, NEW b \in Nat, b > block
    PROVE  PlainSum(b, block) = 0
<1>1. b..block = {}
  BY PagesAssumption DEF PagesInv, PagesAssumption
<1>2. added \in [1..Len(added) -> Int]
  BY LenProperties DEF PagesInv
<1>3. SumFunctionOnSet(added, {}) = 0
  BY <1>2, SumEmpty
<1> QED
  BY <1>1, <1>3 DEF PlainSum

\* calculate_reward jumps from cell to cell without a gap or an overlap.
LEMMA CalculateRewardIsExact ==
    ASSUME PagesInv, NEW start \in 1..(block + 1)
    PROVE  CalculateReward(start, block) = PlainSum(start, block)
<1> DEFINE m == MaxPow(start, block)
           J(b) == JumpPow(b, m)
           C(b) == CellSize(J(b))
           Is(g) == g = [b \in Nat |-> IF b > block THEN 0 ELSE Cell(J(b), b) + g[b + C(b)]]
           ToEnd(b) == PlainSum(b, block)
           f == [b \in Nat |-> IF b > block THEN 0
                               ELSE IF b = 0 THEN Cell(J(0), 0) + ToEnd(C(0))
                               ELSE ToEnd(b)]
           from == CHOOSE g : Is(g)
<1>1. CalculateReward(start, block) = from[start]
  BY DEF CalculateReward
<1>2. pageSize \in PageSizes /\ block \in Nat /\ m \in Nat
  <2>1. m \in 1..254
    BY MaxPowFacts
  <2> HIDE DEF m
  <2> QED
    BY <2>1, PagesAssumption DEF PagesInv, PagesAssumption
<1> HIDE DEF m
<1>3. \A b \in Nat : J(b) \in Nat /\ (b % C(b)) = 0
  BY <1>2, JumpPowFacts
<1> HIDE DEF J
<1>4. \A b \in Nat : C(b) \in Nat \ {0}
  BY <1>2, <1>3, SizeFacts
<1>5. \A b \in 1..block : ToEnd(b) = Cell(J(b), b) + ToEnd(b + C(b))
  BY <1>3, JumpIsExact
<1>6. \A b \in Nat : b > block => ToEnd(b) = 0
  BY NothingLeft
<1> HIDE DEF C, ToEnd
<1>7. \A b \in Nat : b # 0 => f[b] = ToEnd(b)
  BY <1>6
<1>8. \A b \in Nat : f[b] = IF b > block THEN 0 ELSE Cell(J(b), b) + f[b + C(b)]
  <2> TAKE b \in Nat
  <2>1. b + C(b) \in Nat /\ b + C(b) # 0 /\ 0 + C(0) = C(0)
    BY <1>4
  <2>2. f[b + C(b)] = ToEnd(b + C(b))
    BY <1>7, <2>1
  <2>3. CASE b > block
    BY <2>3
  <2>4. CASE b = 0 /\ ~(b > block)
    BY <2>1, <2>2, <2>4
  <2>5. CASE b # 0 /\ ~(b > block)
    <3>1. b \in 1..block
      BY <1>2, <2>5
    <3> QED
      BY <1>5, <2>2, <2>5, <3>1
  <2> QED
    BY <2>3, <2>4, <2>5
<1>9. Is(f)
  <2>1. f = [b \in Nat |-> f[b]]
    OBVIOUS
  <2> HIDE DEF f
  <2> QED
    BY <1>8, <2>1
<1>10. Is(from)
  <2> HIDE DEF Is, f
  <2> QED
    BY <1>9
<1>11. \A b \in Nat : from[b] = IF b > block THEN 0 ELSE Cell(J(b), b) + from[b + C(b)]
  <2> HIDE DEF from
  <2> QED
    BY <1>10
<1> HIDE DEF from, Is, f
<1> DEFINE T == {k \in Nat : \A b \in Nat : b # 0 /\ b + k > block => from[b] = ToEnd(b)}
<1>12. 0 \in T
  BY <1>6, <1>11
<1>13. ASSUME NEW k \in T PROVE k + 1 \in T
  <2>1. k \in Nat /\ k + 1 \in Nat
    OBVIOUS
  <2>2. ASSUME NEW b \in Nat, b # 0, b + (k + 1) > block PROVE from[b] = ToEnd(b)
    <3>1. CASE b > block
      BY <1>6, <1>11, <3>1
    <3>2. CASE ~(b > block)
      <4>1. b \in 1..block /\ b + C(b) \in Nat /\ b + C(b) # 0 /\ (b + C(b)) + k > block
        BY <1>2, <1>4, <2>1, <2>2, <3>2
      <4>2. from[b + C(b)] = ToEnd(b + C(b))
        BY <4>1
      <4> QED
        BY <1>5, <1>11, <3>2, <4>1, <4>2
    <3> QED
      BY <3>1, <3>2
  <2> QED
    BY <2>1, <2>2
<1>14. T = Nat
  <2>1. T \in SUBSET Nat
    OBVIOUS
  <2> HIDE DEF T
  <2> QED
    BY <1>12, <1>13, <2>1, NatSetInduction
<1>15. start \in Nat /\ start # 0 /\ start + block > block
  BY <1>2
<1>16. from[start] = ToEnd(start)
  BY <1>2, <1>14, <1>15
<1> QED
  BY <1>1, <1>16 DEF ToEnd

\* The next block always has a place.
LEMMA NextFits == PagesInv => NextBlockFits
<1> SUFFICES ASSUME PagesInv PROVE NextBlockFits
  OBVIOUS
<1>1. block + 1 \in Nat
  BY PagesAssumption DEF PagesInv, PagesAssumption
<1>2. ASSUME NEW pow \in LevelsOf(block + 1)
      PROVE  /\ FitsItsPage(pow, block + 1)
             /\ Len(GetRewardInvData(pow, PageNumber(pow, block + 1))) <= pageSize
  <2> DEFINE b == block + 1
             page == GetRewardInvData(pow, PageNumber(pow, b))
  <2>1. Len(page) <= pageSize /\ CellIdx(pow, b) <= Len(page)
    BY <1>1, NextPage
  <2> QED
    BY <2>1 DEF FitsItsPage
<1> QED
  BY <1>2 DEF NextBlockFits

\* What the pages stand for suffices.
LEMMA SumsAreExact == PagesInv => RangeSumsExact
BY CalculateRewardIsExact, NextFits DEF RangeSumsExact

\* The jumps of calculate_reward sum every range of blocks exactly, and the
\* next block always has its place on every level: for every page size, every
\* history and every length of the chain that 254 levels can hold.
THEOREM RangeSumsAlwaysExact == PagesSpec => []RangeSumsExact
BY PagesInvariant, SumsAreExact, PTL

=============================================================================
