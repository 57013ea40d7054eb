---------------------------- MODULE RouterProofs ----------------------------
(***************************************************************************)
(* Theorems about Router: everybody finds every pool, a pool of any tier   *)
(* can always be created, and the pools of a token set, however the        *)
(* registry, the votes and the liquidity change, are never handed more     *)
(* than the set's share of the global reward.  And about ProviderSwapFee,  *)
(* with RouterSwaps below it: the fees are where they belong, swaps leave  *)
(* nothing in the router, and the quote of a strict receive is enough.     *)
(***************************************************************************)
EXTENDS Router, ProviderSwapFee, Arithmetic

-----------------------------------------------------------------------------
(* The inductive invariant                                                 *)

Contracts == [liquidity : Nat, expiredAt : Nat, given : Nat]

\* The registry: a pool's address, and the index of a stableswap pool, carry a
\* number that the counter has passed.
PoolsOK ==
    /\ DOMAIN pools = TokenSets
    /\ \A ts \in TokenSets :
        /\ DOMAIN pools[ts] \subseteq Indexes
        /\ Cardinality(OfKind("stable", DOMAIN pools[ts])) <= StableswapMaxPools
        /\ \A i \in DOMAIN pools[ts] :
            /\ pools[ts][i] \in DOMAIN contract /\ pools[ts][i][1] = ts
            /\ i[1] = "stable" => i[2] \in 0..(poolCounter - 1)
    /\ poolCounter \in 0..MaxCounter

ContractsOK ==
    /\ IsFiniteSet(DOMAIN contract)
    /\ \A a \in DOMAIN contract :
        /\ contract[a] \in Contracts
        /\ a[1] \in TokenSets /\ a[3] \in 0..(poolCounter - 1)

RewardsTyped ==
    /\ rewardsConfig \in [tps : Nat, expiredAt : Nat]
    /\ rewardTokens # Missing =>
        /\ DOMAIN rewardTokens \in SUBSET TokenSets
        /\ rewardTokens \in [DOMAIN rewardTokens -> Infos]
    /\ DOMAIN detailed = TokenSets
    /\ \A ts \in TokenSets : detailed[ts] # Missing =>
        /\ DOMAIN detailed[ts] \in SUBSET Indexes
        /\ detailed[ts] \in [DOMAIN detailed[ts] -> Entries]

Processed(ts) ==
    rewardTokens # Missing /\ ts \in DOMAIN rewardTokens /\ rewardTokens[ts].processed

\* The liquidity in a snapshot, and the part of it that has got its reward.
Snapshot(d) == [i \in DOMAIN d |-> d[i].liquidity]
Configured(d) == [i \in DOMAIN d |-> IF d[i].configured THEN d[i].liquidity ELSE 0]

GivenIn(c, ts) ==
    [a \in {a \in DOMAIN c : a[1] = ts} |-> c[a].given]

\* A set that is not processed got nothing yet.  Of one that is, the pools have
\* got no more than the configured part of the snapshot is due.
Budget(ts) ==
    IF Processed(ts)
    THEN LET d == detailed[ts]
             given == Sum(GivenIn(contract, ts))
             info == rewardTokens[ts]
         IN  /\ d # Missing
             /\ info.total = Sum(Snapshot(d))
             /\ given * VoteScale * info.total
                  <= rewardsConfig.tps * info.share * Sum(Configured(d))
             /\ info.total = 0 => given = 0
    ELSE \A a \in DOMAIN contract : a[1] = ts => contract[a].given = 0

RouterInv ==
    /\ PoolsOK /\ ContractsOK /\ RewardsTyped
    /\ tokensSets \in Seq(TokenSets) /\ ledger \in 1..MaxLedger
    /\ EveryPoolListed
    /\ \A ts \in TokenSets : Budget(ts)

-----------------------------------------------------------------------------
(* The limits                                                              *)

\* A fee tier has one index, whatever the kind.
LEMMA TierIndexes ==
    /\ IsFiniteSet({Standard(fee) : fee \in StandardFees})
    /\ Cardinality({Standard(fee) : fee \in StandardFees}) <= Cardinality(StandardFees)
    /\ IsFiniteSet({Concentrated(fee) : fee \in ConcentratedFees})
    /\ Cardinality({Concentrated(fee) : fee \in ConcentratedFees})
         <= Cardinality(ConcentratedFees)
<1> DEFINE f == [fee \in StandardFees |-> Standard(fee)]
           g == [fee \in ConcentratedFees |-> Concentrated(fee)]
           S == {Standard(fee) : fee \in StandardFees}
           C == {Concentrated(fee) : fee \in ConcentratedFees}
<1>1. f \in Surjection(StandardFees, S) /\ g \in Surjection(ConcentratedFees, C)
  BY DEF Surjection
<1> HIDE DEF f, g, S, C
<1>2. IsFiniteSet(StandardFees) /\ IsFiniteSet(ConcentratedFees)
  BY RouterAssumption DEF RouterAssumption
<1>3. IsFiniteSet(S) /\ Cardinality(S) <= Cardinality(StandardFees)
  BY <1>1, <1>2, FS_Surjection
<1>4. IsFiniteSet(C) /\ Cardinality(C) <= Cardinality(ConcentratedFees)
  BY <1>1, <1>2, FS_Surjection
<1> QED
  BY <1>3, <1>4 DEF S, C

LEMMA IndexesFinite == IsFiniteSet(Indexes)
<1> DEFINE h == [n \in 1..MaxCounter |-> Stable(n)]
           T == {Stable(n) : n \in 1..MaxCounter}
<1>1. h \in Surjection(1..MaxCounter, T)
  BY DEF Surjection
<1>2. IsFiniteSet(1..MaxCounter)
  BY RouterAssumption, FS_Interval DEF RouterAssumption
<1>3. IsFiniteSet(T)
  <2> HIDE DEF h, T
  <2> QED
    BY <1>1, <1>2, FS_Surjection
<1> QED
  BY <1>3, TierIndexes, FS_Union DEF Indexes

\* The indexes of a token set: two kinds have as many as there are fee tiers.
LEMMA KindsOfIndexes ==
    ASSUME NEW D \in SUBSET Indexes
    PROVE  /\ IsFiniteSet(D)
           /\ IsFiniteSet(OfKind("stable", D))
           /\ IsFiniteSet(OfKind("concentrated", D))
           /\ Cardinality(OfKind("stable", D)) \in Nat
           /\ Cardinality(OfKind("concentrated", D)) <= Cardinality(ConcentratedFees)
           /\ Cardinality(D) <= Cardinality(StandardFees) + Cardinality(ConcentratedFees)
                                  + Cardinality(OfKind("stable", D))
<1> DEFINE S == {Standard(fee) : fee \in StandardFees}
           C == {Concentrated(fee) : fee \in ConcentratedFees}
           s == OfKind("stable", D)
           c == OfKind("concentrated", D)
           W == (S \cup C) \cup s
<1>1. IsFiniteSet(D)
  BY IndexesFinite, FS_Subset
<1>2. s \in SUBSET D /\ c \in SUBSET D /\ c \in SUBSET C /\ D \in SUBSET W
  BY DEF OfKind, Indexes, Standard, Concentrated, Stable
<1>3. /\ IsFiniteSet(S) /\ Cardinality(S) <= Cardinality(StandardFees)
      /\ IsFiniteSet(C) /\ Cardinality(C) <= Cardinality(ConcentratedFees)
      /\ Cardinality(StandardFees) \in Nat /\ Cardinality(ConcentratedFees) \in Nat
  BY TierIndexes, RouterAssumption, FS_CardinalityType DEF RouterAssumption
<1> HIDE DEF S, C, s, c
<1>4. IsFiniteSet(s) /\ Cardinality(s) \in Nat /\ IsFiniteSet(c) /\ Cardinality(c) \in Nat
  BY <1>1, <1>2, FS_Subset, FS_CardinalityType
<1>5. Cardinality(c) <= Cardinality(C)
  BY <1>2, <1>3, FS_Subset
<1>6. /\ IsFiniteSet(S \cup C) /\ IsFiniteSet((S \cup C) \cap s) /\ IsFiniteSet(S \cap C)
      /\ Cardinality(S \cup C) = Cardinality(S) + Cardinality(C) - Cardinality(S \cap C)
      /\ IsFiniteSet(W)
      /\ Cardinality(W) = Cardinality(S \cup C) + Cardinality(s)
                            - Cardinality((S \cup C) \cap s)
  BY <1>3, <1>4, FS_Union, FS_Intersection
<1>7. /\ Cardinality(S) \in Nat /\ Cardinality(C) \in Nat /\ Cardinality(S \cap C) \in Nat
      /\ Cardinality((S \cup C) \cap s) \in Nat
  BY <1>3, <1>6, FS_CardinalityType
<1>8. Cardinality(D) <= Cardinality(W) /\ Cardinality(D) \in Nat
  BY <1>1, <1>2, <1>6, FS_Subset, FS_CardinalityType
<1>9. Cardinality(D) <= Cardinality(StandardFees) + Cardinality(ConcentratedFees)
                          + Cardinality(s)
  <2> HIDE DEF W
  <2> QED
    BY <1>3, <1>4, <1>6, <1>7, <1>8
<1>10. Cardinality(c) <= Cardinality(ConcentratedFees)
  BY <1>3, <1>4, <1>5, <1>7
<1> QED
  BY <1>1, <1>4, <1>9, <1>10 DEF s, c

\* An index of another kind is no stableswap pool.
LEMMA TierIsRoomy ==
    ASSUME NEW D \in SUBSET Indexes, NEW index \in Indexes, index[1] # "stable",
           Cardinality(OfKind("stable", D)) <= StableswapMaxPools
    PROVE  /\ OfKind("stable", D \cup {index}) = OfKind("stable", D)
           /\ FitsLimits(D \cup {index}, index[1])
<1> DEFINE E == D \cup {index}
<1>1. E \in SUBSET Indexes
  OBVIOUS
<1>2. OfKind("stable", E) = OfKind("stable", D)
  BY DEF OfKind
<1> HIDE DEF E
<1>3. /\ Cardinality(OfKind("concentrated", E)) <= Cardinality(ConcentratedFees)
      /\ Cardinality(E) <= Cardinality(StandardFees) + Cardinality(ConcentratedFees)
                             + Cardinality(OfKind("stable", E))
      /\ Cardinality(OfKind("stable", E)) \in Nat
      /\ Cardinality(OfKind("concentrated", E)) \in Nat /\ Cardinality(E) \in Nat
  BY <1>1, KindsOfIndexes, FS_CardinalityType
<1>4. /\ Cardinality(ConcentratedFees) <= ConcentratedMaxPools
      /\ Cardinality(StandardFees) + Cardinality(ConcentratedFees) + StableswapMaxPools
           <= MaxPoolsForPair
      /\ StableswapMaxPools \in Nat /\ ConcentratedMaxPools \in Nat /\ MaxPoolsForPair \in Nat
      /\ Cardinality(StandardFees) \in Nat /\ Cardinality(ConcentratedFees) \in Nat
  BY RouterAssumption, FS_CardinalityType DEF RouterAssumption
<1>5. /\ Cardinality(OfKind("concentrated", E)) <= ConcentratedMaxPools
      /\ Cardinality(E) <= MaxPoolsForPair
  BY <1>2, <1>3, <1>4
<1> QED
  BY <1>2, <1>5 DEF FitsLimits, E

\* Room for every tier: what the invariant of the registry is for.
LEMMA PoolsRoomy ==
    ASSUME PoolsOK, ContractsOK
    PROVE  RoomForEveryTier
<1> SUFFICES ASSUME NEW ts \in TokenSets
             PROVE  AddressesFresh(ts) /\ TiersFit(ts)
  BY DEF RoomForEveryTier
<1>1. AddressesFresh(ts)
  <2>1. /\ poolCounter \in Nat
        /\ \A a \in DOMAIN contract : a[3] \in 0..(poolCounter - 1)
        /\ \A i \in DOMAIN pools[ts] : i[1] = "stable" => i[2] \in 0..(poolCounter - 1)
    BY DEF PoolsOK, ContractsOK
  <2> QED
    BY <2>1 DEF AddressesFresh, Address, Stable
<1>2. TiersFit(ts)
  <2>1. DOMAIN pools[ts] \in SUBSET Indexes
        /\ Cardinality(OfKind("stable", DOMAIN pools[ts])) <= StableswapMaxPools
    BY DEF PoolsOK
  <2>2. \A fee \in StandardFees :
            FitsLimits(DOMAIN pools[ts] \cup {Standard(fee)}, "standard")
    <3> SUFFICES ASSUME NEW fee \in StandardFees
                 PROVE  FitsLimits(DOMAIN pools[ts] \cup {Standard(fee)}, "standard")
      OBVIOUS
    <3>1. Standard(fee) \in Indexes /\ Standard(fee)[1] = "standard"
      BY DEF Indexes, Standard
    <3>2. Standard(fee)[1] # "stable"
      BY <3>1
    <3> QED
      BY <2>1, <3>1, <3>2, TierIsRoomy, Zenon
  <2>3. \A fee \in ConcentratedFees :
            FitsLimits(DOMAIN pools[ts] \cup {Concentrated(fee)}, "concentrated")
    <3> SUFFICES ASSUME NEW fee \in ConcentratedFees
                 PROVE  FitsLimits(DOMAIN pools[ts] \cup {Concentrated(fee)}, "concentrated")
      OBVIOUS
    <3>1. Concentrated(fee) \in Indexes /\ Concentrated(fee)[1] = "concentrated"
      BY DEF Indexes, Concentrated
    <3>2. Concentrated(fee)[1] # "stable"
      BY <3>1
    <3> QED
      BY <2>1, <3>1, <3>2, TierIsRoomy, Zenon
  <2> QED
    BY <2>2, <2>3 DEF TiersFit
<1> QED
  BY <1>1, <1>2

-----------------------------------------------------------------------------
(* What has been given                                                     *)

PoolsOf(c, ts) == {a \in DOMAIN c : a[1] = ts}

Well(c) == IsFiniteSet(DOMAIN c) /\ \A a \in DOMAIN c : c[a].given \in Nat

LEMMA GivenType ==
    ASSUME NEW c, Well(c), NEW ts
    PROVE  /\ GivenIn(c, ts) \in [PoolsOf(c, ts) -> Nat]
           /\ DOMAIN GivenIn(c, ts) = PoolsOf(c, ts)
           /\ IsFiniteSet(PoolsOf(c, ts))
           /\ Sum(GivenIn(c, ts)) = SumFunctionOnSet(GivenIn(c, ts), PoolsOf(c, ts))
           /\ Sum(GivenIn(c, ts)) \in Nat
<1>1. PoolsOf(c, ts) \in SUBSET DOMAIN c
  BY DEF PoolsOf
<1>2. IsFiniteSet(PoolsOf(c, ts))
  BY <1>1, FS_Subset DEF Well
<1>3. /\ GivenIn(c, ts) \in [PoolsOf(c, ts) -> Nat]
      /\ DOMAIN GivenIn(c, ts) = PoolsOf(c, ts)
      /\ GivenIn(c, ts) \in [PoolsOf(c, ts) -> Int]
  BY DEF GivenIn, PoolsOf, Well
<1>4. Sum(GivenIn(c, ts)) = SumFunctionOnSet(GivenIn(c, ts), PoolsOf(c, ts))
  BY <1>3, Zenon DEF Sum
<1>5. SumFunctionOnSet(GivenIn(c, ts), PoolsOf(c, ts)) \in Nat
  <2> DEFINE f == GivenIn(c, ts)
             P == PoolsOf(c, ts)
  <2>1. f \in [P -> Int] /\ \A x \in P : f[x] \in Nat
    BY <1>3
  <2> HIDE DEF f, P
  <2>2. SumFunctionOnSet(f, P) \in Nat
    BY <1>2, <2>1, SumNat DEF P
  <2> QED
    BY <2>2 DEF f, P
<1> QED
  BY <1>2, <1>3, <1>4, <1>5

\* The same pools with the same rewards.
LEMMA GivenSame ==
    ASSUME NEW c, NEW k, DOMAIN c = DOMAIN k, NEW ts,
           \A a \in DOMAIN c : a[1] = ts => c[a].given = k[a].given
    PROVE  GivenIn(c, ts) = GivenIn(k, ts)
BY DEF GivenIn

\* A new pool has none.
LEMMA GivenToNew ==
    ASSUME NEW c, Well(c), NEW a, a \notin DOMAIN c, NEW ts
    PROVE  Sum(GivenIn(With(c, a, NewContract), ts)) = Sum(GivenIn(c, ts))
<1> DEFINE k == With(c, a, NewContract)
           f == GivenIn(c, ts)
           g == GivenIn(k, ts)
           P == PoolsOf(c, ts)
           Q == PoolsOf(k, ts)
<1>1. /\ DOMAIN k = DOMAIN c \cup {a} /\ k[a] = NewContract
      /\ \A b \in DOMAIN c : k[b] = c[b]
  BY DEF With
<1>2. NewContract.given = 0
  BY DEF NewContract
<1>3. Well(k)
  BY <1>1, <1>2, FS_AddElement DEF Well
<1>4. /\ f \in [P -> Nat] /\ IsFiniteSet(P) /\ Sum(f) = SumFunctionOnSet(f, P)
      /\ g \in [Q -> Nat] /\ IsFiniteSet(Q) /\ Sum(g) = SumFunctionOnSet(g, Q)
      /\ Sum(f) \in Nat
  <2> HIDE DEF k
  <2> QED
    BY <1>3, GivenType
<1>5. /\ P = Q \ {a} /\ a \notin P /\ Q \in {P, P \cup {a}} /\ P \in SUBSET Q
      /\ (\A x \in P : g[x] = f[x]) /\ (a \in Q => g[a] = 0)
  <2> HIDE DEF k
  <2> QED
    BY <1>1, <1>2 DEF GivenIn, PoolsOf
<1>6. f \in [P -> Int] /\ g \in [Q -> Int]
  BY <1>4
<1> HIDE DEF f, g, P, Q, k
<1>7. CASE a \in Q
  <2>1. Q = P \cup {a}
    BY <1>5, <1>7
  <2>2. SumFunctionOnSet(g, P \cup {a}) = SumFunctionOnSet(f, P) + g[a]
    BY <1>4, <1>5, <1>6, <1>7, SumAdd
  <2>3. Sum(g) = SumFunctionOnSet(f, P) + g[a]
    BY <1>4, <2>1, <2>2, Zenon
  <2>4. Sum(g) = Sum(f)
    BY <1>4, <1>5, <1>7, <2>3
  <2> QED
    BY <2>4, Zenon DEF f, g, k
<1>8. CASE a \notin Q
  <2>1. Q = P
    BY <1>5, <1>8
  <2>2. SumFunctionOnSet(f, P) = SumFunctionOnSet(g, P)
    BY <1>4, <1>5, <1>6, <2>1, SumSame
  <2>3. Sum(g) = Sum(f)
    BY <1>4, <2>1, <2>2
  <2> QED
    BY <2>3, Zenon DEF f, g, k
<1> QED
  BY <1>7, <1>8

\* One pool's reward is replaced: the sum grows by at most the new one, and not
\* at all when it is switched off.
LEMMA GivenToOne ==
    ASSUME NEW c, Well(c), NEW k, DOMAIN k = DOMAIN c, NEW a \in DOMAIN c,
           k[a].given \in Nat, \A b \in DOMAIN c \ {a} : k[b].given = c[b].given, NEW ts
    PROVE  /\ Sum(GivenIn(k, ts)) <= Sum(GivenIn(c, ts)) + k[a].given
           /\ a[1] # ts => Sum(GivenIn(k, ts)) = Sum(GivenIn(c, ts))
<1> DEFINE f == GivenIn(c, ts)
           g == GivenIn(k, ts)
           P == PoolsOf(c, ts)
<1>1. Well(k) /\ PoolsOf(k, ts) = P
  BY DEF Well, PoolsOf
<1>2. /\ f \in [P -> Nat] /\ IsFiniteSet(P) /\ Sum(f) = SumFunctionOnSet(f, P)
      /\ g \in [P -> Nat] /\ Sum(g) = SumFunctionOnSet(g, P)
      /\ Sum(f) \in Nat
  BY <1>1, GivenType, Zenon
<1>3. /\ \A x \in P \ {a} : f[x] = g[x]
      /\ a \in P => g[a] = k[a].given
      /\ a[1] = ts <=> a \in P
  BY DEF GivenIn, PoolsOf
<1>4. f \in [P -> Int] /\ g \in [P -> Int] /\ \A x \in P : f[x] \in Nat
  BY <1>2
<1> HIDE DEF f, g, P
<1>5. CASE a \in P
  <2>1. SumFunctionOnSet(g, P) = SumFunctionOnSet(f, P) + g[a] - f[a]
    BY <1>2, <1>3, <1>4, <1>5, SumChange
  <2>2. Sum(g) <= Sum(f) + k[a].given
    BY <1>2, <1>3, <1>4, <1>5, <2>1
  <2> QED
    BY <1>3, <1>5, <2>2 DEF f, g
<1>6. CASE a \notin P
  <2>1. \A x \in P : f[x] = g[x]
    BY <1>3, <1>6
  <2>2. SumFunctionOnSet(f, P) = SumFunctionOnSet(g, P)
    BY <1>2, <1>4, <2>1, SumSame
  <2>3. Sum(g) = Sum(f)
    BY <1>2, <2>2
  <2>4. Sum(g) <= Sum(f) + k[a].given
    BY <1>2, <2>3
  <2> QED
    BY <2>3, <2>4 DEF f, g
<1> QED
  BY <1>5, <1>6

LEMMA GivenNothing ==
    ASSUME NEW c, Well(c), NEW ts, \A a \in DOMAIN c : a[1] = ts => c[a].given = 0
    PROVE  Sum(GivenIn(c, ts)) = 0
<1> DEFINE f == GivenIn(c, ts)
           P == PoolsOf(c, ts)
<1>1. /\ f \in [P -> Nat] /\ IsFiniteSet(P) /\ Sum(f) = SumFunctionOnSet(f, P)
  BY GivenType
<1>2. \A x \in P : f[x] = 0
  BY DEF GivenIn, PoolsOf
<1>3. f \in [P -> Int]
  BY <1>1
<1> HIDE DEF f, P
<1>4. SumFunctionOnSet(f, P) = 0
  BY <1>1, <1>2, <1>3, SumOfZeros
<1> QED
  BY <1>1, <1>4 DEF f

-----------------------------------------------------------------------------
(* The snapshot of a token set                                             *)

GoodSnapshot(d) == DOMAIN d \in SUBSET Indexes /\ d \in [DOMAIN d -> Entries]

LEMMA SnapshotSums ==
    ASSUME NEW d, GoodSnapshot(d)
    PROVE  /\ Sum(Snapshot(d)) \in Nat /\ Sum(Configured(d)) \in Nat
           /\ Sum(Configured(d)) <= Sum(Snapshot(d))
           /\ \A i \in DOMAIN d : d[i].liquidity <= Sum(Snapshot(d))
<1> DEFINE f == Snapshot(d)
           g == Configured(d)
           D == DOMAIN d
<1>1. /\ f \in [D -> Int] /\ g \in [D -> Int] /\ DOMAIN f = D /\ DOMAIN g = D
      /\ \A i \in D : f[i] \in Nat /\ g[i] \in Nat /\ f[i] = d[i].liquidity /\ 1 * g[i] <= f[i]
  BY DEF GoodSnapshot, Entries, Snapshot, Configured
<1>2. IsFiniteSet(D)
  BY IndexesFinite, FS_Subset DEF GoodSnapshot
<1> HIDE DEF f, g, D
<1>3. SumFunctionOnSet(f, D) \in Nat /\ SumFunctionOnSet(g, D) \in Nat
  BY <1>1, <1>2, SumNat
<1>4. 1 * SumFunctionOnSet(g, D) <= SumFunctionOnSet(f, D)
  BY <1>1, <1>2, SumScaled
<1>5. \A i \in D : f[i] <= SumFunctionOnSet(f, D)
  BY <1>1, <1>2, SumAtLeast
<1>6. Sum(f) = SumFunctionOnSet(f, D) /\ Sum(g) = SumFunctionOnSet(g, D)
  BY <1>1, Zenon DEF Sum
<1>7. /\ Sum(f) \in Nat /\ Sum(g) \in Nat /\ Sum(g) <= Sum(f)
      /\ \A i \in D : d[i].liquidity <= Sum(f)
  BY <1>1, <1>3, <1>4, <1>5, <1>6
<1> QED
  BY <1>7, Zenon DEF f, g, D

\* Marking one more pool.
LEMMA MarkOne ==
    ASSUME NEW d, GoodSnapshot(d), NEW i \in DOMAIN d, ~d[i].configured, NEW e,
           e = [d EXCEPT ![i].configured = TRUE]
    PROVE  /\ GoodSnapshot(e) /\ DOMAIN e = DOMAIN d
           /\ Snapshot(e) = Snapshot(d)
           /\ Sum(Configured(e)) = Sum(Configured(d)) + d[i].liquidity
<1> DEFINE f == Configured(d)
           g == Configured(e)
           D == DOMAIN d
<1>1. GoodSnapshot(e) /\ DOMAIN e = D
  BY DEF GoodSnapshot, Entries
<1>2. Snapshot(e) = Snapshot(d)
  BY DEF Snapshot, GoodSnapshot, Entries
<1>3. /\ f \in [D -> Int] /\ g \in [D -> Int] /\ DOMAIN f = D /\ DOMAIN g = D
      /\ f[i] = 0 /\ g[i] = d[i].liquidity /\ d[i].liquidity \in Nat
      /\ \A j \in D \ {i} : f[j] = g[j]
  BY <1>1 DEF GoodSnapshot, Entries, Configured
<1>4. IsFiniteSet(D)
  BY IndexesFinite, FS_Subset DEF GoodSnapshot
<1>5. i \in D
  OBVIOUS
<1> HIDE DEF f, g, D
<1>6. SumFunctionOnSet(g, D) = SumFunctionOnSet(f, D) + g[i] - f[i]
  BY <1>3, <1>4, <1>5, SumChange
<1>7. SumFunctionOnSet(f, D) \in Int
  BY <1>3, <1>4, SumInt
<1>8. Sum(f) = SumFunctionOnSet(f, D) /\ Sum(g) = SumFunctionOnSet(g, D)
  BY <1>3, Zenon DEF Sum
<1>9. Sum(g) = Sum(f) + d[i].liquidity
  BY <1>3, <1>6, <1>7, <1>8
<1> QED
  BY <1>1, <1>2, <1>9, Zenon DEF f, g, D

-----------------------------------------------------------------------------
(* The arithmetic of a share                                               *)

\* What a pool is due is its part of the liquidity, rounded down twice.
LEMMA DueToPool ==
    ASSUME NEW r \in Nat, NEW l \in Nat, NEW t \in Nat \ {0}, NEW v \in Nat \ {0},
           NEW g \in Nat, NEW c \in Nat, g * v * t <= r * c
    PROVE  LET q == ((r * l) \div t) \div v
           IN  q \in Nat /\ (g + q) * v * t <= r * (c + l)
<1> DEFINE p == (r * l) \div t
           q == p \div v
<1>1. r * l \in Nat
  BY MulNat
<1>2. p \in Nat /\ p * t <= r * l
  BY <1>1, DivFacts
<1> HIDE DEF p
<1>3. q \in Nat /\ q * v <= p
  BY <1>2, DivFacts
<1> HIDE DEF q
<1>4. (q * v) * t <= p * t
  BY <1>2, <1>3, MulNat, MulMono
<1>5. (q * v) * t \in Nat /\ p * t \in Nat /\ g * v * t \in Nat /\ r * c \in Nat
  BY <1>2, <1>3, MulNat
<1>6. (g + q) * v * t = g * v * t + (q * v) * t
  BY <1>3
<1>7. r * (c + l) = r * c + r * l
  OBVIOUS
<1>8. (g + q) * v * t <= r * (c + l)
  BY <1>1, <1>2, <1>4, <1>5, <1>6, <1>7
<1> QED
  BY <1>3, <1>8 DEF q, p

LEMMA ShareFromBudget ==
    ASSUME NEW r \in Nat, NEW t \in Nat, NEW v \in Nat, NEW g \in Nat, NEW c \in Nat,
           g * v * t <= r * c, c <= t, t = 0 => g = 0
    PROVE  g * v <= r
<1>1. CASE t = 0
  BY <1>1
<1>2. CASE t # 0
  <2>1. g * v \in Nat
    BY MulNat
  <2>2. r * c <= r * t
    BY MulMono
  <2>3. r * c \in Nat /\ r * t \in Nat /\ g * v * t \in Nat
    BY <2>1, MulNat
  <2>4. t * (g * v) <= t * r
    BY <2>1, <2>2, <2>3
  <2> QED
    BY <1>2, <2>1, <2>4, MulCancel
<1> QED
  BY <1>1, <1>2

-----------------------------------------------------------------------------
(* What the invariant gives                                                *)

LEMMA InvFacts ==
    ASSUME RouterInv
    PROVE  /\ Well(contract) /\ \A ts \in TokenSets : GivenTo(ts) = Sum(GivenIn(contract, ts))
           /\ VoteScale \in Nat \ {0}
           /\ rewardsConfig.tps \in Nat /\ rewardsConfig.expiredAt \in Nat /\ ledger \in Nat
           /\ \A ts \in TokenSets : detailed[ts] # Missing => GoodSnapshot(detailed[ts])
<1>1. \A ts \in TokenSets : GivenTo(ts) = Sum(GivenIn(contract, ts))
  BY Zenon DEF GivenTo, GivenIn
<1> QED
  BY <1>1, RouterAssumption
     DEF RouterInv, ContractsOK, Contracts, Well, RewardsTyped, GoodSnapshot, RouterAssumption

LEMMA InvWithinShare == RouterInv => WithinShare
<1> SUFFICES ASSUME RouterInv, NEW ts \in TokenSets
             PROVE  IF rewardTokens # Missing /\ ts \in DOMAIN rewardTokens
                    THEN GivenTo(ts) * VoteScale <= rewardsConfig.tps * rewardTokens[ts].share
                    ELSE GivenTo(ts) = 0
  BY DEF WithinShare
<1> DEFINE given == Sum(GivenIn(contract, ts))
<1>1. /\ Well(contract) /\ GivenTo(ts) = given /\ VoteScale \in Nat \ {0}
      /\ rewardsConfig.tps \in Nat /\ Budget(ts)
  BY InvFacts DEF RouterInv
<1>2. given \in Nat
  BY <1>1, GivenType
<1>3. CASE Processed(ts)
  <2> DEFINE d == detailed[ts]
             info == rewardTokens[ts]
             r == rewardsConfig.tps * info.share
             configured == Sum(Configured(d))
  <2>1. /\ d # Missing /\ info.total = Sum(Snapshot(d))
        /\ given * VoteScale * info.total <= r * configured
        /\ info.total = 0 => given = 0
    BY <1>1, <1>3 DEF Budget
  <2>2. GoodSnapshot(d) /\ info \in Infos /\ rewardTokens # Missing /\ ts \in DOMAIN rewardTokens
    BY <1>3, <2>1, InvFacts DEF RouterInv, RewardsTyped, Processed
  <2>3. configured \in Nat /\ Sum(Snapshot(d)) \in Nat /\ configured <= Sum(Snapshot(d))
    BY <2>2, SnapshotSums
  <2>4. r \in Nat
    BY <1>1, <2>2, MulNat DEF Infos
  <2> HIDE DEF d, configured, r
  <2>5. info.total \in Nat /\ configured <= info.total
    BY <2>1, <2>3
  <2> HIDE DEF info
  <2>6. given * VoteScale <= r
    <3> HIDE DEF given
    <3> QED
      BY <1>1, <1>2, <2>1, <2>3, <2>4, <2>5, ShareFromBudget
  <2> QED
    BY <1>1, <2>2, <2>6 DEF r, info
<1>4. CASE ~Processed(ts)
  <2>1. given = 0
    BY <1>1, <1>4, GivenNothing DEF Budget
  <2>2. GivenTo(ts) * VoteScale = 0
    BY <1>1, <2>1
  <2>3. ASSUME rewardTokens # Missing, ts \in DOMAIN rewardTokens
        PROVE  0 <= rewardsConfig.tps * rewardTokens[ts].share
    <3>1. rewardTokens[ts].share \in Nat
      BY <2>3 DEF RouterInv, RewardsTyped, Infos
    <3> QED
      BY <1>1, <3>1, MulNat
  <2> QED
    BY <1>1, <2>1, <2>2, <2>3
<1> QED
  BY <1>3, <1>4

LEMMA InvSnapshot == RouterInv => SnapshotAddsUp
<1> SUFFICES ASSUME RouterInv, rewardTokens # Missing, NEW ts \in DOMAIN rewardTokens,
                    rewardTokens[ts].processed
             PROVE  /\ detailed[ts] # Missing
                    /\ rewardTokens[ts].total
                         = Sum([i \in DOMAIN detailed[ts] |-> detailed[ts][i].liquidity])
  BY DEF SnapshotAddsUp
<1>1. ts \in TokenSets
  BY DEF RouterInv, RewardsTyped
<1>2. Processed(ts)
  BY DEF Processed
<1>3. Budget(ts)
  BY <1>1 DEF RouterInv
<1>4. detailed[ts] # Missing /\ rewardTokens[ts].total = Sum(Snapshot(detailed[ts]))
  BY <1>2, <1>3 DEF Budget
<1> QED
  BY <1>4, Zenon DEF Snapshot

LEMMA InvTypes == RouterInv => TypeOK
BY DEF RouterInv, TypeOK, PoolsOK, ContractsOK, RewardsTyped, Contracts, Range

LEMMA InvRoomy == RouterInv => RoomForEveryTier
BY PoolsRoomy DEF RouterInv

-----------------------------------------------------------------------------
(* The steps                                                               *)


LEMMA InitInv == Init => RouterInv
<1> SUFFICES ASSUME Init PROVE RouterInv
  OBVIOUS
<1>1. PoolsOK
  <2>1. OfKind("stable", {}) = {}
    BY DEF OfKind
  <2>2. Cardinality(OfKind("stable", {})) = 0
    BY <2>1, FS_EmptySet
  <2>3. 0 <= StableswapMaxPools /\ MaxCounter \in Nat
    BY RouterAssumption DEF RouterAssumption
  <2>4. \A ts \in TokenSets : DOMAIN pools[ts] = {}
    BY DEF Init, EmptyMap
  <2>5. \A ts \in TokenSets : Cardinality(OfKind("stable", DOMAIN pools[ts])) <= StableswapMaxPools
    BY <2>2, <2>3, <2>4
  <2> QED
    BY <2>3, <2>4, <2>5 DEF Init, PoolsOK
<1>2. DOMAIN contract = {}
  BY DEF Init, EmptyMap
<1>3. ContractsOK
  BY <1>2, FS_EmptySet DEF ContractsOK
<1>4. RewardsTyped
  BY DEF Init, RewardsTyped
<1>5. tokensSets \in Seq(TokenSets) /\ ledger \in 1..MaxLedger /\ EveryPoolListed
  BY RouterAssumption DEF Init, RouterAssumption, EveryPoolListed, EmptyMap
<1>6. \A ts \in TokenSets : Budget(ts)
  BY <1>2 DEF Init, Budget, Processed
<1> QED
  BY <1>1, <1>3, <1>4, <1>5, <1>6 DEF RouterInv

\* The budget of a set that no reward, vote or snapshot of changes.
LEMMA BudgetKept ==
    ASSUME NEW ts, Budget(ts), UNCHANGED <<rewardsConfig, rewardTokens>>,
           detailed'[ts] = detailed[ts],
           Sum(GivenIn(contract', ts)) = Sum(GivenIn(contract, ts)),
           (\A a \in DOMAIN contract : a[1] = ts => contract[a].given = 0)
             => (\A a \in DOMAIN contract' : a[1] = ts => contract'[a].given = 0)
    PROVE  Budget(ts)'
<1> DEFINE given == Sum(GivenIn(contract, ts))
           d == detailed[ts]
<1>1. Processed(ts)' <=> Processed(ts)
  BY DEF Processed
<1>2. CASE Processed(ts)
  <2>1. /\ d # Missing
        /\ rewardTokens[ts].total = Sum(Snapshot(d))
        /\ given * VoteScale * rewardTokens[ts].total
             <= rewardsConfig.tps * rewardTokens[ts].share * Sum(Configured(d))
        /\ rewardTokens[ts].total = 0 => given = 0
    BY <1>2 DEF Budget
  <2> QED
    BY <1>1, <1>2, <2>1, Zenon DEF Budget
<1>3. CASE ~Processed(ts)
  BY <1>1, <1>3 DEF Budget
<1> QED
  BY <1>2, <1>3

LEMMA RewardsTypedKept ==
    ASSUME RewardsTyped, UNCHANGED rewardVars PROVE RewardsTyped'
BY DEF RewardsTyped, rewardVars

LEMMA PoolsOKKept ==
    ASSUME PoolsOK, UNCHANGED registryVars, DOMAIN contract' = DOMAIN contract
    PROVE  PoolsOK'
BY DEF PoolsOK, registryVars

\* A pool is deployed to an address of which the counter moves past.
LEMMA DeployStep ==
    ASSUME RouterInv, NEW ts \in TokenSets, NEW index \in Indexes, NEW n \in Nat,
           DeployPool(ts, index, n), n < poolCounter', poolCounter' \in 0..MaxCounter,
           poolCounter <= poolCounter', index[1] = "stable" => index[2] = n
    PROVE  RouterInv'
<1> DEFINE address == Address(ts, index, n)
<1>1. /\ address \notin DOMAIN contract
      /\ FitsLimits(DOMAIN pools[ts] \cup {index}, index[1])
      /\ contract' = With(contract, address, NewContract)
      /\ tokensSets' = AddTokensSet(ts)
      /\ pools' = [pools EXCEPT ![ts] = With(pools[ts], index, address)]
      /\ UNCHANGED <<rewardVars, ledger>>
  BY DEF DeployPool
<1>2. /\ PoolsOK /\ ContractsOK /\ RewardsTyped /\ EveryPoolListed
      /\ tokensSets \in Seq(TokenSets) /\ ledger \in 1..MaxLedger
      /\ \A s \in TokenSets : Budget(s)
  BY DEF RouterInv
<1>3. /\ DOMAIN contract' = DOMAIN contract \cup {address}
      /\ contract'[address] = NewContract
      /\ \A a \in DOMAIN contract : contract'[a] = contract[a]
      /\ address[1] = ts /\ address[3] = n
  BY <1>1 DEF With, Address
<1>4. ContractsOK'
  <2>1. IsFiniteSet(DOMAIN contract')
    BY <1>2, <1>3, FS_AddElement DEF ContractsOK
  <2>2. NewContract \in Contracts
    BY DEF NewContract, Contracts
  <2>3. poolCounter \in Nat /\ poolCounter' \in Nat
    BY <1>2 DEF PoolsOK
  <2>4. \A a \in DOMAIN contract' :
            contract'[a] \in Contracts /\ a[1] \in TokenSets /\ a[3] \in 0..(poolCounter' - 1)
    <3> HIDE DEF address
    <3> QED
      BY <1>2, <1>3, <2>2, <2>3 DEF ContractsOK
  <2> QED
    BY <2>1, <2>4 DEF ContractsOK
<1>5. PoolsOK'
  <2>1. /\ DOMAIN pools' = TokenSets
        /\ \A s \in TokenSets \ {ts} : pools'[s] = pools[s]
        /\ DOMAIN pools'[ts] = DOMAIN pools[ts] \cup {index}
        /\ pools'[ts][index] = address
        /\ \A i \in DOMAIN pools[ts] \ {index} : pools'[ts][i] = pools[ts][i]
    BY <1>1, <1>2 DEF PoolsOK, With
  <2>2. poolCounter \in Nat /\ poolCounter' \in 0..MaxCounter
    BY <1>2 DEF PoolsOK
  <2>3. Cardinality(OfKind("stable", DOMAIN pools'[ts])) <= StableswapMaxPools
    <3>1. DOMAIN pools[ts] \in SUBSET Indexes
          /\ Cardinality(OfKind("stable", DOMAIN pools[ts])) <= StableswapMaxPools
      BY <1>2 DEF PoolsOK
    <3>2. CASE index[1] = "stable"
      BY <1>1, <2>1, <3>2, Zenon DEF FitsLimits
    <3>3. CASE index[1] # "stable"
      <4>1. OfKind("stable", DOMAIN pools[ts] \cup {index}) = OfKind("stable", DOMAIN pools[ts])
        BY <3>1, <3>3, TierIsRoomy
      <4> QED
        BY <2>1, <3>1, <4>1, Zenon
    <3> QED
      BY <3>2, <3>3
  <2>4. ASSUME NEW s \in TokenSets
        PROVE  /\ DOMAIN pools'[s] \subseteq Indexes
               /\ \A i \in DOMAIN pools'[s] :
                    /\ pools'[s][i] \in DOMAIN contract' /\ pools'[s][i][1] = s
                    /\ i[1] = "stable" => i[2] \in 0..(poolCounter' - 1)
    <3>1. /\ DOMAIN pools[s] \subseteq Indexes
          /\ \A i \in DOMAIN pools[s] :
                /\ pools[s][i] \in DOMAIN contract /\ pools[s][i][1] = s
                /\ i[1] = "stable" => i[2] \in 0..(poolCounter - 1)
      BY <1>2 DEF PoolsOK
    <3>2. CASE s = ts
      <4> HIDE DEF address
      <4> QED
        BY <1>3, <2>1, <2>2, <3>1, <3>2
    <3>3. CASE s # ts
      BY <1>3, <2>1, <2>2, <3>1, <3>3
    <3> QED
      BY <3>2, <3>3
  <2>5. \A s \in TokenSets \ {ts} :
            Cardinality(OfKind("stable", DOMAIN pools'[s])) <= StableswapMaxPools
    BY <1>2, <2>1 DEF PoolsOK
  <2>6. \A s \in TokenSets :
            Cardinality(OfKind("stable", DOMAIN pools'[s])) <= StableswapMaxPools
    BY <2>3, <2>5
  <2> QED
    BY <2>1, <2>2, <2>4, <2>6 DEF PoolsOK
<1>6. tokensSets' \in Seq(TokenSets) /\ EveryPoolListed'
  <2>1. /\ tokensSets' \in Seq(TokenSets) /\ Range(tokensSets) \subseteq Range(tokensSets')
        /\ ts \in Range(tokensSets')
    <3>1. CASE DOMAIN pools[ts] # {}
      BY <1>1, <1>2, <3>1 DEF AddTokensSet, EveryPoolListed
    <3>2. CASE DOMAIN pools[ts] = {}
      <4>1. tokensSets' = Append(tokensSets, ts)
        BY <1>1, <3>2 DEF AddTokensSet
      <4>2. /\ Len(tokensSets') = Len(tokensSets) + 1 /\ tokensSets'[Len(tokensSets) + 1] = ts
            /\ \A k \in 1..Len(tokensSets) : tokensSets'[k] = tokensSets[k]
            /\ DOMAIN tokensSets = 1..Len(tokensSets) /\ DOMAIN tokensSets' = 1..Len(tokensSets')
            /\ tokensSets' \in Seq(TokenSets) /\ Len(tokensSets) \in Nat
        BY <1>2, <4>1
      <4> QED
        BY <4>2 DEF Range
    <3> QED
      BY <3>1, <3>2
  <2>2. \A s \in TokenSets : DOMAIN pools'[s] # {} => s = ts \/ DOMAIN pools[s] # {}
    BY <1>1, <1>2 DEF PoolsOK
  <2> QED
    BY <1>2, <2>1, <2>2 DEF EveryPoolListed
<1>7. ASSUME NEW s \in TokenSets
      PROVE  Budget(s)'
  <2>1. UNCHANGED <<rewardsConfig, rewardTokens>> /\ detailed'[s] = detailed[s]
    BY <1>1 DEF rewardVars
  <2>2. Sum(GivenIn(contract', s)) = Sum(GivenIn(contract, s))
    <3>1. Well(contract)
      BY InvFacts
    <3> HIDE DEF address
    <3> QED
      BY <1>1, <3>1, GivenToNew
  <2>3. (\A a \in DOMAIN contract : a[1] = s => contract[a].given = 0)
          => (\A a \in DOMAIN contract' : a[1] = s => contract'[a].given = 0)
    <3>1. NewContract.given = 0
      BY DEF NewContract
    <3> HIDE DEF address
    <3> QED
      BY <1>3, <3>1
  <2> QED
    BY <1>2, <2>1, <2>2, <2>3, BudgetKept
<1>8. RewardsTyped' /\ ledger' \in 1..MaxLedger
  BY <1>1, <1>2, RewardsTypedKept
<1> QED
  BY <1>4, <1>5, <1>6, <1>7, <1>8 DEF RouterInv

LEMMA RegistryInvStep ==
    ASSUME RouterInv, RegistryStep
    PROVE  RouterInv'
<1> PICK ts \in TokenSets :
        \/ poolCounter < MaxCounter /\ \E fee \in StandardFees : InitStandardPool(ts, fee)
        \/ poolCounter < MaxCounter /\ \E fee \in ConcentratedFees : InitConcentratedPool(ts, fee)
        \/ poolCounter < MaxCounter - 1 /\ InitStableswapPool(ts)
        \/ \E index \in DOMAIN pools[ts] : RemovePool(ts, index)
  BY DEF RegistryStep
<1>1. poolCounter \in 0..MaxCounter /\ MaxCounter \in Nat
  BY RouterAssumption DEF RouterInv, PoolsOK, RouterAssumption
<1>2. ASSUME NEW index \in Indexes, index[1] # "stable", poolCounter < MaxCounter,
             DeployWithCounter(ts, index)
      PROVE  RouterInv'
  <2>1. DeployPool(ts, index, poolCounter) /\ poolCounter' = poolCounter + 1
    BY <1>2 DEF DeployWithCounter
  <2> QED
    BY <1>1, <1>2, <2>1, DeployStep
<1>3. CASE poolCounter < MaxCounter /\ \E fee \in StandardFees : InitStandardPool(ts, fee)
  <2>1. \A fee \in StandardFees : Standard(fee) \in Indexes /\ Standard(fee)[1] # "stable"
    BY DEF Indexes, Standard
  <2> QED
    BY <1>2, <1>3, <2>1 DEF InitStandardPool
<1>4. CASE /\ poolCounter < MaxCounter
           /\ \E fee \in ConcentratedFees : InitConcentratedPool(ts, fee)
  <2>1. \A fee \in ConcentratedFees :
            Concentrated(fee) \in Indexes /\ Concentrated(fee)[1] # "stable"
    BY DEF Indexes, Concentrated
  <2> QED
    BY <1>2, <1>4, <2>1 DEF InitConcentratedPool
<1>5. CASE poolCounter < MaxCounter - 1 /\ InitStableswapPool(ts)
  <2> DEFINE n == poolCounter + 1
  <2>1. /\ n \in 1..MaxCounter /\ n \in Nat
        /\ DeployPool(ts, Stable(n), n) /\ poolCounter' = poolCounter + 2
    BY <1>1, <1>5 DEF InitStableswapPool
  <2>2. Stable(n) \in Indexes /\ (Stable(n)[1] = "stable" => Stable(n)[2] = n)
    BY <2>1 DEF Indexes, Stable
  <2>3. n < poolCounter' /\ poolCounter' \in 0..MaxCounter /\ poolCounter <= poolCounter'
    BY <1>1, <1>5, <2>1
  <2> HIDE DEF n
  <2> QED
    BY <2>1, <2>2, <2>3, DeployStep
<1>6. CASE \E index \in DOMAIN pools[ts] : RemovePool(ts, index)
  <2>1. PICK index \in DOMAIN pools[ts] : RemovePool(ts, index)
    BY <1>6
  <2>2. /\ pools' = [pools EXCEPT ![ts] = Without(pools[ts], index)]
        /\ UNCHANGED <<tokensSets, poolCounter, rewardVars, contract, ledger>>
    BY <2>1 DEF RemovePool
  <2>3. /\ PoolsOK /\ ContractsOK /\ RewardsTyped /\ EveryPoolListed
        /\ tokensSets \in Seq(TokenSets) /\ ledger \in 1..MaxLedger
        /\ \A s \in TokenSets : Budget(s)
    BY DEF RouterInv
  <2>4. /\ DOMAIN pools' = TokenSets
        /\ \A s \in TokenSets :
            /\ DOMAIN pools'[s] \in SUBSET DOMAIN pools[s]
            /\ \A i \in DOMAIN pools'[s] : pools'[s][i] = pools[s][i]
    BY <2>2, <2>3 DEF PoolsOK, Without
  <2>5. ASSUME NEW s \in TokenSets
        PROVE  Cardinality(OfKind("stable", DOMAIN pools'[s])) <= StableswapMaxPools
    <3> DEFINE old == OfKind("stable", DOMAIN pools[s])
               new == OfKind("stable", DOMAIN pools'[s])
    <3>1. DOMAIN pools[s] \in SUBSET Indexes /\ Cardinality(old) <= StableswapMaxPools
      BY <2>3 DEF PoolsOK
    <3>2. new \in SUBSET old
      BY <2>4 DEF OfKind
    <3>3. IsFiniteSet(old)
      BY <3>1, KindsOfIndexes
    <3> HIDE DEF old, new
    <3>4. Cardinality(new) <= Cardinality(old) /\ Cardinality(new) \in Nat /\ Cardinality(old) \in Nat
      BY <3>2, <3>3, FS_Subset, FS_CardinalityType
    <3>5. Cardinality(new) <= StableswapMaxPools
      BY <3>1, <3>4, RouterAssumption DEF RouterAssumption
    <3> QED
      BY <3>5 DEF new
  <2>6. PoolsOK'
    BY <2>2, <2>3, <2>4, <2>5 DEF PoolsOK
  <2>7. EveryPoolListed'
    BY <2>2, <2>3, <2>4 DEF EveryPoolListed
  <2>8. \A s \in TokenSets : Budget(s)'
    BY <2>2, <2>3, BudgetKept DEF rewardVars
  <2> QED
    BY <2>2, <2>3, <2>6, <2>7, <2>8, RewardsTypedKept DEF RouterInv, ContractsOK
<1> QED
  BY <1>3, <1>4, <1>5, <1>6

LEMMA ConfigGlobalStep ==
    ASSUME RouterInv, NEW tps \in TpsValues, NEW e \in Expirations, NEW votes \in Votes,
           ConfigGlobalRewards(tps, e, votes)
    PROVE  RouterInv'
<1>1. /\ rewardTokens' = [ts \in DOMAIN votes |-> NewRewardInfo(ts, votes[ts])]
      /\ rewardsConfig' = [tps |-> tps, expiredAt |-> e]
      /\ contract' = [a \in DOMAIN contract |-> [contract[a] EXCEPT !.given = 0]]
      /\ UNCHANGED <<registryVars, detailed, ledger>>
  BY DEF ConfigGlobalRewards
<1>2. /\ PoolsOK /\ ContractsOK /\ RewardsTyped /\ EveryPoolListed
      /\ tokensSets \in Seq(TokenSets) /\ ledger \in 1..MaxLedger
  BY DEF RouterInv
<1>3. /\ DOMAIN votes \in SUBSET TokenSets /\ \A ts \in DOMAIN votes : votes[ts] \in Nat
      /\ tps \in Nat /\ e \in Nat
  BY RouterAssumption DEF RouterAssumption
<1>4. PoolsOK'
  BY <1>1, <1>2, PoolsOKKept
<1>5. ContractsOK'
  BY <1>1, <1>2 DEF ContractsOK, Contracts, registryVars
<1>6. RewardsTyped'
  <2>1. \A ts \in DOMAIN votes : NewRewardInfo(ts, votes[ts]) \in Infos
    BY <1>3 DEF NewRewardInfo, Infos
  <2> QED
    BY <1>1, <1>2, <1>3, <2>1 DEF RewardsTyped
<1>7. \A ts \in TokenSets : Budget(ts)'
  <2>1. \A ts : ~Processed(ts)'
    BY <1>1 DEF Processed, NewRewardInfo
  <2>2. \A a \in DOMAIN contract' : contract'[a].given = 0
    BY <1>1, <1>2 DEF ContractsOK, Contracts
  <2> QED
    BY <2>1, <2>2 DEF Budget
<1> QED
  BY <1>1, <1>2, <1>4, <1>5, <1>6, <1>7 DEF RouterInv, EveryPoolListed, registryVars

\* A snapshot is taken of a set that has got nothing yet.
LEMMA FillLiquidityStep ==
    ASSUME RouterInv, NEW ts \in TokenSets, FillLiquidity(ts)
    PROVE  RouterInv'
<1> DEFINE liquidity == [i \in DOMAIN pools[ts] |-> contract[pools[ts][i]].liquidity]
           d == [i \in DOMAIN pools[ts] |-> [liquidity |-> liquidity[i], configured |-> FALSE]]
           info == [rewardTokens[ts] EXCEPT !.processed = TRUE, !.total = Sum(liquidity)]
<1>1. /\ rewardTokens # Missing /\ ts \in DOMAIN rewardTokens
      /\ ~rewardTokens[ts].processed
      /\ rewardTokens' = [rewardTokens EXCEPT ![ts].processed = TRUE, ![ts].total = Sum(liquidity)]
      /\ detailed' = [detailed EXCEPT ![ts] = d]
      /\ UNCHANGED <<registryVars, rewardsConfig, contract, ledger>>
  BY DEF FillLiquidity
<1>2. /\ PoolsOK /\ ContractsOK /\ RewardsTyped /\ EveryPoolListed
      /\ tokensSets \in Seq(TokenSets) /\ ledger \in 1..MaxLedger
      /\ \A s \in TokenSets : Budget(s)
  BY DEF RouterInv
<1>3. GoodSnapshot(d) /\ Snapshot(d) = liquidity
  <2>1. DOMAIN pools[ts] \in SUBSET Indexes
    BY <1>2 DEF PoolsOK
  <2>2. \A i \in DOMAIN pools[ts] : contract[pools[ts][i]].liquidity \in Nat
    BY <1>2 DEF PoolsOK, ContractsOK, Contracts
  <2> QED
    BY <2>1, <2>2 DEF GoodSnapshot, Snapshot, Entries
<1>4. Sum(Snapshot(d)) \in Nat /\ Sum(Configured(d)) \in Nat
  <2> HIDE DEF d
  <2> QED
    BY <1>3, SnapshotSums
<1>5. Sum(liquidity) = Sum(Snapshot(d)) /\ Sum(liquidity) \in Nat
  BY <1>3, <1>4, Zenon
<1> DEFINE total == Sum(liquidity)
<1>6. /\ DOMAIN rewardTokens' = DOMAIN rewardTokens
      /\ \A s \in DOMAIN rewardTokens \ {ts} : rewardTokens'[s] = rewardTokens[s]
      /\ rewardTokens'[ts] = [rewardTokens[ts] EXCEPT !.processed = TRUE, !.total = total]
      /\ rewardTokens' \in [DOMAIN rewardTokens -> Infos]
      /\ rewardTokens[ts] \in Infos
  <2> HIDE DEF total
  <2>1. rewardTokens' = [rewardTokens EXCEPT ![ts].processed = TRUE, ![ts].total = total]
    BY <1>1 DEF total
  <2>2. total \in Nat
    BY <1>5 DEF total
  <2>3. rewardTokens \in [DOMAIN rewardTokens -> Infos] /\ ts \in DOMAIN rewardTokens
    BY <1>1, <1>2 DEF RewardsTyped
  <2> QED
    BY <2>1, <2>2, <2>3 DEF Infos
<1>7. rewardTokens' # Missing
  <2>1. DOMAIN rewardTokens \in SUBSET TokenSets
    BY <1>1, <1>2 DEF RewardsTyped
  <2>2. Missing \notin [DOMAIN rewardTokens -> Infos]
    BY <2>1, MissingAssumption, Zenon DEF MissingAssumption
  <2> QED
    BY <1>6, <2>2, Zenon
<1>8. d # Missing
  BY <1>3, MissingAssumption DEF GoodSnapshot, MissingAssumption
<1>9. RewardsTyped'
  <2>1. DOMAIN detailed' = TokenSets
    BY <1>1, <1>2 DEF RewardsTyped
  <2>2. \A s \in TokenSets : detailed'[s] # Missing => GoodSnapshot(detailed'[s])
    <3> HIDE DEF d
    <3> QED
      BY <1>1, <1>2, <1>3 DEF RewardsTyped, GoodSnapshot
  <2> QED
    BY <1>1, <1>2, <1>6, <2>1, <2>2 DEF RewardsTyped, GoodSnapshot
<1>10. ASSUME NEW s \in TokenSets
       PROVE  Budget(s)'
  <2>1. CASE s = ts
    <3>1. detailed'[ts] = d
      BY <1>1, <1>2 DEF RewardsTyped
    <3>2. Processed(ts)' /\ rewardTokens'[ts].total = total
          /\ rewardTokens'[ts].share = rewardTokens[ts].share /\ rewardTokens[ts].share \in Nat
      <4> HIDE DEF total
      <4> QED
        BY <1>1, <1>6, <1>7 DEF Processed, Infos
    <3>3. Sum(GivenIn(contract, ts)) = 0
      <4>1. \A a \in DOMAIN contract : a[1] = ts => contract[a].given = 0
        BY <1>1, <1>2 DEF Budget, Processed
      <4> QED
        BY <4>1, InvFacts, GivenNothing
    <3>4. Sum(GivenIn(contract', ts)) = 0
      BY <1>1, <3>3, Zenon
    <3> DEFINE given == Sum(GivenIn(contract', ts))
               configured == Sum(Configured(detailed'[ts]))
    <3>5. configured \in Nat /\ total = Sum(Snapshot(detailed'[ts]))
      BY <1>4, <1>5, <3>1, Zenon
    <3>6. rewardsConfig' = rewardsConfig /\ rewardsConfig.tps \in Nat /\ VoteScale \in Nat
          /\ total \in Nat
      BY <1>1, <1>5, InvFacts
    <3>7. given * VoteScale * rewardTokens'[ts].total
            <= rewardsConfig'.tps * rewardTokens'[ts].share * configured
      <4> HIDE DEF given, configured, total
      <4>1. given = 0
        BY <3>4 DEF given
      <4>2. given * VoteScale * rewardTokens'[ts].total = 0
        BY <3>2, <3>6, <4>1
      <4>3. rewardsConfig.tps * rewardTokens[ts].share * configured \in Nat
        BY <3>2, <3>5, <3>6, MulNat
      <4> QED
        BY <3>2, <3>6, <4>2, <4>3
    <3>8. detailed'[ts] # Missing
      BY <1>8, <3>1, Zenon
    <3>9. rewardTokens'[ts].total = Sum(Snapshot(detailed'[ts]))
      BY <3>2, <3>5, Zenon
    <3> HIDE DEF d, total, liquidity, info
    <3> QED
      BY <2>1, <3>2, <3>4, <3>7, <3>8, <3>9, Zenon DEF Budget
  <2>2. CASE s # ts
    <3>1. detailed'[s] = detailed[s]
      BY <1>1, <1>2, <2>2 DEF RewardsTyped
    <3>2. Processed(s)' <=> Processed(s)
      BY <1>1, <1>6, <1>7, <2>2 DEF Processed
    <3>3. CASE Processed(s)
      <4>1. rewardTokens'[s] = rewardTokens[s]
        BY <1>6, <2>2, <3>3 DEF Processed
      <4>2. Budget(s) /\ contract' = contract /\ rewardsConfig' = rewardsConfig
        BY <1>1, <1>2
      <4> HIDE DEF d, total, liquidity, info
      <4> QED
        BY <3>1, <3>2, <3>3, <4>1, <4>2, Zenon DEF Budget
    <3>4. CASE ~Processed(s)
      BY <1>1, <1>2, <3>2, <3>4 DEF Budget
    <3> QED
      BY <3>3, <3>4
  <2> QED
    BY <2>1, <2>2
<1>11. PoolsOK' /\ ContractsOK' /\ EveryPoolListed' /\ tokensSets' \in Seq(TokenSets)
       /\ ledger' \in 1..MaxLedger
  BY <1>1, <1>2, PoolsOKKept DEF ContractsOK, EveryPoolListed, registryVars
<1> QED
  BY <1>9, <1>10, <1>11 DEF RouterInv

\* A pool gets what its part of the snapshot is due, once.
LEMMA ConfigPoolStep ==
    ASSUME RouterInv, NEW ts \in TokenSets, NEW index \in DOMAIN pools[ts],
           ConfigPoolRewards(ts, index)
    PROVE  RouterInv'
<1> DEFINE voted == ts \in DOMAIN rewardTokens
           known == voted /\ index \in DOMAIN detailed[ts]
           info == rewardTokens[ts]
           share == detailed[ts][index].liquidity
           r == rewardsConfig.tps * info.share
           tps == IF known /\ share > 0 THEN ((r * share) \div info.total) \div VoteScale ELSE 0
           address == pools[ts][index]
<1>1. /\ detailed[ts] # Missing /\ rewardTokens # Missing
      /\ known => ~detailed[ts][index].configured
      /\ voted => info.processed
      /\ contract' = [contract EXCEPT ![address] = WithRewardConfig(contract[address], tps)]
      /\ detailed' = IF tps > 0 THEN MarkConfigured(ts, index) ELSE detailed
      /\ UNCHANGED <<registryVars, rewardsConfig, rewardTokens, ledger>>
  BY DEF ConfigPoolRewards
<1>2. /\ PoolsOK /\ ContractsOK /\ RewardsTyped /\ EveryPoolListed
      /\ tokensSets \in Seq(TokenSets) /\ ledger \in 1..MaxLedger
      /\ \A s \in TokenSets : Budget(s)
  BY DEF RouterInv
<1>3. /\ address \in DOMAIN contract /\ address[1] = ts /\ Well(contract)
      /\ VoteScale \in Nat \ {0} /\ rewardsConfig.tps \in Nat
      /\ rewardsConfig.expiredAt \in Nat /\ ledger \in Nat
      /\ GoodSnapshot(detailed[ts]) /\ contract[address] \in Contracts
  BY <1>1, <1>2, InvFacts DEF PoolsOK, ContractsOK
<1> DEFINE d == detailed[ts]
           given == Sum(GivenIn(contract, ts))
           configured == Sum(Configured(d))
<1>4. ASSUME voted
      PROVE  /\ Processed(ts) /\ info \in Infos /\ r \in Nat
             /\ info.total = Sum(Snapshot(d)) /\ info.total \in Nat /\ configured \in Nat
             /\ given * VoteScale * info.total <= r * configured
             /\ info.total = 0 => given = 0
             /\ \A i \in DOMAIN d : d[i].liquidity \in Nat /\ d[i].liquidity <= info.total
  <2>1. Processed(ts)
    BY <1>1, <1>4 DEF Processed
  <2>2. /\ info.total = Sum(Snapshot(d))
        /\ given * VoteScale * info.total <= r * configured
        /\ info.total = 0 => given = 0
    BY <1>2, <2>1 DEF Budget
  <2>3. info \in Infos
    BY <1>1, <1>2, <1>4 DEF RewardsTyped
  <2>4. r \in Nat
    BY <1>3, <2>3, MulNat DEF Infos
  <2>5. /\ configured \in Nat
        /\ \A i \in DOMAIN d : d[i].liquidity <= Sum(Snapshot(d))
    BY <1>3, SnapshotSums
  <2>6. \A i \in DOMAIN d : d[i].liquidity \in Nat
    BY <1>3 DEF GoodSnapshot, Entries
  <2>7. info.total \in Nat
    BY <2>3 DEF Infos
  <2> HIDE DEF info, d, given, configured, r
  <2> QED
    BY <2>1, <2>2, <2>3, <2>4, <2>5, <2>6, <2>7
<1>5. tps \in Nat /\ (tps > 0 => known /\ share > 0)
  <2>1. CASE known /\ share > 0
    <3>1. share \in Nat /\ share <= info.total /\ info.total \in Nat \ {0} /\ r \in Nat
      <4> HIDE DEF r
      <4> QED
        BY <1>4, <2>1
    <3> DEFINE p == (r * share) \div info.total
    <3>2. p \in Nat
      <4> HIDE DEF r, share
      <4> QED
        BY <3>1, DivFacts, MulNat
    <3>3. p \div VoteScale \in Nat
      <4> HIDE DEF p
      <4> QED
        BY <1>3, <3>2, DivFacts
    <3>4. tps = p \div VoteScale
      BY <2>1
    <3> HIDE DEF p, tps, known, share
    <3> QED
      BY <2>1, <3>3, <3>4
  <2>2. CASE ~(known /\ share > 0)
    BY <2>2
  <2> QED
    BY <2>1, <2>2
<1> HIDE DEF tps
<1>6. /\ DOMAIN contract' = DOMAIN contract
      /\ contract'[address] \in Contracts /\ contract'[address].given = tps
      /\ \A a \in DOMAIN contract \ {address} : contract'[a] = contract[a]
  BY <1>1, <1>3, <1>5 DEF WithRewardConfig, Contracts
<1>7. PoolsOK'
  BY <1>1, <1>2, <1>6, PoolsOKKept
<1>8. ContractsOK'
  <2> HIDE DEF address
  <2> QED
    BY <1>1, <1>2, <1>6 DEF ContractsOK, registryVars
<1>9. ASSUME tps > 0
      PROVE  /\ GoodSnapshot(detailed'[ts]) /\ DOMAIN detailed'[ts] = DOMAIN d
             /\ Snapshot(detailed'[ts]) = Snapshot(d)
             /\ Sum(Configured(detailed'[ts])) = configured + share
  <2>1. index \in DOMAIN d /\ ~d[index].configured
    BY <1>1, <1>5, <1>9
  <2>2. detailed'[ts] = [d EXCEPT ![index].configured = TRUE]
    BY <1>1, <1>2, <1>9 DEF MarkConfigured, RewardsTyped
  <2> HIDE DEF d
  <2>3. GoodSnapshot(d)
    BY <1>3 DEF d
  <2>4. Sum(Configured(detailed'[ts])) = Sum(Configured(d)) + d[index].liquidity
        /\ GoodSnapshot(detailed'[ts]) /\ DOMAIN detailed'[ts] = DOMAIN d
        /\ Snapshot(detailed'[ts]) = Snapshot(d)
    BY <2>1, <2>2, <2>3, MarkOne
  <2> QED
    BY <2>4, Zenon DEF d
<1>10. /\ DOMAIN detailed' = TokenSets
       /\ \A s \in TokenSets \ {ts} : detailed'[s] = detailed[s]
       /\ tps = 0 => detailed' = detailed
  BY <1>1, <1>2, <1>5 DEF MarkConfigured, RewardsTyped
<1>11. RewardsTyped'
  <2>1. \A s \in TokenSets : detailed'[s] # Missing => GoodSnapshot(detailed'[s])
    <3>1. \A s \in TokenSets : detailed[s] # Missing => GoodSnapshot(detailed[s])
      BY InvFacts
    <3>2. CASE tps > 0
      BY <1>9, <1>10, <3>1, <3>2
    <3>3. CASE tps = 0
      BY <1>10, <3>1, <3>3, Zenon
    <3> QED
      BY <1>5, <3>2, <3>3
  <2> QED
    BY <1>1, <1>2, <1>10, <2>1 DEF RewardsTyped, GoodSnapshot
<1>12. /\ \A s \in TokenSets \ {ts} : Sum(GivenIn(contract', s)) = Sum(GivenIn(contract, s))
       /\ Sum(GivenIn(contract', ts)) <= given + tps
       /\ Sum(GivenIn(contract', ts)) \in Nat /\ given \in Nat
  <2>1. contract'[address].given \in Nat
    BY <1>5, <1>6
  <2>2. \A a \in DOMAIN contract \ {address} : contract'[a].given = contract[a].given
    BY <1>6
  <2>3. Well(contract')
    BY <1>3, <1>6, <2>1 DEF Well
  <2>4. Sum(GivenIn(contract', ts)) \in Nat /\ given \in Nat
    BY <1>3, <2>3, GivenType
  <2> HIDE DEF address
  <2>5. \A s \in TokenSets :
            /\ Sum(GivenIn(contract', s)) <= Sum(GivenIn(contract, s)) + contract'[address].given
            /\ address[1] # s => Sum(GivenIn(contract', s)) = Sum(GivenIn(contract, s))
    BY <1>3, <1>6, <2>1, <2>2, GivenToOne
  <2> QED
    BY <1>3, <1>6, <2>4, <2>5
<1>13. ASSUME NEW s \in TokenSets \ {ts}
       PROVE  Budget(s)'
  <2>1. (\A a \in DOMAIN contract : a[1] = s => contract[a].given = 0)
          => (\A a \in DOMAIN contract' : a[1] = s => contract'[a].given = 0)
    <3> HIDE DEF address
    <3> QED
      BY <1>3, <1>6
  <2> QED
    BY <1>1, <1>2, <1>10, <1>12, <2>1, BudgetKept
<1>14. Budget(ts)'
  <2> DEFINE new == Sum(GivenIn(contract', ts))
             e == detailed'[ts]
             after == Sum(Configured(e))
  <2>1. rewardTokens'[ts] = info /\ rewardsConfig' = rewardsConfig
        /\ (Processed(ts)' <=> Processed(ts))
    BY <1>1 DEF Processed
  <2>2. new \in Nat /\ given \in Nat /\ new <= given + tps
    BY <1>12
  <2>3. CASE Processed(ts)
    <3>1. voted
      BY <2>3 DEF Processed
    <3>2. /\ info.total = Sum(Snapshot(e)) /\ e # Missing
          /\ info.total = 0 => new = 0
          /\ new * VoteScale * info.total <= r * after
      <4>1. CASE tps > 0
        <5>1. /\ known /\ share > 0 /\ share \in Nat /\ share <= info.total
              /\ info.total \in Nat /\ info.total # 0 /\ r \in Nat /\ configured \in Nat
              /\ given * VoteScale * info.total <= r * configured
              /\ tps = ((r * share) \div info.total) \div VoteScale
          <6>1. known /\ share > 0
            BY <1>5, <4>1
          <6>2. tps = ((r * share) \div info.total) \div VoteScale
            BY <6>1 DEF tps
          <6> HIDE DEF r, configured, given
          <6> QED
            BY <1>4, <3>1, <6>1, <6>2
        <5>2. (given + tps) * VoteScale * info.total <= r * (configured + share)
          <6> HIDE DEF r, configured, given, share, info, known
          <6> QED
            BY <1>3, <2>2, <5>1, DueToPool
        <5>3. new * VoteScale * info.total <= (given + tps) * VoteScale * info.total
          <6> HIDE DEF new, given, info
          <6>1. new * VoteScale <= (given + tps) * VoteScale
            BY <1>3, <1>5, <2>2, MulMono
          <6>2. new * VoteScale \in Nat /\ (given + tps) * VoteScale \in Nat
            BY <1>3, <1>5, <2>2, MulNat
          <6> QED
            BY <5>1, <6>1, <6>2, MulMono
        <5>4. after = configured + share
          BY <1>9, <4>1
        <5>5. r * after = r * (configured + share)
          BY <5>4, Zenon
        <5>6. new * VoteScale * info.total \in Int
              /\ (given + tps) * VoteScale * info.total \in Int /\ r * after \in Int
          <6> HIDE DEF new, given, info, r, after, configured, share
          <6> QED
            BY <1>3, <1>5, <2>2, <5>1, <5>4
        <5>7. new * VoteScale * info.total <= r * after
          <6> HIDE DEF new, given, info, r, after, configured, share
          <6> QED
            BY <5>2, <5>3, <5>5, <5>6
        <5>8. info.total = Sum(Snapshot(e))
          BY <1>4, <1>9, <3>1, <4>1, Zenon
        <5>9. e # Missing
          <6>1. GoodSnapshot(e)
            BY <1>9, <4>1
          <6> HIDE DEF e
          <6> QED
            BY <6>1, MissingAssumption, Zenon DEF GoodSnapshot, MissingAssumption
        <5> QED
          BY <5>1, <5>7, <5>8, <5>9
      <4>2. CASE tps = 0
        <5>1. e = d
          BY <1>10, <4>2
        <5>2. /\ info.total = Sum(Snapshot(e)) /\ e # Missing /\ after = configured
          BY <1>1, <1>4, <3>1, <5>1, Zenon
        <5>3. /\ info.total \in Nat /\ r \in Nat /\ configured \in Nat
              /\ given * VoteScale * info.total <= r * configured
              /\ info.total = 0 => given = 0
          BY <1>4, <3>1
        <5>4. new <= given
          BY <2>2, <4>2
        <5>5. new * VoteScale * info.total <= r * after
          <6> HIDE DEF new, given, info, r, after, configured
          <6>1. new * VoteScale <= given * VoteScale
            BY <1>3, <2>2, <5>4, MulMono
          <6>2. new * VoteScale \in Nat /\ given * VoteScale \in Nat
            BY <1>3, <2>2, MulNat
          <6>3. new * VoteScale * info.total <= given * VoteScale * info.total
            BY <5>3, <6>1, <6>2, MulMono
          <6>4. new * VoteScale * info.total \in Nat /\ given * VoteScale * info.total \in Nat
                /\ r * configured \in Nat
            BY <5>3, <6>2, MulNat
          <6> QED
            BY <5>2, <5>3, <6>3, <6>4
        <5>6. info.total = 0 => new = 0
          BY <2>2, <5>3, <5>4
        <5> QED
          BY <5>2, <5>5, <5>6
      <4> QED
        BY <1>5, <4>1, <4>2
    <3> HIDE DEF e, new, after
    <3> QED
      BY <2>1, <2>3, <3>2, Zenon DEF Budget, e, new, after, r
  <2>4. CASE ~Processed(ts)
    <3>1. ~voted
      BY <1>1, <2>4 DEF Processed
    <3>2. tps = 0
      BY <3>1 DEF tps
    <3>3. \A a \in DOMAIN contract : a[1] = ts => contract[a].given = 0
      BY <1>2, <2>4 DEF Budget
    <3>4. \A a \in DOMAIN contract' : a[1] = ts => contract'[a].given = 0
      <4> HIDE DEF address
      <4> QED
        BY <1>6, <3>2, <3>3
    <3> QED
      BY <2>1, <2>4, <3>4 DEF Budget
  <2> QED
    BY <2>3, <2>4
<1> QED
  BY <1>1, <1>2, <1>7, <1>8, <1>11, <1>13, <1>14
     DEF RouterInv, EveryPoolListed, registryVars

-----------------------------------------------------------------------------
(* The theorems                                                            *)

LEMMA OtherSteps ==
    ASSUME RouterInv,
           \/ \E address \in DOMAIN contract, level \in LiquidityLevels :
                    ChangeLiquidity(address, level)
           \/ NextLedger
           \/ UNCHANGED vars
    PROVE  RouterInv'
<1>1. /\ PoolsOK /\ ContractsOK /\ RewardsTyped /\ EveryPoolListed
      /\ tokensSets \in Seq(TokenSets) /\ ledger \in 1..MaxLedger
      /\ \A s \in TokenSets : Budget(s)
  BY DEF RouterInv
<1> DEFINE OnlyLiquidity ==
              /\ UNCHANGED <<registryVars, rewardVars>>
              /\ ledger' \in 1..MaxLedger
              /\ DOMAIN contract' = DOMAIN contract
              /\ \A a \in DOMAIN contract :
                    contract'[a] \in Contracts /\ contract'[a].given = contract[a].given
<1>2. OnlyLiquidity
  <2>1. \A a \in DOMAIN contract : contract[a] \in Contracts
    BY <1>1 DEF ContractsOK
  <2>2. ASSUME NEW address \in DOMAIN contract, NEW level \in LiquidityLevels,
               ChangeLiquidity(address, level)
        PROVE  OnlyLiquidity
    BY <1>1, <2>1, <2>2, RouterAssumption DEF ChangeLiquidity, Contracts, RouterAssumption
  <2>3. ASSUME NextLedger
        PROVE  OnlyLiquidity
    BY <1>1, <2>1, <2>3, RouterAssumption DEF NextLedger, RouterAssumption
  <2>4. ASSUME UNCHANGED vars
        PROVE  OnlyLiquidity
    BY <1>1, <2>1, <2>4 DEF vars
  <2> QED
    BY <2>2, <2>3, <2>4
<1>3. PoolsOK' /\ RewardsTyped'
  BY <1>1, <1>2, PoolsOKKept, RewardsTypedKept
<1>4. ContractsOK' /\ EveryPoolListed' /\ tokensSets' \in Seq(TokenSets)
  BY <1>1, <1>2 DEF ContractsOK, EveryPoolListed, registryVars
<1>5. ASSUME NEW s \in TokenSets
      PROVE  Budget(s)'
  <2>1. GivenIn(contract', s) = GivenIn(contract, s)
    BY <1>2, GivenSame
  <2>2. Sum(GivenIn(contract', s)) = Sum(GivenIn(contract, s))
    BY <2>1, Zenon
  <2> QED
    BY <1>1, <1>2, <2>2, BudgetKept DEF rewardVars
<1> QED
  BY <1>2, <1>3, <1>4, <1>5 DEF RouterInv

LEMMA RouterStep == RouterInv /\ [Next]_vars => RouterInv'
<1> SUFFICES ASSUME RouterInv, [Next]_vars
             PROVE  RouterInv'
  OBVIOUS
<1>1. CASE RegistryStep
  BY <1>1, RegistryInvStep
<1>2. CASE RewardStep
  BY <1>2, ConfigGlobalStep, FillLiquidityStep, ConfigPoolStep DEF RewardStep
<1>3. CASE \/ \E address \in DOMAIN contract, level \in LiquidityLevels :
                    ChangeLiquidity(address, level)
           \/ NextLedger
           \/ UNCHANGED vars
  BY <1>3, OtherSteps
<1> QED
  BY <1>1, <1>2, <1>3 DEF Next

LEMMA RouterAlways == Spec => []RouterInv
BY InitInv, RouterStep, PTL DEF Spec

\* The types of the router's storage; every registered pool was deployed.
THEOREM RouterTypeCorrect == Spec => []TypeOK
BY RouterAlways, InvTypes, PTL

\* get_tokens_sets_count and get_tokens reach every pool: add_tokens_set is
\* called for the first pool of a set, before the pool is recorded, and a set is
\* never taken off the list.
THEOREM PoolsAlwaysListed == Spec => []EveryPoolListed
<1>1. RouterInv => EveryPoolListed
  BY DEF RouterInv
<1> QED
  BY <1>1, RouterAlways, PTL

\* The counter in the salt of an address has passed all that were deployed, and
\* the limits leave room for each fee tier.
THEOREM RoomAlways == Spec => []RoomForEveryTier
BY RouterAlways, InvRoomy, PTL

\* fill_liquidity stores the sum of what it stores pool by pool.
THEOREM SnapshotAlwaysAddsUp == Spec => []SnapshotAddsUp
BY RouterAlways, InvSnapshot, PTL

\* config_pool_rewards never hands a token set more than its votes are worth,
\* for any number of pools and any order of the calls.
THEOREM ShareNeverExceeded == Spec => []WithinShare
BY RouterAlways, InvWithinShare, PTL

-----------------------------------------------------------------------------
(* Swaps along a chain: balances and reserves                              *)

SwapHolders == Users \cup Others \cup {Router}
Balances == [SwapHolders -> [Tokens -> Int]]
Reserves(numbers) ==
    {r \in [Pools -> UNION {[TokensOf[p] -> numbers] : p \in Pools}] :
        \A p \in Pools : r[p] \in [TokensOf[p] -> numbers]}

\* n of token t, as a function of the token.
Of(t, n, x) == IF x = t THEN n ELSE 0

\* A transfer changes two rows in one place.
LEMMA MoveFacts ==
    ASSUME NEW b \in Balances, NEW from \in SwapHolders, NEW to \in SwapHolders, from # to,
           NEW t \in Tokens, NEW n \in Int
    PROVE  /\ Move(b, from, to, t, n) \in Balances
           /\ \A h \in SwapHolders \ {from, to} : Move(b, from, to, t, n)[h] = b[h]
           /\ \A x \in Tokens :
                /\ Move(b, from, to, t, n)[from][x] = b[from][x] - Of(t, n, x)
                /\ Move(b, from, to, t, n)[to][x] = b[to][x] + Of(t, n, x)
<1> DEFINE taken == [b EXCEPT ![from][t] = @ - n]
           given == [taken EXCEPT ![to][t] = @ + n]
<1>1. Move(b, from, to, t, n) = given
  BY DEF Move
<1>2. /\ taken \in Balances
      /\ \A h \in SwapHolders \ {from} : taken[h] = b[h]
      /\ taken[from] = [b[from] EXCEPT ![t] = @ - n]
  BY DEF Balances
<1> HIDE DEF taken
<1>3. /\ given \in Balances
      /\ \A h \in SwapHolders \ {to} : given[h] = taken[h]
      /\ given[to] = [taken[to] EXCEPT ![t] = @ + n]
  BY <1>2 DEF Balances
<1> HIDE DEF given
<1>4. /\ b[from] \in [Tokens -> Int] /\ b[to] \in [Tokens -> Int]
      /\ given[from] = [b[from] EXCEPT ![t] = @ - n]
      /\ given[to] = [b[to] EXCEPT ![t] = @ + n]
  BY <1>2, <1>3 DEF Balances
<1>5. \A x \in Tokens :
        /\ given[from][x] = b[from][x] - Of(t, n, x)
        /\ given[to][x] = b[to][x] + Of(t, n, x)
  BY <1>4 DEF Of
<1> QED
  BY <1>1, <1>2, <1>3, <1>5

\* The tokens of a pool are tokens.
LEMMA PoolTokensAreTokens ==
    ASSUME NEW p \in Pools
    PROVE  TokensOf[p] \subseteq Tokens
BY DEF Tokens

-----------------------------------------------------------------------------
(* Prices                                                                   *)

LEMMA FeeFacts ==
    /\ FeeMultiplier \in Nat \ {0}
    /\ FeeMultiplier - FeeFraction \in Nat \ {0}
    /\ FeeMultiplier - FeeFraction <= FeeMultiplier
BY RouterSwapsAssumption

LEMMA GetsType ==
    ASSUME NEW T, NEW r \in [T -> Nat], NEW in \in T, NEW out \in T, NEW n \in Nat
    PROVE  Gets(r, in, out, n) \in 0..r[out]
<1> DEFINE w == (n * (FeeMultiplier - FeeFraction)) \div FeeMultiplier
<1>1. w \in Nat
  BY FeeFacts, MulNat, DivFacts
<1>2. Gets(r, in, out, n) = IF r[in] = 0 THEN 0 ELSE (w * r[out]) \div (r[in] + w)
  BY DEF Gets
<1> HIDE DEF w
<1>3. ASSUME r[in] # 0 PROVE (w * r[out]) \div (r[in] + w) \in 0..r[out]
  BY <1>1, <1>3, AmountOutKeepsProduct
<1> QED
  BY <1>2, <1>3

\* A cost is a whole number also where the reserves make no sense.
LEMMA CostsType ==
    ASSUME NEW T, NEW r \in [T -> Int], NEW in \in T, NEW out \in T, NEW n \in Int
    PROVE  /\ Costs(r, in, out, n) \in Int
           /\ Costs(r, in, out, n) # 0 => n < r[out]
           /\ r[in] \in Nat /\ n \in Nat => Costs(r, in, out, n) \in Nat
<1> DEFINE d == r[out] - n
           net == CeilDiv(r[in] * n, d)
<1>1. CASE n >= r[out]
  BY <1>1 DEF Costs
<1>2. CASE n < r[out]
  <2>1. d \in Nat \ {0} /\ r[in] * n \in Int
    BY <1>2
  <2>2. Costs(r, in, out, n) = CeilDiv(net * FeeMultiplier, FeeMultiplier - FeeFraction)
    BY <1>2 DEF Costs
  <2> HIDE DEF d
  <2>3. net \in Int
    BY <2>1 DEF CeilDiv
  <2>4. ASSUME r[in] \in Nat, n \in Nat PROVE net \in Nat
    BY <2>1, <2>4, MulNat, CeilFacts DEF CeilDiv
  <2> HIDE DEF net
  <2>5. Costs(r, in, out, n) \in Int
    BY <2>2, <2>3, FeeFacts DEF CeilDiv
  <2>6. ASSUME net \in Nat PROVE Costs(r, in, out, n) \in Nat
    BY <2>2, <2>6, FeeFacts, MulNat, CeilFacts DEF CeilDiv
  <2> QED
    BY <1>2, <2>4, <2>5, <2>6
<1> QED
  BY <1>1, <1>2

\* What is asked for can be bought for what it costs, and for more.
LEMMA CostBuys ==
    ASSUME NEW T, NEW r \in [T -> Nat], NEW in \in T, NEW out \in T, NEW y \in Nat,
           Costs(r, in, out, y) > 0, NEW n \in Nat, n >= Costs(r, in, out, y)
    PROVE  Gets(r, in, out, n) >= y
<1> DEFINE a == r[in]
           b == r[out]
           f == FeeMultiplier - FeeFraction
           net == CeilDiv(a * y, b - y)
           x == CeilDiv(net * FeeMultiplier, f)
           w == (n * f) \div FeeMultiplier
<1>1. a \in Nat /\ b \in Nat
  OBVIOUS
<1>2. y < b
  BY CostsType
<1>3. Costs(r, in, out, y) = x
  BY <1>2 DEF Costs
<1>4. Gets(r, in, out, n) = IF a = 0 THEN 0 ELSE (w * b) \div (a + w)
  BY DEF Gets
<1>5. b - y \in Nat \ {0} /\ f \in Nat \ {0} /\ FeeMultiplier \in Nat \ {0}
  BY <1>2, FeeFacts
<1> HIDE DEF a, b, f
<1>6. a * y \in Nat
  BY <1>1
<1>7. net \in Nat /\ net * (b - y) >= a * y
  BY <1>5, <1>6, CeilFacts DEF CeilDiv
<1>8. x \in Nat /\ x * f >= net * FeeMultiplier
  <2> HIDE DEF net
  <2>1. net * FeeMultiplier \in Nat
    BY <1>5, <1>7
  <2> QED
    BY <1>5, <2>1, CeilFacts DEF CeilDiv
<1>9. a # 0
  <2> SUFFICES ASSUME a = 0 PROVE x = 0
    BY <1>3
  <2>1. net = 0
    <3>1. a * y = 0
      BY <1>1
    <3>2. (0 + (b - y) - 1) \div (b - y) = 0
      BY <1>5
    <3> QED
      BY <3>1, <3>2 DEF CeilDiv
  <2>2. (0 + f - 1) \div f = 0
    BY <1>5
  <2>3. net * FeeMultiplier = 0
    BY <2>1, <1>5
  <2> QED
    BY <2>2, <2>3 DEF CeilDiv
<1> HIDE DEF net, x
<1>10. w \in Nat /\ net <= w
  <2>1. n * f \in Nat /\ x * f <= n * f
    BY <1>3, <1>5, <1>8, MulNat, MulMono
  <2>2. net * FeeMultiplier <= n * f
    BY <1>5, <1>7, <1>8, <2>1
  <2> QED
    BY <1>5, <1>7, <2>1, <2>2, DivFacts, QuotientAtLeast
<1> HIDE DEF w
<1>11. y * (a + w) <= w * b
  <2>1. net * (b - y) <= w * (b - y)
    BY <1>5, <1>7, <1>10, MulMono
  <2> QED
    BY <1>1, <1>2, <1>7, <1>10, <2>1
<1>12. w * b \in Nat /\ a + w \in Nat \ {0}
  BY <1>1, <1>9, <1>10, MulNat
<1> QED
  BY <1>4, <1>9, <1>11, <1>12, QuotientAtLeast

-----------------------------------------------------------------------------
(* Chains                                                                  *)

\* The token that one has after k hops.
After(chain, in, k) == IF k = 0 THEN in ELSE chain[k].out

LEMMA ChainFacts ==
    ASSUME NEW in \in Tokens, NEW chain \in Chains(in)
    PROVE  /\ Len(chain) \in Nat \ {0} /\ DOMAIN chain = 1..Len(chain)
           /\ Output(chain) = After(chain, in, Len(chain))
           /\ \A k \in 0..Len(chain) : After(chain, in, k) \in Tokens
           /\ \A k \in 1..Len(chain) :
                /\ chain[k].pool \in Pools
                /\ k - 1 \in 0..Len(chain)
                /\ TokenIn(chain, in, k) = After(chain, in, k - 1)
                /\ chain[k].out = After(chain, in, k)
                /\ After(chain, in, k - 1) \in TokensOf[chain[k].pool]
                /\ After(chain, in, k) \in TokensOf[chain[k].pool]
                /\ After(chain, in, k - 1) # After(chain, in, k)
           /\ ~MayRevisit => \A j, k \in 1..Len(chain) : chain[j].pool = chain[k].pool => j = k
<1>1. PICK n \in 1..MaxHops : chain \in [1..n -> Hops]
  BY DEF Chains, AllChains
<1>2. n \in Nat /\ n >= 1
  BY <1>1, RouterSwapsAssumption
<1>3. chain \in Seq(Hops)
  BY <1>1, <1>2
<1>4. Len(chain) = n
  BY <1>1, <1>2, <1>3
<1>5. \A k \in 1..n : chain[k] \in Hops
  BY <1>1
<1>6. \A k \in 1..n : chain[k].pool \in Pools /\ chain[k].out \in TokensOf[chain[k].pool]
                        /\ chain[k].out \in Tokens
  BY <1>5 DEF Hops
<1>7. \A k \in 1..n : TokenIn(chain, in, k) \in TokensOf[chain[k].pool] \ {chain[k].out}
  BY <1>1 DEF Chains, Connected
<1>8. \A k \in 1..n : k # 0 /\ k - 1 \in 0..n /\ (k - 1 = 0 <=> k = 1)
  BY <1>2
<1>9. \A k \in 1..n : TokenIn(chain, in, k) = After(chain, in, k - 1)
  BY <1>8 DEF TokenIn, After
<1>10. \A k \in 1..n : chain[k].out = After(chain, in, k)
  BY <1>8 DEF After
<1>11. \A k \in 0..n : After(chain, in, k) \in Tokens
  BY <1>2, <1>6 DEF After
<1>12. ~MayRevisit => VisitsOnce(chain)
  BY DEF Chains
<1>13. n \in Nat \ {0} /\ DOMAIN chain = 1..n /\ n # 0
  BY <1>1, <1>2
<1>14. Output(chain) = After(chain, in, n)
  BY <1>4, <1>13 DEF Output, After
<1>15. ~MayRevisit => \A j, k \in 1..n : chain[j].pool = chain[k].pool => j = k
  BY <1>12, <1>13 DEF VisitsOnce
<1>16. \A k \in 1..n : /\ After(chain, in, k - 1) \in TokensOf[chain[k].pool]
                       /\ After(chain, in, k - 1) # After(chain, in, k)
                       /\ After(chain, in, k) \in TokensOf[chain[k].pool]
  BY <1>6, <1>7, <1>9, <1>10
<1> QED
  BY <1>4, <1>6, <1>8, <1>9, <1>10, <1>11, <1>13, <1>14, <1>15, <1>16, Zenon


-----------------------------------------------------------------------------
(* One hop                                                                  *)

LEMMA PoolTradesFacts ==
    ASSUME NEW r \in Reserves(Int), NEW p \in Pools,
           NEW in \in TokensOf[p], NEW out \in TokensOf[p], in # out, NEW x \in Int, NEW y \in Int
    PROVE  /\ PoolTrades(r, p, in, out, x, y) \in Reserves(Int)
           /\ \A q \in Pools \ {p} : PoolTrades(r, p, in, out, x, y)[q] = r[q]
           /\ r \in Reserves(Nat) /\ x \in Nat /\ y <= r[p][out]
                => PoolTrades(r, p, in, out, x, y) \in Reserves(Nat)
<1> DEFINE row == [[r[p] EXCEPT ![in] = @ + x] EXCEPT ![out] = @ - y]
           new == [r EXCEPT ![p] = row]
<1>1. PoolTrades(r, p, in, out, x, y) = new
  BY DEF PoolTrades, Reserves
<1>2. \A q \in Pools : r[q] \in [TokensOf[q] -> Int]
  BY DEF Reserves
<1>3. row \in [TokensOf[p] -> Int]
  BY <1>2
<1>4. ASSUME r \in Reserves(Nat), x \in Nat, y <= r[p][out] PROVE row \in [TokensOf[p] -> Nat]
  <2>1. r[p] \in [TokensOf[p] -> Nat]
    BY <1>4 DEF Reserves
  <2>2. [r[p] EXCEPT ![in] = @ + x] \in [TokensOf[p] -> Nat]
    BY <1>4, <2>1
  <2> QED
    BY <1>4, <2>1, <2>2
<1> HIDE DEF row
<1>5. \A q \in Pools : new[q] = IF q = p THEN row ELSE r[q]
  BY DEF Reserves
<1>6. new \in Reserves(Int)
  BY <1>2, <1>3, <1>5 DEF Reserves
<1>7. ASSUME r \in Reserves(Nat), row \in [TokensOf[p] -> Nat] PROVE new \in Reserves(Nat)
  BY <1>5, <1>7 DEF Reserves
<1> QED
  BY <1>1, <1>4, <1>5, <1>6, <1>7

LEMMA RouterTradesFacts ==
    ASSUME NEW b \in Balances, NEW in \in Tokens, NEW out \in Tokens, in # out,
           NEW x \in Int, NEW y \in Int
    PROVE  /\ RouterTrades(b, in, out, x, y) \in Balances
           /\ \A h \in SwapHolders \ {Router} : RouterTrades(b, in, out, x, y)[h] = b[h]
           /\ \A t \in Tokens : RouterTrades(b, in, out, x, y)[Router][t]
                                  = b[Router][t] - Of(in, x, t) + Of(out, y, t)
<1> DEFINE row == [[b[Router] EXCEPT ![in] = @ - x] EXCEPT ![out] = @ + y]
           new == [b EXCEPT ![Router] = row]
<1>1. RouterTrades(b, in, out, x, y) = new
  BY DEF RouterTrades, Balances, SwapHolders
<1>2. Router \in SwapHolders /\ b[Router] \in [Tokens -> Int]
  BY DEF SwapHolders, Balances
<1>3. row \in [Tokens -> Int]
      /\ \A t \in Tokens : row[t] = b[Router][t] - Of(in, x, t) + Of(out, y, t)
  BY <1>2 DEF Of
<1> HIDE DEF row
<1> QED
  BY <1>1, <1>2, <1>3 DEF Balances

SwapStates == [res : Reserves(Nat), bal : Balances, n : Nat, ok : BOOLEAN]

LEMMA NatReserves ==
    ASSUME NEW r \in Reserves(Nat)
    PROVE  r \in Reserves(Int) /\ \A p \in Pools : r[p] \in [TokensOf[p] -> Nat]
<1>1. \A p \in Pools : r[p] \in [TokensOf[p] -> Nat] /\ r[p] \in [TokensOf[p] -> Int]
  BY DEF Reserves
<1>2. r \in [Pools -> UNION {[TokensOf[p] -> Int] : p \in Pools}]
  BY <1>1 DEF Reserves
<1> QED
  BY <1>1, <1>2 DEF Reserves

LEMMA SwapHopFacts ==
    ASSUME NEW in \in Tokens, NEW chain \in Chains(in), NEW k \in 1..Len(chain), NEW s \in SwapStates
    PROVE  LET p == chain[k].pool
               from == After(chain, in, k - 1)
               to == After(chain, in, k)
               got == Gets(s.res[p], from, to, s.n)
               new == SwapHop(chain, in, k, s)
           IN /\ new \in SwapStates /\ new.n = got
              /\ new.res = PoolTrades(s.res, p, from, to, s.n, got)
              /\ new.bal = RouterTrades(s.bal, from, to, s.n, got)
<1> DEFINE p == chain[k].pool
           from == After(chain, in, k - 1)
           to == After(chain, in, k)
           got == Gets(s.res[p], from, to, s.n)
           ok == s.ok /\ s.n > 0 /\ \A t \in TokensOf[p] : s.res[p][t] > 0
           rr == PoolTrades(s.res, p, from, to, s.n, got)
           bb == RouterTrades(s.bal, from, to, s.n, got)
<1>1. /\ p \in Pools /\ from \in TokensOf[p] /\ to \in TokensOf[p] /\ from # to
      /\ from \in Tokens /\ to \in Tokens
      /\ TokenIn(chain, in, k) = from /\ chain[k].out = to
  BY ChainFacts
<1>2. s.res \in Reserves(Nat) /\ s.bal \in Balances /\ s.n \in Nat
  BY DEF SwapStates
<1>3. SwapHop(chain, in, k, s) = [res |-> rr, bal |-> bb, n |-> got, ok |-> ok]
  BY <1>1, Zenon DEF SwapHop
<1> HIDE DEF p, from, to, ok
<1>4. got \in 0..s.res[p][to]
  BY <1>1, <1>2, NatReserves, GetsType
<1>5. s.res[p][to] \in Nat /\ s.res \in Reserves(Int)
  BY <1>1, <1>2, NatReserves
<1> HIDE DEF got
<1>6. got \in Nat
  BY <1>4, <1>5
<1>7. rr \in Reserves(Nat)
  BY <1>1, <1>2, <1>4, <1>5, PoolTradesFacts
<1>8. bb \in Balances
  BY <1>1, <1>2, <1>4, <1>5, RouterTradesFacts
<1> HIDE DEF rr, bb
<1>9. ok \in BOOLEAN
  BY DEF ok
<1>10. SwapHop(chain, in, k, s) \in SwapStates
  BY <1>3, <1>6, <1>7, <1>8, <1>9 DEF SwapStates
<1>11. /\ SwapHop(chain, in, k, s).n = got /\ SwapHop(chain, in, k, s).res = rr
       /\ SwapHop(chain, in, k, s).bal = bb
  BY <1>3
<1> QED
  BY <1>10, <1>11, Zenon DEF p, from, to, got, rr, bb

-----------------------------------------------------------------------------
(* All hops of swap_chained                                                 *)

LEMMA SwapHopsUnfold ==
    ASSUME NEW in \in Tokens, NEW chain \in Chains(in), NEW amount \in Nat,
           NEW start \in Balances, res \in Reserves(Nat)
    PROVE  \E f \in [0..Len(chain) -> SwapStates] :
             /\ SwapHops(chain, in, amount, start) = f[Len(chain)]
             /\ f[0] = [res |-> res, bal |-> start, n |-> amount, ok |-> TRUE]
             /\ \A k \in 1..Len(chain) : f[k] = SwapHop(chain, in, k, f[k - 1])
<1> DEFINE n == Len(chain)
           x == [res |-> res, bal |-> start, n |-> amount, ok |-> TRUE]
           g == [k \in 1..n |-> [s \in SwapStates |-> SwapHop(chain, in, k, s)]]
           P(h) == h = [k \in 0..n |-> IF k = 0 THEN x ELSE SwapHop(chain, in, k, h[k - 1])]
<1>1. n \in Nat /\ \A k \in 1..n : k - 1 \in 0..n /\ k # 0
  BY ChainFacts
<1>2. x \in SwapStates
  BY DEF SwapStates
<1>3. g \in [1..n -> [SwapStates -> SwapStates]]
  <2>1. \A k \in 1..n, s \in SwapStates : SwapHop(chain, in, k, s) \in SwapStates
    BY SwapHopFacts
  <2> HIDE DEF n
  <2> QED BY <2>1
<1>4. PICK f \in [0..n -> SwapStates] : Recursion(f, n, x, g)
  <2> HIDE DEF n, x, g
  <2> QED BY <1>1, <1>2, <1>3, RecursionExists
<1>5. P(f)
  <2>1. f = [i \in 0..n |-> IF i = 0 THEN x ELSE g[i][f[i - 1]]]
    BY <1>4, Zenon DEF Recursion
  <2>2. ASSUME NEW i \in 0..n
        PROVE  (IF i = 0 THEN x ELSE g[i][f[i - 1]])
                 = (IF i = 0 THEN x ELSE SwapHop(chain, in, i, f[i - 1]))
    <3>1. CASE i # 0
      <4>1. i \in 1..n /\ f[i - 1] \in SwapStates
        BY <1>1, <1>4, <3>1
      <4> QED
        BY <4>1, Zenon
    <3> QED
      BY <3>1, Zenon
  <2>3. [i \in 0..n |-> IF i = 0 THEN x ELSE g[i][f[i - 1]]]
          = [i \in 0..n |-> IF i = 0 THEN x ELSE SwapHop(chain, in, i, f[i - 1])]
    <3> HIDE DEF n, x, g
    <3> QED BY <2>2, Zenon
  <2> HIDE DEF n, x, g
  <2> QED BY <2>1, <2>3, Zenon
<1>6. SwapHops(chain, in, amount, start) = (CHOOSE h : P(h))[n]
  BY Zenon DEF SwapHops
<1> DEFINE k == CHOOSE h : P(h)
<1>7. P(k)
  <2> HIDE DEF P
  <2> QED BY <1>5, Zenon
<1> HIDE DEF k
<1>8. k[0] = x /\ \A i \in 1..n : k[i] = SwapHop(chain, in, i, k[i - 1])
  <2>1. \A i \in 0..n : k[i] = IF i = 0 THEN x ELSE SwapHop(chain, in, i, k[i - 1])
    BY <1>7, Zenon
  <2>2. 0 \in 0..n /\ \A i \in 1..n : i \in 0..n
    BY <1>1
  <2> HIDE DEF x, n
  <2> QED BY <1>1, <2>1, <2>2, Zenon
<1>9. k \in [0..n -> SwapStates]
  <2>1. \A i \in 1..n : k[i - 1] \in SwapStates => k[i] \in SwapStates
    BY <1>8, SwapHopFacts
  <2>2. \A i \in 0..n : k[i] \in SwapStates
    BY <1>1, <1>2, <1>8, <2>1, RecursionStays
  <2> HIDE DEF x, n
  <2> QED BY <1>7, <2>2
<1> QED
  BY <1>6, <1>8, <1>9, Zenon DEF k


\* All hops together: the router's row changes by what went in and what came
\* out, and no other row.
LEMMA SwapHopsFacts ==
    ASSUME NEW in \in Tokens, NEW chain \in Chains(in), NEW amount \in Nat,
           NEW start \in Balances, res \in Reserves(Nat)
    PROVE  LET s == SwapHops(chain, in, amount, start)
           IN /\ s \in SwapStates
              /\ \A h \in SwapHolders \ {Router} : s.bal[h] = start[h]
              /\ \A t \in Tokens : s.bal[Router][t] = start[Router][t] - Of(in, amount, t)
                                                        + Of(Output(chain), s.n, t)
<1> DEFINE n == Len(chain)
<1>1. PICK f \in [0..n -> SwapStates] :
        /\ SwapHops(chain, in, amount, start) = f[n]
        /\ f[0] = [res |-> res, bal |-> start, n |-> amount, ok |-> TRUE]
        /\ \A k \in 1..n : f[k] = SwapHop(chain, in, k, f[k - 1])
  BY SwapHopsUnfold
<1> DEFINE Rows(k) ==
             /\ \A h \in SwapHolders \ {Router} : f[k].bal[h] = start[h]
             /\ \A t \in Tokens : f[k].bal[Router][t] = start[Router][t] - Of(in, amount, t)
                                                + Of(After(chain, in, k), f[k].n, t)
           T == {k \in 0..n : Rows(k)}
<1>2. n \in Nat /\ n \in 0..n /\ \A k \in 1..n : k - 1 \in 0..n /\ k \in 0..n
  BY ChainFacts
<1>3. Router \in SwapHolders /\ \A b \in Balances, t \in Tokens : b[Router][t] \in Int
  BY DEF SwapHolders, Balances
<1>4. 0 \in T
  <2>1. f[0].n = amount /\ f[0].bal = start /\ After(chain, in, 0) = in
    BY <1>1 DEF After
  <2>2. \A t \in Tokens : Of(in, amount, t) \in Int
    BY DEF Of
  <2>3. \A t \in Tokens : start[Router][t]
          = start[Router][t] - Of(in, amount, t) + Of(in, amount, t)
    BY <1>3, <2>2
  <2> QED
    BY <1>2, <2>1, <2>3
<1>5. ASSUME NEW k \in 1..n, k - 1 \in T PROVE k \in T
  <2> DEFINE s == f[k - 1]
             p == chain[k].pool
             from == After(chain, in, k - 1)
             to == After(chain, in, k)
             got == Gets(s.res[p], from, to, s.n)
  <2>1. s \in SwapStates /\ Rows(k - 1) /\ f[k] = SwapHop(chain, in, k, s)
    BY <1>1, <1>2, <1>5
  <2>2. /\ f[k] \in SwapStates /\ f[k].n = got
        /\ f[k].bal = RouterTrades(s.bal, from, to, s.n, got)
    BY <2>1, SwapHopFacts
  <2>3. /\ s.bal \in Balances /\ s.n \in Nat /\ got \in Nat
    BY <2>1, <2>2 DEF SwapStates
  <2>4. from \in Tokens /\ to \in Tokens /\ from # to
    BY <1>2, ChainFacts
  <2> HIDE DEF s, from, to, got
  <2>5. /\ \A h \in SwapHolders \ {Router} : f[k].bal[h] = s.bal[h]
        /\ \A t \in Tokens : f[k].bal[Router][t]
                               = s.bal[Router][t] - Of(from, s.n, t) + Of(to, got, t)
    BY <2>2, <2>3, <2>4, RouterTradesFacts
  <2>6. \A t \in Tokens : /\ Of(from, s.n, t) \in Int /\ Of(to, got, t) \in Int
                          /\ Of(in, amount, t) \in Int
    BY <2>3 DEF Of
  <2>7. ASSUME NEW t \in Tokens
        PROVE  f[k].bal[Router][t] = start[Router][t] - Of(in, amount, t) + Of(to, f[k].n, t)
    <3>1. s.bal[Router][t] = start[Router][t] - Of(in, amount, t) + Of(from, s.n, t)
      BY <2>1, Zenon DEF s, from
    <3>2. f[k].bal[Router][t] = s.bal[Router][t] - Of(from, s.n, t) + Of(to, got, t)
      BY <2>5
    <3>3. start[Router][t] \in Int
      BY <1>3
    <3> QED
      BY <2>2, <2>6, <3>1, <3>2, <3>3
  <2>8. \A h \in SwapHolders \ {Router} : f[k].bal[h] = start[h]
    BY <2>1, <2>5 DEF s
  <2> QED
    BY <1>2, <2>7, <2>8 DEF to
<1>6. \A k \in 0..n : k \in T
  <2> HIDE DEF T, n
  <2> QED BY <1>2, <1>4, <1>5, BoundedInduction
<1>7. Rows(n) /\ f[n] \in SwapStates /\ After(chain, in, n) = Output(chain)
  BY <1>2, <1>6, ChainFacts
<1> QED
  BY <1>1, <1>7


-----------------------------------------------------------------------------
(* The reverse pass of swap_chained_strict_receive                          *)

\* What hop k costs at the reserves before the first swap when it is to give y.
CostOf(chain, in, k, y) == Costs(res[chain[k].pool], TokenIn(chain, in, k), chain[k].out, y)

LEMMA CostOfType ==
    ASSUME NEW in \in Tokens, NEW chain \in Chains(in), res \in Reserves(Nat),
           NEW k \in 1..Len(chain), NEW y \in Nat
    PROVE  CostOf(chain, in, k, y) \in Nat
<1> DEFINE p == chain[k].pool
           from == TokenIn(chain, in, k)
           to == chain[k].out
<1>1. p \in Pools /\ from \in TokensOf[p] /\ to \in TokensOf[p]
  BY ChainFacts
<1>2. res[p] \in [TokensOf[p] -> Nat]
  BY <1>1, NatReserves
<1>3. res[p] \in [TokensOf[p] -> Int] /\ res[p][from] \in Nat
  BY <1>1, <1>2
<1> HIDE DEF p, from, to
<1>4. Costs(res[p], from, to, y) \in Nat
  BY <1>1, <1>3, CostsType
<1> QED
  BY <1>4, Zenon DEF CostOf, p, from, to

\* The pass counts down from the last hop; it is a recursion over the number
\* of hops that are left.
LEMMA RequiredFacts ==
    ASSUME NEW in \in Tokens, NEW chain \in Chains(in), res \in Reserves(Nat), NEW y \in Nat
    PROVE  LET required == Required(chain, in, y)
           IN /\ required \in [1..Len(chain) -> Nat]
              /\ \A k \in 0..Len(chain) : Wanted(chain, in, y, required, k) \in Nat
              /\ \A k \in 1..Len(chain) :
                    required[k] = CostOf(chain, in, k, Wanted(chain, in, y, required, k))
<1> DEFINE n == Len(chain)
           g == [i \in 1..n |-> [v \in Nat |-> CostOf(chain, in, n + 1 - i, v)]]
           P(h) == h = [k \in 1..n |-> CostOf(chain, in, k, Wanted(chain, in, y, h, k))]
<1>1. /\ n \in Nat \ {0} /\ n \in Nat /\ n # 0
      /\ \A i \in 1..n : /\ n + 1 - i \in 1..n /\ i - 1 \in 0..n /\ n - i \in 0..n
                         /\ i # 0 /\ n + 1 - i # 0
  BY ChainFacts
<1>2. g \in [1..n -> [Nat -> Nat]]
  <2>1. \A i \in 1..n, v \in Nat : CostOf(chain, in, n + 1 - i, v) \in Nat
    BY <1>1, CostOfType
  <2> HIDE DEF n
  <2> QED BY <2>1
<1>3. PICK f \in [0..n -> Nat] : Recursion(f, n, y, g)
  <2> HIDE DEF n, g
  <2> QED BY <1>1, <1>2, RecursionExists
<1> DEFINE h == [k \in 1..n |-> f[n + 1 - k]]
<1>4. f[0] = y /\ \A i \in 1..n : f[i] = CostOf(chain, in, n + 1 - i, f[i - 1])
  <2>1. \A i \in 0..n : f[i] = IF i = 0 THEN y ELSE g[i][f[i - 1]]
    <3>1. f = [i \in 0..n |-> IF i = 0 THEN y ELSE g[i][f[i - 1]]]
      BY <1>3, Zenon DEF Recursion
    <3> HIDE DEF n, g
    <3> QED BY <3>1, Zenon
  <2>2. 0 \in 0..n /\ \A i \in 1..n : i \in 0..n
    BY <1>1
  <2>3. f[0] = y
    BY <2>1, <2>2, Zenon
  <2>4. ASSUME NEW i \in 1..n PROVE f[i] = CostOf(chain, in, n + 1 - i, f[i - 1])
    <3>1. f[i] = g[i][f[i - 1]]
      BY <1>1, <2>1, <2>2, Zenon
    <3>2. f[i - 1] \in Nat
      BY <1>1, <1>3
    <3> QED
      BY <3>1, <3>2, Zenon
  <2> QED
    BY <2>3, <2>4
<1>5. \A k \in 1..n : Wanted(chain, in, y, h, k) = f[n - k]
  <2> SUFFICES ASSUME NEW k \in 1..n PROVE Wanted(chain, in, y, h, k) = f[n - k]
    OBVIOUS
  <2>1. CASE k = n
    <3>1. n - k = 0
      BY <1>1, <2>1
    <3> QED
      BY <1>4, <2>1, <3>1, Zenon DEF Wanted
  <2>2. CASE k # n
    <3>1. k + 1 \in 1..n /\ n + 1 - (k + 1) = n - k
      BY <1>1, <2>2
    <3>2. h[k + 1] = f[n - k]
      BY <3>1
    <3> QED
      BY <2>2, <3>2, Zenon DEF Wanted
  <2> QED
    BY <2>1, <2>2
<1>6. P(h)
  <2>1. ASSUME NEW k \in 1..n
        PROVE  f[n + 1 - k] = CostOf(chain, in, k, Wanted(chain, in, y, h, k))
    <3> DEFINE i == n + 1 - k
    <3>1. i \in 1..n /\ n + 1 - i = k /\ i - 1 = n - k
      BY <1>1
    <3>2. f[i] = CostOf(chain, in, n + 1 - i, f[i - 1])
      BY <1>4, <3>1
    <3> QED
      BY <1>5, <3>1, <3>2
  <2>2. [k \in 1..n |-> f[n + 1 - k]]
          = [k \in 1..n |-> CostOf(chain, in, k, Wanted(chain, in, y, h, k))]
    <3> HIDE DEF n, h
    <3> QED BY <2>1, Zenon
  <2> QED
    BY <2>2, Zenon
<1>7. Required(chain, in, y) = CHOOSE r : P(r)
  BY Zenon DEF Required, CostOf
<1> DEFINE r == CHOOSE z : P(z)
<1>8. P(r)
  <2> HIDE DEF P, h
  <2> QED BY <1>6, Zenon
<1>9. Required(chain, in, y) = r
  BY <1>7, Zenon
<1> HIDE DEF r, h
<1>10. \A k \in 1..n : r[k] = CostOf(chain, in, k, Wanted(chain, in, y, r, k))
  <2> HIDE DEF n
  <2> QED BY <1>8, Zenon
<1>11. \A k \in 1..n : (k # n => k + 1 \in 1..n)
                          /\ Wanted(chain, in, y, r, k) = IF k = n THEN y ELSE r[k + 1]
  BY <1>1 DEF Wanted
<1>12. \A k \in 1..n : r[k] \in Nat
  <2> DEFINE T == {i \in 0..n : i # 0 => r[n + 1 - i] \in Nat}
  <2>1. 0 \in T
    BY <1>1
  <2>2. ASSUME NEW i \in 1..n, i - 1 \in T PROVE i \in T
    <3> DEFINE k == n + 1 - i
    <3>1. k \in 1..n /\ i \in 0..n /\ (k = n <=> i = 1) /\ n + 1 - (i - 1) = k + 1 /\ i - 1 \in Nat
      BY <1>1
    <3>2. Wanted(chain, in, y, r, k) \in Nat
      <4>1. CASE k = n
        BY <1>11, <3>1, <4>1
      <4>2. CASE k # n
        <5>1. i - 1 # 0
          BY <1>1, <3>1, <4>2
        <5>2. r[n + 1 - (i - 1)] \in Nat
          BY <2>2, <5>1
        <5> QED
          BY <1>11, <3>1, <4>2, <5>2
      <4> QED
        BY <4>1, <4>2
    <3>3. r[k] \in Nat
      <4> HIDE DEF k
      <4> QED BY <1>10, <3>1, <3>2, CostOfType
    <3> QED
      BY <3>1, <3>3
  <2>3. \A i \in 0..n : i \in T
    <3> HIDE DEF T, n
    <3> QED BY <1>1, <2>1, <2>2, BoundedInduction
  <2>4. ASSUME NEW k \in 1..n PROVE r[k] \in Nat
    <3>1. n + 1 - k \in 1..n /\ n + 1 - (n + 1 - k) = k /\ n + 1 - k \in 0..n /\ n + 1 - k # 0
      BY <1>1
    <3> QED
      BY <2>3, <3>1
  <2> QED
    BY <2>4
<1>13. r \in [1..n -> Nat]
  <2> HIDE DEF n
  <2> QED BY <1>8, <1>12, Zenon
<1>14. \A k \in 0..n : Wanted(chain, in, y, r, k) \in Nat
  <2>1. \A k \in 0..n : k # n => k + 1 \in 1..n
    BY <1>1
  <2> QED
    BY <1>12, <2>1 DEF Wanted
<1> QED
  BY <1>9, <1>10, <1>13, <1>14, Zenon


-----------------------------------------------------------------------------
(* The forward pass of swap_chained_strict_receive                          *)

StrictStates ==
    {s \in [res : Reserves(Int), bal : Balances, ok : BOOLEAN] : s.ok => s.res \in Reserves(Nat)}

LEMMA StrictHopFacts ==
    ASSUME NEW in \in Tokens, NEW chain \in Chains(in), res \in Reserves(Nat), NEW y \in Nat,
           NEW k \in 1..Len(chain), NEW s \in StrictStates
    PROVE  LET required == Required(chain, in, y)
               p == chain[k].pool
               from == After(chain, in, k - 1)
               to == After(chain, in, k)
               want == Wanted(chain, in, y, required, k)
               cost == Costs(s.res[p], from, to, want)
               new == StrictHop(chain, in, y, required, k, s)
           IN /\ new \in StrictStates /\ cost \in Int
              /\ new.res = PoolTrades(s.res, p, from, to, cost, want)
              /\ new.bal = RouterTrades(s.bal, from, to, cost, want)
<1> DEFINE required == Required(chain, in, y)
           p == chain[k].pool
           from == After(chain, in, k - 1)
           to == After(chain, in, k)
           want == Wanted(chain, in, y, required, k)
           cost == Costs(s.res[p], from, to, want)
           ok == s.ok /\ cost \in 1..required[k]
           rr == PoolTrades(s.res, p, from, to, cost, want)
           bb == RouterTrades(s.bal, from, to, cost, want)
<1>1. /\ p \in Pools /\ from \in TokensOf[p] /\ to \in TokensOf[p] /\ from # to
      /\ from \in Tokens /\ to \in Tokens /\ k \in 0..Len(chain)
      /\ TokenIn(chain, in, k) = from /\ chain[k].out = to
  BY ChainFacts
<1>2. s.res \in Reserves(Int) /\ s.bal \in Balances /\ (s.ok => s.res \in Reserves(Nat))
  BY DEF StrictStates
<1>3. StrictHop(chain, in, y, required, k, s) = [res |-> rr, bal |-> bb, ok |-> ok]
  BY <1>1, Zenon DEF StrictHop
<1>4. want \in Nat /\ required[k] \in Nat
  BY <1>1, RequiredFacts
<1> HIDE DEF required, p, from, to, want, ok
<1>5. s.res[p] \in [TokensOf[p] -> Int]
  BY <1>1, <1>2 DEF Reserves
<1>6. cost \in Int /\ (cost # 0 => want < s.res[p][to])
  <2> DEFINE row == s.res[p]
  <2>1. row \in [TokensOf[p] -> Int] /\ want \in Int
    BY <1>4, <1>5
  <2> HIDE DEF row, rr, bb
  <2>2. Costs(row, from, to, want) \in Int
        /\ (Costs(row, from, to, want) # 0 => want < row[to])
    BY <1>1, <2>1, CostsType
  <2> QED
    BY <2>2 DEF row
<1>7. s.res[p][to] \in Int
  BY <1>1, <1>5
<1> HIDE DEF cost
<1>8. rr \in Reserves(Int)
  BY <1>1, <1>2, <1>4, <1>6, PoolTradesFacts
<1>9. ok => rr \in Reserves(Nat)
  <2> SUFFICES ASSUME ok PROVE rr \in Reserves(Nat)
    OBVIOUS
  <2>1. s.ok /\ cost \in Nat /\ cost # 0
    BY <1>4, <1>6 DEF ok
  <2>2. want <= s.res[p][to]
    BY <1>4, <1>6, <1>7, <2>1
  <2> QED
    BY <1>1, <1>2, <1>4, <1>6, <2>1, <2>2, PoolTradesFacts
<1>10. bb \in Balances
  BY <1>1, <1>2, <1>4, <1>6, RouterTradesFacts
<1> HIDE DEF rr, bb
<1>11. ok \in BOOLEAN
  BY DEF ok
<1>12. StrictHop(chain, in, y, required, k, s) \in StrictStates
  BY <1>3, <1>8, <1>9, <1>10, <1>11 DEF StrictStates
<1>13. /\ StrictHop(chain, in, y, required, k, s).res = rr
       /\ StrictHop(chain, in, y, required, k, s).bal = bb
  BY <1>3
<1> QED
  BY <1>6, <1>12, <1>13, Zenon DEF required, p, from, to, want, cost, rr, bb

LEMMA StrictHopsUnfold ==
    ASSUME NEW in \in Tokens, NEW chain \in Chains(in), res \in Reserves(Nat), NEW y \in Nat,
           NEW start \in Balances
    PROVE  \E f \in [0..Len(chain) -> StrictStates] :
             LET required == Required(chain, in, y)
             IN /\ StrictHops(chain, in, y, required, start) = f[Len(chain)]
                /\ f[0] = [res |-> res, bal |-> start, ok |-> TRUE]
                /\ \A k \in 1..Len(chain) :
                        f[k] = StrictHop(chain, in, y, required, k, f[k - 1])
<1> DEFINE n == Len(chain)
           required == Required(chain, in, y)
           x == [res |-> res, bal |-> start, ok |-> TRUE]
           hop(i, s) == StrictHop(chain, in, y, required, i, s)
           g == [k \in 1..n |-> [s \in StrictStates |-> hop(k, s)]]
           P(h) == h = [k \in 0..n |-> IF k = 0 THEN x
                                       ELSE StrictHop(chain, in, y, required, k, h[k - 1])]
<1>1. n \in Nat /\ \A k \in 1..n : k - 1 \in 0..n /\ k # 0
  BY ChainFacts
<1>2. x \in StrictStates
  BY NatReserves DEF StrictStates
<1>3. \A k \in 1..n, s \in StrictStates : hop(k, s) \in StrictStates
  BY StrictHopFacts
<1> HIDE DEF required
<1>4. g \in [1..n -> [StrictStates -> StrictStates]]
  <2> HIDE DEF n, hop
  <2> QED BY <1>3
<1>5. PICK f \in [0..n -> StrictStates] : Recursion(f, n, x, g)
  <2> HIDE DEF n, x, g
  <2> QED BY <1>1, <1>2, <1>4, RecursionExists
<1>6. P(f)
  <2>1. f = [i \in 0..n |-> IF i = 0 THEN x ELSE g[i][f[i - 1]]]
    BY <1>5, Zenon DEF Recursion
  <2>2. ASSUME NEW i \in 0..n
        PROVE  (IF i = 0 THEN x ELSE g[i][f[i - 1]])
                 = (IF i = 0 THEN x ELSE StrictHop(chain, in, y, required, i, f[i - 1]))
    <3>1. CASE i # 0
      <4>1. i \in 1..n /\ f[i - 1] \in StrictStates
        BY <1>1, <1>5, <3>1
      <4> QED
        BY <4>1, Zenon
    <3> QED
      BY <3>1, Zenon
  <2>3. [i \in 0..n |-> IF i = 0 THEN x ELSE g[i][f[i - 1]]]
          = [i \in 0..n |-> IF i = 0 THEN x ELSE StrictHop(chain, in, y, required, i, f[i - 1])]
    <3> HIDE DEF n, x, g
    <3> QED BY <2>2, Zenon
  <2> HIDE DEF n, x, g
  <2> QED BY <2>1, <2>3, Zenon
<1>7. StrictHops(chain, in, y, required, start) = (CHOOSE h : P(h))[n]
  BY Zenon DEF StrictHops
<1> DEFINE k == CHOOSE h : P(h)
<1>8. P(k)
  <2> HIDE DEF P
  <2> QED BY <1>6, Zenon
<1> HIDE DEF k
<1>9. k[0] = x /\ \A i \in 1..n : k[i] = hop(i, k[i - 1])
  <2>1. \A i \in 0..n : k[i] = IF i = 0 THEN x ELSE hop(i, k[i - 1])
    BY <1>8, Zenon
  <2>2. 0 \in 0..n /\ \A i \in 1..n : i \in 0..n
    BY <1>1
  <2> HIDE DEF x, n, hop
  <2> QED BY <1>1, <2>1, <2>2, Zenon
<1>10. k \in [0..n -> StrictStates]
  <2>1. \A i \in 1..n : k[i - 1] \in StrictStates => k[i] \in StrictStates
    BY <1>3, <1>9
  <2>2. \A i \in 0..n : k[i] \in StrictStates
    BY <1>1, <1>2, <1>9, <2>1, RecursionStays
  <2> HIDE DEF x, n
  <2> QED BY <1>8, <2>2
<1> QED
  BY <1>7, <1>9, <1>10, Zenon DEF k, required

\* All hops together.  When a pool is visited once, its reserves are still
\* those of the reverse pass when its hop is due, which then costs what was
\* required: what each hop gives is what the next one takes, and the router's
\* row changes by the first requirement and by what was asked for.
LEMMA StrictHopsFacts ==
    ASSUME NEW in \in Tokens, NEW chain \in Chains(in), res \in Reserves(Nat), NEW y \in Nat,
           NEW start \in Balances
    PROVE  LET required == Required(chain, in, y)
               s == StrictHops(chain, in, y, required, start)
           IN /\ s \in StrictStates
              /\ \A h \in SwapHolders \ {Router} : s.bal[h] = start[h]
              /\ ~MayRevisit => 
                   \A t \in Tokens : s.bal[Router][t] = start[Router][t]
                     - Of(in, required[1], t) + Of(Output(chain), y, t)
<1> DEFINE n == Len(chain)
           required == Required(chain, in, y)
           need(k) == Wanted(chain, in, y, required, k)
<1>1. PICK f \in [0..n -> StrictStates] :
        /\ StrictHops(chain, in, y, required, start) = f[n]
        /\ f[0] = [res |-> res, bal |-> start, ok |-> TRUE]
        /\ \A k \in 1..n : f[k] = StrictHop(chain, in, y, required, k, f[k - 1])
  BY StrictHopsUnfold
<1>2. /\ n \in Nat \ {0} /\ n \in Nat /\ n \in 0..n /\ 0 \in 0..n /\ n # 0
      /\ \A k \in 1..n : k - 1 \in 0..n /\ k \in 0..n /\ k - 1 # n /\ (k - 1) + 1 = k
  BY ChainFacts
<1>3. Router \in SwapHolders /\ \A b \in Balances, t \in Tokens : b[Router][t] \in Int
  BY DEF SwapHolders, Balances
<1>4. \A k \in 0..n : need(k) \in Nat
  BY RequiredFacts
<1>5. \A k \in 1..n : required[k] = CostOf(chain, in, k, need(k))
  BY RequiredFacts
<1>6. need(n) = y /\ \A k \in 1..n : need(k - 1) = required[k]
  <2> HIDE DEF required
  <2> QED BY <1>2 DEF Wanted
<1>7. need(0) = required[1]
  <2> HIDE DEF required
  <2> QED BY <1>2 DEF Wanted
<1> HIDE DEF required, need
<1> DEFINE Same(k) == \A h \in SwapHolders \ {Router} : f[k].bal[h] = start[h]
           Fresh(k) == \A j \in 1..n : j > k => f[k].res[chain[j].pool] = res[chain[j].pool]
           Row(k) == \A t \in Tokens : f[k].bal[Router][t] = start[Router][t]
                        - Of(in, need(0), t) + Of(After(chain, in, k), need(k), t)
           T == {k \in 0..n : Same(k) /\ (~MayRevisit => Fresh(k) /\ Row(k))}
<1>8. 0 \in T
  <2>1. f[0].bal = start /\ f[0].res = res /\ After(chain, in, 0) = in
    BY <1>1 DEF After
  <2>2. \A t \in Tokens : Of(in, need(0), t) \in Int
    BY <1>2, <1>4 DEF Of
  <2>3. \A t \in Tokens : start[Router][t]
          = start[Router][t] - Of(in, need(0), t) + Of(in, need(0), t)
    BY <1>3, <2>2
  <2> QED
    BY <1>2, <2>1, <2>3
<1>9. ASSUME NEW k \in 1..n, k - 1 \in T PROVE k \in T
  <2> DEFINE s == f[k - 1]
             p == chain[k].pool
             from == After(chain, in, k - 1)
             to == After(chain, in, k)
             cost == Costs(s.res[p], from, to, need(k))
  <2>1. /\ s \in StrictStates /\ Same(k - 1) /\ (~MayRevisit => Fresh(k - 1) /\ Row(k - 1))
        /\ f[k] = StrictHop(chain, in, y, required, k, s)
    BY <1>1, <1>2, <1>9
  <2>2. /\ f[k] \in StrictStates /\ cost \in Int
        /\ f[k].res = PoolTrades(s.res, p, from, to, cost, need(k))
        /\ f[k].bal = RouterTrades(s.bal, from, to, cost, need(k))
    <3>1. s \in StrictStates /\ f[k] = StrictHop(chain, in, y, required, k, s)
      BY <2>1
    <3>2. k \in 1..Len(chain)
      OBVIOUS
    <3> HIDE DEF s, n
    <3>3. LET p1 == chain[k].pool
              from1 == After(chain, in, k - 1)
              to1 == After(chain, in, k)
              want1 == Wanted(chain, in, y, required, k)
              cost1 == Costs(s.res[p1], from1, to1, want1)
              new1 == StrictHop(chain, in, y, required, k, s)
          IN /\ new1 \in StrictStates /\ cost1 \in Int
             /\ new1.res = PoolTrades(s.res, p1, from1, to1, cost1, want1)
             /\ new1.bal = RouterTrades(s.bal, from1, to1, cost1, want1)
      BY <3>1, <3>2, StrictHopFacts, Zenon DEF required
    <3> QED
      BY <3>1, <3>3, Zenon DEF need
  <2>3. s.bal \in Balances /\ s.res \in Reserves(Int) /\ need(k) \in Nat
    BY <1>2, <1>4, <2>1 DEF StrictStates
  <2>4. /\ from \in Tokens /\ to \in Tokens /\ from # to /\ p \in Pools
        /\ from \in TokensOf[p] /\ to \in TokensOf[p]
        /\ TokenIn(chain, in, k) = from /\ chain[k].out = to
    BY <1>2, ChainFacts
  <2>5. ~MayRevisit => cost = need(k - 1)
    <3>1. CostOf(chain, in, k, need(k)) = Costs(res[p], from, to, need(k))
      BY <2>4, Zenon DEF CostOf
    <3>2. Fresh(k - 1) => s.res[p] = res[p]
      <4>1. k > k - 1
        OBVIOUS
      <4> QED
        BY <4>1
    <3> QED
      BY <1>5, <1>6, <2>1, <3>1, <3>2
  <2> HIDE DEF s, from, to, cost
  <2>6. /\ \A h \in SwapHolders \ {Router} : f[k].bal[h] = s.bal[h]
        /\ \A t \in Tokens : f[k].bal[Router][t]
                               = s.bal[Router][t] - Of(from, cost, t) + Of(to, need(k), t)
    BY <2>2, <2>3, <2>4, RouterTradesFacts
  <2>7. ASSUME ~MayRevisit, NEW t \in Tokens
        PROVE  f[k].bal[Router][t] = start[Router][t] - Of(in, need(0), t) + Of(to, need(k), t)
    <3>1. s.bal[Router][t] = start[Router][t] - Of(in, need(0), t) + Of(from, need(k - 1), t)
      BY <2>1, <2>7, Zenon DEF s, from
    <3>2. f[k].bal[Router][t] = s.bal[Router][t] - Of(from, need(k - 1), t) + Of(to, need(k), t)
      BY <2>5, <2>6, <2>7, Zenon
    <3>3. /\ start[Router][t] \in Int /\ Of(in, need(0), t) \in Int
          /\ Of(from, need(k - 1), t) \in Int /\ Of(to, need(k), t) \in Int
      BY <1>2, <1>3, <1>4 DEF Of
    <3> QED
      BY <3>1, <3>2, <3>3
  <2>8. \A h \in SwapHolders \ {Router} : f[k].bal[h] = start[h]
    BY <2>1, <2>6 DEF s
  <2>9. ASSUME ~MayRevisit, NEW j \in 1..n, j > k
        PROVE  f[k].res[chain[j].pool] = res[chain[j].pool]
    <3>1. j # k /\ j > k - 1
      BY <2>9
    <3>2. chain[j].pool \in Pools /\ chain[j].pool # p
      BY <2>9, <3>1, ChainFacts
    <3>3. f[k].res[chain[j].pool] = s.res[chain[j].pool]
      BY <2>2, <2>3, <2>4, <3>2, PoolTradesFacts
    <3>4. s.res[chain[j].pool] = res[chain[j].pool]
      BY <2>1, <2>9, <3>1 DEF s
    <3> QED
      BY <3>3, <3>4
  <2> QED
    BY <1>2, <2>7, <2>8, <2>9 DEF to
<1>10. \A k \in 0..n : k \in T
  <2> HIDE DEF T, n
  <2> QED BY <1>2, <1>8, <1>9, BoundedInduction
<1>11. /\ Same(n) /\ (~MayRevisit => Row(n)) /\ f[n] \in StrictStates
       /\ After(chain, in, n) = Output(chain)
  BY <1>2, <1>10, ChainFacts
<1> HIDE DEF n
<1> QED
  BY <1>1, <1>6, <1>7, <1>11 DEF required


-----------------------------------------------------------------------------
(* The quote of the reverse pass is enough                                  *)

\* By induction along the chain each hop is given at least what the reverse
\* pass required of it, and its pool still has the reserves of that pass.
LEMMA QuoteIsEnough ==
    ASSUME NEW in \in Tokens, NEW chain \in Chains(in), res \in Reserves(Nat), NEW y \in Nat,
           NEW start \in Balances, ~MayRevisit,
           \A k \in 1..Len(chain) : Required(chain, in, y)[k] > 0
    PROVE  SwapHops(chain, in, Required(chain, in, y)[1], start).n >= y
<1> DEFINE n == Len(chain)
           required == Required(chain, in, y)
           need(k) == Wanted(chain, in, y, required, k)
<1>1. /\ n \in Nat \ {0} /\ n \in Nat /\ n \in 0..n /\ 0 \in 0..n /\ n # 0 /\ 1 \in 1..n
      /\ \A k \in 1..n : k - 1 \in 0..n /\ k \in 0..n /\ k - 1 # n /\ (k - 1) + 1 = k
  BY ChainFacts
<1>2. required \in [1..n -> Nat]
  BY RequiredFacts
<1>3. \A k \in 0..n : need(k) \in Nat
  BY RequiredFacts
<1>4. \A k \in 1..n : required[k] = CostOf(chain, in, k, need(k)) /\ required[k] > 0
  BY RequiredFacts
<1>5. need(n) = y /\ need(0) = required[1] /\ \A k \in 1..n : need(k - 1) = required[k]
  <2> HIDE DEF required
  <2> QED BY <1>1 DEF Wanted
<1>6. required[1] \in Nat
  BY <1>1, <1>2
<1>7. PICK f \in [0..n -> SwapStates] :
        /\ SwapHops(chain, in, required[1], start) = f[n]
        /\ f[0] = [res |-> res, bal |-> start, n |-> required[1], ok |-> TRUE]
        /\ \A k \in 1..n : f[k] = SwapHop(chain, in, k, f[k - 1])
  <2> HIDE DEF required
  <2> QED BY <1>6, SwapHopsUnfold
<1> HIDE DEF required, need
<1> DEFINE Fresh(k) == \A j \in 1..n : j > k => f[k].res[chain[j].pool] = res[chain[j].pool]
           T == {k \in 0..n : f[k].n >= need(k) /\ Fresh(k)}
<1>8. 0 \in T
  <2>1. f[0].n = required[1] /\ f[0].res = res
    BY <1>7
  <2> QED
    BY <1>1, <1>5, <1>6, <2>1
<1>9. ASSUME NEW k \in 1..n, k - 1 \in T PROVE k \in T
  <2> DEFINE s == f[k - 1]
             p == chain[k].pool
             from == After(chain, in, k - 1)
             to == After(chain, in, k)
             got == Gets(s.res[p], from, to, s.n)
  <2>1. s \in SwapStates /\ s.n >= need(k - 1) /\ Fresh(k - 1) /\ f[k] = SwapHop(chain, in, k, s)
    BY <1>1, <1>7, <1>9
  <2>2. f[k].n = got /\ f[k].res = PoolTrades(s.res, p, from, to, s.n, got) /\ f[k] \in SwapStates
    BY <2>1, SwapHopFacts
  <2>3. s.res \in Reserves(Nat) /\ s.n \in Nat /\ got \in Nat
    BY <2>1, <2>2 DEF SwapStates
  <2>4. /\ from # to /\ p \in Pools /\ from \in TokensOf[p] /\ to \in TokensOf[p]
        /\ TokenIn(chain, in, k) = from /\ chain[k].out = to
    BY <1>1, ChainFacts
  <2>5. s.res[p] = res[p]
    <3>1. k > k - 1
      OBVIOUS
    <3> QED
      BY <2>1, <3>1
  <2>6. Costs(res[p], from, to, need(k)) = need(k - 1) /\ need(k - 1) > 0
    BY <1>4, <1>5, <2>4, Zenon DEF CostOf
  <2>7. need(k) \in Nat /\ res[p] \in [TokensOf[p] -> Nat]
    BY <1>1, <1>3, <2>4, NatReserves
  <2> HIDE DEF s, from, to, p
  <2>8. Gets(res[p], from, to, s.n) >= need(k)
    BY <2>1, <2>3, <2>4, <2>6, <2>7, CostBuys
  <2>9. f[k].n >= need(k)
    BY <2>2, <2>5, <2>8
  <2> HIDE DEF got
  <2>10. ASSUME NEW j \in 1..n, j > k
         PROVE  f[k].res[chain[j].pool] = res[chain[j].pool]
    <3>1. j # k /\ j > k - 1
      BY <2>10
    <3>2. chain[j].pool \in Pools /\ chain[j].pool # p
      BY <2>10, <3>1, ChainFacts DEF p
    <3>3. s.res \in Reserves(Int)
      BY <2>3, NatReserves
    <3>4. f[k].res[chain[j].pool] = s.res[chain[j].pool]
      BY <2>2, <2>3, <2>4, <3>2, <3>3, PoolTradesFacts
    <3>5. s.res[chain[j].pool] = res[chain[j].pool]
      BY <2>1, <2>10, <3>1 DEF s
    <3> QED
      BY <3>4, <3>5
  <2> QED
    BY <1>1, <2>9, <2>10
<1>10. \A k \in 0..n : k \in T
  <2> HIDE DEF T, n
  <2> QED BY <1>1, <1>8, <1>9, BoundedInduction
<1>11. f[n].n >= need(n)
  BY <1>1, <1>10
<1> QED
  BY <1>5, <1>7, <1>11 DEF required

-----------------------------------------------------------------------------
(* The calls of a user and of the Collector                                 *)

SwapsInv ==
    /\ res \in Reserves(Nat) /\ bal \in Balances /\ due \in [Tokens -> Nat]
    /\ CollectorHoldsFees

LEMMA HolderFacts ==
    /\ {Router, Collector, Destination} \subseteq SwapHolders /\ Users \subseteq SwapHolders
    /\ Collector # Router /\ Destination # Router /\ Collector # Destination
    /\ \A u \in Users : u # Router /\ u # Collector /\ u # Destination
BY RouterSwapsAssumption, ProviderSwapFeeAssumption DEF SwapHolders

LEMMA SameRow ==
    ASSUME NEW r \in [Tokens -> Int], NEW q \in [Tokens -> Int], \A t \in Tokens : r[t] = q[t]
    PROVE  r = q
OBVIOUS

LEMMA OfType ==
    ASSUME NEW t, NEW n \in Int, NEW x
    PROVE  Of(t, n, x) \in Int
BY DEF Of

\* What the router gives: the output, and what it then has more than before.
Surplus(b, in, out, y) == b[Router][in] - Of(out, y, in) - bal[Router][in]
Given(b, h, in, out, y, new, back) ==
    /\ back = IF Surplus(b, in, out, y) > 0 THEN Surplus(b, in, out, y) ELSE 0
    /\ new \in Balances
    /\ \A g \in SwapHolders \ {h, Router} : new[g] = b[g]
    /\ \A t \in Tokens :
        /\ new[h][t] = b[h][t] + Of(out, y, t) + Of(in, back, t)
        /\ new[Router][t] = b[Router][t] - Of(out, y, t) - Of(in, back, t)

LEMMA RefundFacts ==
    ASSUME bal \in Balances, NEW b \in Balances, NEW h \in SwapHolders, h # Router,
           NEW in \in Tokens, NEW out \in Tokens, NEW y \in Int
    PROVE  \E back \in Nat : Given(b, h, in, out, y, Refund(h, in, out, y, b), back)
<1> DEFINE paid == Move(b, Router, h, out, y)
           more == paid[Router][in] - bal[Router][in]
           back == IF more > 0 THEN more ELSE 0
           new == IF more > 0 THEN Move(paid, Router, h, in, more) ELSE paid
<1>1. Refund(h, in, out, y, b) = new
  BY DEF Refund
<1>2. Router \in SwapHolders
  BY HolderFacts
<1>3. /\ paid \in Balances
      /\ \A g \in SwapHolders \ {h, Router} : paid[g] = b[g]
      /\ \A t \in Tokens : /\ paid[h][t] = b[h][t] + Of(out, y, t)
                           /\ paid[Router][t] = b[Router][t] - Of(out, y, t)
  BY <1>2, MoveFacts
<1> HIDE DEF paid
<1>4. \A t \in Tokens : /\ paid[h][t] \in Int /\ paid[Router][t] \in Int /\ bal[Router][t] \in Int
                        /\ b[h][t] \in Int /\ b[Router][t] \in Int /\ Of(out, y, t) \in Int
  BY <1>2, <1>3, OfType DEF Balances
<1>5. more \in Int /\ back \in Nat
  BY <1>4
<1>6. more = Surplus(b, in, out, y)
  BY <1>3 DEF Surplus
<1> HIDE DEF more
<1>7. /\ new \in Balances
      /\ \A g \in SwapHolders \ {h, Router} : new[g] = b[g]
      /\ \A t \in Tokens : /\ new[h][t] = paid[h][t] + Of(in, back, t)
                           /\ new[Router][t] = paid[Router][t] - Of(in, back, t)
  <2>1. CASE more > 0
    BY <1>2, <1>3, <1>5, <2>1, MoveFacts
  <2>2. CASE ~(more > 0)
    <3>1. back = 0 /\ new = paid /\ \A t \in Tokens : Of(in, back, t) = 0
      BY <2>2 DEF Of
    <3> QED
      BY <1>3, <1>4, <3>1
  <2> QED
    BY <2>1, <2>2
<1>8. \A t \in Tokens : /\ new[h][t] = b[h][t] + Of(out, y, t) + Of(in, back, t)
                        /\ new[Router][t] = b[Router][t] - Of(out, y, t) - Of(in, back, t)
  BY <1>3, <1>7
<1> HIDE DEF new
<1>9. back = IF more > 0 THEN more ELSE 0
  OBVIOUS
<1> HIDE DEF back
<1> QED
  BY <1>1, <1>5, <1>6, <1>7, <1>8, <1>9 DEF Given

\* The tokens go in through the Collector, whose row is then as it was.
LEMMA PaidInFacts ==
    ASSUME bal \in Balances, NEW u \in Users, NEW in \in Tokens, NEW n \in Int
    PROVE  /\ PaidIn(u, in, n) \in Balances
           /\ PaidIn(u, in, n)[Collector] = bal[Collector]
           /\ \A t \in Tokens : PaidIn(u, in, n)[Router][t] = bal[Router][t] + Of(in, n, t)
<1> DEFINE b == Move(bal, u, Collector, in, n)
           new == Move(b, Collector, Router, in, n)
<1>1. PaidIn(u, in, n) = new
  BY DEF PaidIn
<1>2. /\ u \in SwapHolders /\ Router \in SwapHolders /\ Collector \in SwapHolders
      /\ u # Router /\ u # Collector /\ Collector # Router
  BY HolderFacts
<1>3. /\ b \in Balances /\ b[Router] = bal[Router]
      /\ \A t \in Tokens : b[Collector][t] = bal[Collector][t] + Of(in, n, t)
  BY <1>2, MoveFacts
<1> HIDE DEF b
<1>4. /\ new \in Balances
      /\ \A t \in Tokens : /\ new[Collector][t] = b[Collector][t] - Of(in, n, t)
                           /\ new[Router][t] = b[Router][t] + Of(in, n, t)
  BY <1>2, <1>3, MoveFacts
<1> HIDE DEF new
<1>5. new[Collector] \in [Tokens -> Int] /\ bal[Collector] \in [Tokens -> Int]
  BY <1>2, <1>4 DEF Balances
<1>6. \A t \in Tokens : new[Collector][t] = bal[Collector][t]
  BY <1>3, <1>4, <1>5, OfType
<1>7. new[Collector] = bal[Collector]
  BY <1>5, <1>6, SameRow
<1> QED
  BY <1>1, <1>3, <1>4, <1>7

LEMMA SwapChainedKeeps ==
    ASSUME SwapsInv, NEW u \in Users, NEW in \in Tokens, NEW chain \in Chains(in),
           NEW amount \in Nat, NEW outMin,
           SwapChained(u, chain, in, amount, outMin), due' = due
    PROVE  SwapsInv' /\ bal'[Router] = bal[Router]
<1> DEFINE start == Move(bal, u, Router, in, amount)
           s == SwapHops(chain, in, amount, start)
           out == Output(chain)
<1>1. res \in Reserves(Nat) /\ bal \in Balances /\ due \in [Tokens -> Nat] /\ bal[Collector] = due
  BY DEF SwapsInv, CollectorHoldsFees
<1>2. /\ u \in SwapHolders /\ Router \in SwapHolders /\ Collector \in SwapHolders \ {u, Router}
      /\ u # Router
  BY HolderFacts
<1>3. out \in Tokens
  BY ChainFacts
<1>4. /\ start \in Balances /\ start[Collector] = bal[Collector]
      /\ \A t \in Tokens : start[Router][t] = bal[Router][t] + Of(in, amount, t)
  BY <1>1, <1>2, MoveFacts
<1>5. res' = s.res /\ bal' = Move(s.bal, Router, u, out, s.n)
  BY DEF SwapChained
<1> HIDE DEF start, out
<1>6. /\ s \in SwapStates
      /\ \A h \in SwapHolders \ {Router} : s.bal[h] = start[h]
      /\ \A t \in Tokens : s.bal[Router][t] = start[Router][t] - Of(in, amount, t) + Of(out, s.n, t)
  BY <1>1, <1>4, SwapHopsFacts, Zenon DEF out
<1> HIDE DEF s
<1>7. s.res \in Reserves(Nat) /\ s.bal \in Balances /\ s.n \in Nat
  BY <1>6 DEF SwapStates
<1>8. /\ bal' \in Balances /\ bal'[Collector] = s.bal[Collector]
      /\ \A t \in Tokens : bal'[Router][t] = s.bal[Router][t] - Of(out, s.n, t)
  <2> DEFINE b == s.bal
             m == s.n
  <2>1. b \in Balances /\ m \in Int
    BY <1>7
  <2> HIDE DEF b, m
  <2>2. /\ Move(b, Router, u, out, m) \in Balances
        /\ Move(b, Router, u, out, m)[Collector] = b[Collector]
        /\ \A t \in Tokens : Move(b, Router, u, out, m)[Router][t] = b[Router][t] - Of(out, m, t)
    BY <1>2, <1>3, <2>1, MoveFacts
  <2> QED
    BY <1>5, <2>2 DEF b, m
<1>9. bal'[Router] = bal[Router]
  <2>1. bal'[Router] \in [Tokens -> Int] /\ bal[Router] \in [Tokens -> Int]
    BY <1>1, <1>2, <1>8 DEF Balances
  <2>2. ASSUME NEW t \in Tokens PROVE bal'[Router][t] = bal[Router][t]
    <3>1. Of(in, amount, t) \in Int /\ Of(out, s.n, t) \in Int /\ bal[Router][t] \in Int
      BY <1>7, <2>1, OfType
    <3> QED
      BY <1>4, <1>6, <1>8, <3>1
  <2> QED
    BY <2>1, <2>2, SameRow
<1>10. bal'[Collector] = due'
  BY <1>1, <1>2, <1>4, <1>6, <1>8
<1> QED
  BY <1>1, <1>5, <1>7, <1>8, <1>9, <1>10 DEF SwapsInv, CollectorHoldsFees

\* The router gives back what the first hop did not need, and nothing else.
LEMMA StrictSettles ==
    ASSUME SwapsInv, ~MayRevisit, NEW in \in Tokens, NEW chain \in Chains(in), NEW y \in Nat,
           NEW maxIn \in Nat, NEW start \in Balances, NEW h \in SwapHolders, h # Router,
           \A t \in Tokens : start[Router][t] = bal[Router][t] + Of(in, maxIn, t),
           Required(chain, in, y)[1] <= maxIn
    PROVE  LET s == StrictHops(chain, in, y, Required(chain, in, y), start)
           IN  Refund(h, in, Output(chain), y, s.bal)[Router] = bal[Router]
<1> DEFINE req == Required(chain, in, y)
           s == StrictHops(chain, in, y, req, start)
           out == Output(chain)
           new == Refund(h, in, out, y, s.bal)
<1>1. res \in Reserves(Nat) /\ bal \in Balances /\ Router \in SwapHolders
  BY HolderFacts DEF SwapsInv
<1>2. out \in Tokens /\ 1 \in 1..Len(chain)
  BY ChainFacts
<1>3. req[1] \in Nat
  BY <1>1, <1>2, RequiredFacts
<1>4. /\ s \in StrictStates
      /\ \A t \in Tokens : s.bal[Router][t]
                             = start[Router][t] - Of(in, req[1], t) + Of(out, y, t)
  BY <1>1, StrictHopsFacts, Zenon
<1> HIDE DEF req, s, out
<1>5. s.bal \in Balances
  BY <1>4 DEF StrictStates
<1>6. PICK back \in Nat : Given(s.bal, h, in, out, y, new, back)
  <2> DEFINE b == s.bal
  <2>1. y \in Int /\ b \in Balances
    BY <1>5
  <2> HIDE DEF b
  <2>2. \E back \in Nat : Given(b, h, in, out, y, Refund(h, in, out, y, b), back)
    BY <1>1, <1>2, <2>1, RefundFacts
  <2> QED
    BY <2>2 DEF b
<1> HIDE DEF new
<1>7. new[Router] \in [Tokens -> Int] /\ bal[Router] \in [Tokens -> Int]
  BY <1>1, <1>6 DEF Balances, Given
<1>8. \A t \in Tokens : /\ Of(out, y, t) \in Int /\ Of(in, req[1], t) \in Int
                        /\ Of(in, maxIn, t) \in Int /\ bal[Router][t] \in Int
  BY <1>3, <1>7, OfType
<1>9. Surplus(s.bal, in, out, y) = maxIn - req[1]
  <2>1. Of(in, maxIn, in) = maxIn /\ Of(in, req[1], in) = req[1]
    BY DEF Of
  <2>2. s.bal[Router][in] = bal[Router][in] + maxIn - req[1] + Of(out, y, in)
    BY <1>3, <1>4, <1>8, <2>1
  <2> QED
    BY <1>3, <1>8, <2>2 DEF Surplus
<1>10. back = maxIn - req[1]
  BY <1>3, <1>6, <1>9 DEF req, Given
<1>11. ASSUME NEW t \in Tokens PROVE new[Router][t] = bal[Router][t]
  <2>1. Of(in, back, t) = Of(in, maxIn, t) - Of(in, req[1], t)
    BY <1>3, <1>10 DEF Of
  <2>2. s.bal[Router][t] = bal[Router][t] + Of(in, maxIn, t) - Of(in, req[1], t) + Of(out, y, t)
    <3>1. start[Router][t] = bal[Router][t] + Of(in, maxIn, t)
      OBVIOUS
    <3>2. s.bal[Router][t] = start[Router][t] - Of(in, req[1], t) + Of(out, y, t)
      BY <1>4
    <3> QED
      BY <1>8, <3>1, <3>2
  <2>3. new[Router][t] = s.bal[Router][t] - Of(out, y, t) - Of(in, back, t)
    BY <1>6 DEF Given
  <2> QED
    BY <1>8, <2>1, <2>2, <2>3
<1>12. new[Router] = bal[Router]
  BY <1>7, <1>11, SameRow
<1> QED
  BY <1>12, Zenon DEF new, s, req, out

LEMMA SwapChainedStrictReceiveKeeps ==
    ASSUME SwapsInv, NEW u \in Users, NEW in \in Tokens, NEW chain \in Chains(in),
           NEW y \in Nat, NEW maxIn \in Nat,
           SwapChainedStrictReceive(u, chain, in, y, maxIn), due' = due
    PROVE  SwapsInv' /\ (~MayRevisit => bal'[Router] = bal[Router])
<1> DEFINE start == Move(bal, u, Router, in, maxIn)
           req == Required(chain, in, y)
           s == StrictHops(chain, in, y, req, start)
           out == Output(chain)
<1>1. res \in Reserves(Nat) /\ bal \in Balances /\ due \in [Tokens -> Nat] /\ bal[Collector] = due
  BY DEF SwapsInv, CollectorHoldsFees
<1>2. /\ u \in SwapHolders /\ Router \in SwapHolders /\ Collector \in SwapHolders \ {u, Router}
      /\ u # Router
  BY HolderFacts
<1>3. out \in Tokens
  BY ChainFacts
<1>4. /\ start \in Balances /\ start[Collector] = bal[Collector]
      /\ \A t \in Tokens : start[Router][t] = bal[Router][t] + Of(in, maxIn, t)
  BY <1>1, <1>2, MoveFacts
<1>5. s.ok /\ res' = s.res /\ bal' = Refund(u, in, out, y, s.bal) /\ req[1] <= maxIn
  BY DEF SwapChainedStrictReceive
<1> HIDE DEF start
<1>6. s \in StrictStates /\ \A h \in SwapHolders \ {Router} : s.bal[h] = start[h]
  BY <1>1, <1>4, StrictHopsFacts, Zenon
<1>7. ~MayRevisit => bal'[Router] = bal[Router]
  BY <1>2, <1>4, <1>5, StrictSettles
<1> HIDE DEF s, out, req
<1>8. s.res \in Reserves(Nat) /\ s.bal \in Balances
  BY <1>5, <1>6 DEF StrictStates
<1>9. bal' \in Balances /\ bal'[Collector] = s.bal[Collector]
  <2> DEFINE b == s.bal
  <2>1. y \in Int /\ b \in Balances
    BY <1>8
  <2> HIDE DEF b
  <2>2. /\ Refund(u, in, out, y, b) \in Balances
        /\ \A g \in SwapHolders \ {u, Router} : Refund(u, in, out, y, b)[g] = b[g]
    <3>1. \E back \in Nat : Given(b, u, in, out, y, Refund(u, in, out, y, b), back)
      BY <1>1, <1>2, <1>3, <2>1, RefundFacts
    <3> QED
      BY <3>1 DEF Given
  <2> QED
    BY <1>2, <1>5, <2>2 DEF b
<1>10. bal'[Collector] = due'
  BY <1>1, <1>2, <1>4, <1>6, <1>9
<1> QED
  BY <1>1, <1>5, <1>7, <1>8, <1>9, <1>10 DEF SwapsInv, CollectorHoldsFees


\* A fee that is added to the row of the Collector is added to what is due.
LEMMA FeeIsDue ==
    ASSUME SwapsInv, bal' \in Balances, NEW out \in Tokens, NEW fee \in Nat,
           due' = [due EXCEPT ![out] = @ + fee],
           \A t \in Tokens : bal'[Collector][t] = bal[Collector][t] + Of(out, fee, t)
    PROVE  due' \in [Tokens -> Nat] /\ CollectorHoldsFees'
<1>1. due \in [Tokens -> Nat] /\ bal[Collector] = due
  BY DEF SwapsInv, CollectorHoldsFees
<1>2. due' \in [Tokens -> Nat] /\ \A t \in Tokens : due'[t] = due[t] + Of(out, fee, t)
  BY <1>1 DEF Of
<1>3. bal'[Collector] \in [Tokens -> Int] /\ due' \in [Tokens -> Int]
  BY <1>2, HolderFacts DEF Balances
<1>4. \A t \in Tokens : bal'[Collector][t] = due'[t]
  BY <1>1, <1>2
<1>5. bal'[Collector] = due'
  BY <1>3, <1>4, SameRow
<1> QED
  BY <1>2, <1>5 DEF CollectorHoldsFees

LEMMA ChargedType ==
    ASSUME NEW n \in Nat, NEW f \in Nat, ProviderDenominator > 0
    PROVE  Charged(n, f) \in Nat
<1>1. ProviderDenominator \in Nat \ {0} /\ n * f \in Nat
  BY MulNat, ProviderSwapFeeAssumption
<1> QED
  BY <1>1, CeilFacts DEF Charged, CeilDiv

\* What is bought is no less than what the user asked for.
LEMMA GrossType ==
    ASSUME NEW n \in Nat, NEW f \in Nat, f < ProviderDenominator
    PROVE  GrossOut(n, f) \in Nat /\ GrossOut(n, f) - n \in Nat
<1> DEFINE d == ProviderDenominator
           gross == GrossOut(n, f)
<1>1. d \in Nat /\ d - f \in Nat \ {0} /\ d >= d - f
  BY ProviderSwapFeeAssumption
<1>2. n * d \in Nat
  BY <1>1, MulNat
<1>3. gross = CeilDiv(n * d, d - f)
  BY DEF GrossOut
<1> HIDE DEF d, gross
<1>4. gross \in Nat /\ gross * (d - f) >= n * d
  BY <1>1, <1>2, <1>3, CeilFacts DEF CeilDiv
<1>5. n * d >= n * (d - f)
  BY <1>1, MulMono
<1>6. (d - f) * n <= (d - f) * gross
  BY <1>1, <1>2, <1>4, <1>5
<1>7. n <= gross
  BY <1>1, <1>4, <1>6, MulCancel
<1> QED
  BY <1>4, <1>7 DEF gross

LEMMA ProviderSwapChainedKeeps ==
    ASSUME SwapsInv, NEW u \in Users, NEW in \in Tokens, NEW chain \in Chains(in),
           NEW amount \in Nat, NEW outMin, NEW f \in Nat,
           ProviderSwapChained(u, chain, in, amount, outMin, f)
    PROVE  SwapsInv' /\ bal'[Router] = bal[Router]
<1> DEFINE start == PaidIn(u, in, amount)
           s == SwapHops(chain, in, amount, start)
           out == Output(chain)
           b == s.bal
           n == s.n
           fee == Charged(n, f)
           b1 == Move(b, Router, Collector, out, n)
<1>1. res \in Reserves(Nat) /\ bal \in Balances
  BY DEF SwapsInv
<1>2. /\ u \in SwapHolders /\ Router \in SwapHolders /\ Collector \in SwapHolders
      /\ u # Router /\ u # Collector /\ Collector # Router
  BY HolderFacts
<1>3. out \in Tokens
  BY ChainFacts
<1>4. /\ start \in Balances /\ start[Collector] = bal[Collector]
      /\ \A t \in Tokens : start[Router][t] = bal[Router][t] + Of(in, amount, t)
  BY <1>1, PaidInFacts
<1>5. /\ ProviderDenominator > 0 /\ res' = s.res /\ bal' = Move(b1, Collector, u, out, n - fee)
      /\ due' = [due EXCEPT ![out] = @ + fee]
  BY DEF ProviderSwapChained
<1> HIDE DEF start, out
<1>6. /\ s \in SwapStates
      /\ \A h \in SwapHolders \ {Router} : b[h] = start[h]
      /\ \A t \in Tokens : b[Router][t] = start[Router][t] - Of(in, amount, t) + Of(out, n, t)
  BY <1>1, <1>4, SwapHopsFacts, Zenon DEF out
<1> HIDE DEF s
<1>7. s.res \in Reserves(Nat) /\ b \in Balances /\ n \in Nat
  BY <1>6 DEF SwapStates
<1>8. fee \in Nat
  BY <1>5, <1>7, ChargedType
<1> HIDE DEF b, n, fee
<1>9. /\ b1 \in Balances
      /\ \A t \in Tokens : /\ b1[Router][t] = b[Router][t] - Of(out, n, t)
                           /\ b1[Collector][t] = b[Collector][t] + Of(out, n, t)
  BY <1>2, <1>3, <1>7, MoveFacts
<1> HIDE DEF b1
<1>10. n - fee \in Int
  BY <1>7, <1>8
<1>11. /\ bal' \in Balances /\ bal'[Router] = b1[Router]
       /\ \A t \in Tokens : bal'[Collector][t] = b1[Collector][t] - Of(out, n - fee, t)
  <2> DEFINE m == n - fee
  <2>1. m \in Int /\ bal' = Move(b1, Collector, u, out, m)
    BY <1>5, <1>10
  <2> HIDE DEF m
  <2>2. /\ Move(b1, Collector, u, out, m) \in Balances
        /\ Move(b1, Collector, u, out, m)[Router] = b1[Router]
        /\ \A t \in Tokens : Move(b1, Collector, u, out, m)[Collector][t]
                               = b1[Collector][t] - Of(out, m, t)
    BY <1>2, <1>3, <1>9, <2>1, MoveFacts
  <2> QED
    BY <2>1, <2>2 DEF m
<1>12. \A h \in {Router, Collector} : /\ bal[h] \in [Tokens -> Int] /\ bal'[h] \in [Tokens -> Int]
  BY <1>1, <1>2, <1>11 DEF Balances
<1>13. bal'[Router] = bal[Router]
  <2>1. ASSUME NEW t \in Tokens PROVE bal'[Router][t] = bal[Router][t]
    <3>1. Of(in, amount, t) \in Int /\ Of(out, n, t) \in Int /\ bal[Router][t] \in Int
      BY <1>7, <1>12, OfType
    <3> QED
      BY <1>4, <1>6, <1>9, <1>11, <3>1
  <2> QED
    BY <1>12, <2>1, SameRow
<1>14. ASSUME NEW t \in Tokens
       PROVE  bal'[Collector][t] = bal[Collector][t] + Of(out, fee, t)
  <2>1. bal[Collector][t] \in Int
    BY <1>12
  <2>2. b[Collector] = bal[Collector]
    BY <1>2, <1>4, <1>6
  <2>3. Of(out, n, t) - Of(out, n - fee, t) = Of(out, fee, t) /\ Of(out, n, t) \in Int
        /\ Of(out, n - fee, t) \in Int
    BY <1>7, <1>8 DEF Of
  <2> QED
    BY <1>9, <1>11, <2>1, <2>2, <2>3
<1>15. due' \in [Tokens -> Nat] /\ CollectorHoldsFees'
  BY <1>3, <1>5, <1>8, <1>11, <1>14, FeeIsDue
<1> QED
  BY <1>5, <1>7, <1>11, <1>13, <1>15 DEF SwapsInv

LEMMA ProviderStrictKeeps ==
    ASSUME SwapsInv, NEW u \in Users, NEW in \in Tokens, NEW chain \in Chains(in),
           NEW y \in Nat, NEW maxIn \in Nat, NEW f \in Nat,
           ProviderSwapChainedStrictReceive(u, chain, in, y, maxIn, f)
    PROVE  SwapsInv' /\ (~MayRevisit => bal'[Router] = bal[Router])
<1> DEFINE start == PaidIn(u, in, maxIn)
           gross == GrossOut(y, f)
           req == Required(chain, in, gross)
           s == StrictHops(chain, in, gross, req, start)
           out == Output(chain)
           fee == gross - y
           b == s.bal
           b1 == Refund(Collector, in, out, gross, b)
           paid == Move(b1, Collector, u, out, y)
           refund == paid[Collector][in] - bal[Collector][in] - FeeInDelta(in, out, fee)
<1>1. res \in Reserves(Nat) /\ bal \in Balances
  BY DEF SwapsInv
<1>2. /\ u \in SwapHolders /\ Router \in SwapHolders /\ Collector \in SwapHolders
      /\ u # Router /\ u # Collector /\ Collector # Router
  BY HolderFacts
<1>3. out \in Tokens
  BY ChainFacts
<1>4. /\ start \in Balances /\ start[Collector] = bal[Collector]
      /\ \A t \in Tokens : start[Router][t] = bal[Router][t] + Of(in, maxIn, t)
  BY <1>1, PaidInFacts
<1>5. /\ f < ProviderDenominator /\ req[1] <= maxIn
      /\ s.ok /\ res' = s.res
      /\ bal' = IF refund > 0 THEN Move(paid, Collector, u, in, refund) ELSE paid
      /\ due' = [due EXCEPT ![out] = @ + fee]
  BY DEF ProviderSwapChainedStrictReceive
<1>6. gross \in Nat /\ fee \in Nat
  BY <1>5, GrossType
<1> HIDE DEF start, gross
<1>7. s \in StrictStates /\ \A h \in SwapHolders \ {Router} : b[h] = start[h]
  BY <1>1, <1>4, <1>6, StrictHopsFacts, Zenon
<1>8. ~MayRevisit => b1[Router] = bal[Router]
  BY <1>2, <1>4, <1>5, <1>6, StrictSettles
<1> HIDE DEF s, out, req
<1>9. s.res \in Reserves(Nat) /\ b \in Balances
  BY <1>5, <1>7 DEF StrictStates
<1> HIDE DEF b
<1>10. PICK back \in Nat : Given(b, Collector, in, out, gross, b1, back)
  <2>1. gross \in Int
    BY <1>6
  <2> QED
    BY <1>1, <1>2, <1>3, <1>9, <2>1, RefundFacts
<1> HIDE DEF b1
<1>11. /\ b1 \in Balances
       /\ \A t \in Tokens : b1[Collector][t] = b[Collector][t] + Of(out, gross, t) + Of(in, back, t)
  BY <1>10 DEF Given
<1>12. /\ paid \in Balances /\ paid[Router] = b1[Router]
       /\ \A t \in Tokens : paid[Collector][t] = b1[Collector][t] - Of(out, y, t)
  <2>1. y \in Int
    OBVIOUS
  <2> QED
    BY <1>2, <1>3, <1>11, <2>1, MoveFacts
<1> HIDE DEF paid
<1>13. b[Collector] = bal[Collector] /\ bal[Collector] \in [Tokens -> Int]
  BY <1>1, <1>2, <1>4, <1>7 DEF Balances
<1>14. \A t \in Tokens : /\ Of(out, gross, t) - Of(out, y, t) = Of(out, fee, t)
                         /\ Of(out, gross, t) \in Int /\ Of(out, y, t) \in Int
                         /\ Of(in, back, t) \in Int /\ bal[Collector][t] \in Int
  BY <1>6, <1>13 DEF Of
<1>15. \A t \in Tokens :
         paid[Collector][t] = bal[Collector][t] + Of(out, fee, t) + Of(in, back, t)
  <2> SUFFICES ASSUME NEW t \in Tokens
               PROVE  paid[Collector][t] = bal[Collector][t] + Of(out, fee, t) + Of(in, back, t)
    OBVIOUS
  <2>1. paid[Collector][t] = b1[Collector][t] - Of(out, y, t)
    BY <1>12
  <2>2. b1[Collector][t] = bal[Collector][t] + Of(out, gross, t) + Of(in, back, t)
    BY <1>11, <1>13
  <2> HIDE DEF fee
  <2> QED
    BY <1>14, <2>1, <2>2
<1>16. refund = back
  <2>1. Of(out, fee, in) = FeeInDelta(in, out, fee) /\ Of(in, back, in) = back
    BY DEF Of, FeeInDelta
  <2>2. FeeInDelta(in, out, fee) \in Int
    BY <1>6 DEF FeeInDelta
  <2> HIDE DEF fee
  <2> QED
    BY <1>14, <1>15, <2>1, <2>2
<1> HIDE DEF refund, fee
<1>17. /\ bal' \in Balances /\ bal'[Router] = b1[Router]
       /\ \A t \in Tokens : bal'[Collector][t] = bal[Collector][t] + Of(out, fee, t)
  <2>1. CASE refund > 0
    <3>1. /\ bal' \in Balances /\ bal'[Router] = paid[Router]
          /\ \A t \in Tokens : bal'[Collector][t] = paid[Collector][t] - Of(in, back, t)
      <4>1. bal' = Move(paid, Collector, u, in, back) /\ back \in Int /\ paid \in Balances
        BY <1>5, <1>12, <1>16, <2>1
      <4>2. /\ Move(paid, Collector, u, in, back) \in Balances
            /\ Move(paid, Collector, u, in, back)[Router] = paid[Router]
            /\ \A t \in Tokens : Move(paid, Collector, u, in, back)[Collector][t]
                                   = paid[Collector][t] - Of(in, back, t)
        BY <1>2, <4>1, MoveFacts
      <4> QED
        BY <4>1, <4>2
    <3>2. \A t \in Tokens : Of(out, fee, t) \in Int
      BY <1>6, OfType
    <3> QED
      BY <1>12, <1>14, <1>15, <3>1, <3>2
  <2>2. CASE ~(refund > 0)
    <3>1. bal' = paid /\ \A t \in Tokens : Of(in, back, t) = 0
      BY <1>5, <1>16, <2>2 DEF Of
    <3>2. \A t \in Tokens : Of(out, fee, t) \in Int
      BY <1>6, OfType
    <3> QED
      BY <1>12, <1>14, <1>15, <3>1, <3>2
  <2> QED
    BY <2>1, <2>2
<1>18. due' \in [Tokens -> Nat] /\ CollectorHoldsFees'
  BY <1>3, <1>5, <1>6, <1>17, FeeIsDue
<1> QED
  BY <1>5, <1>8, <1>9, <1>17, <1>18 DEF SwapsInv


LEMMA ClaimFeesKeeps ==
    ASSUME SwapsInv, NEW t \in Tokens, ClaimFees(t)
    PROVE  SwapsInv' /\ bal'[Router] = bal[Router]
<1> DEFINE n == bal[Collector][t]
<1>1. /\ res \in Reserves(Nat) /\ bal \in Balances /\ due \in [Tokens -> Nat]
      /\ bal[Collector] = due
  BY DEF SwapsInv, CollectorHoldsFees
<1>2. /\ Collector \in SwapHolders /\ Destination \in SwapHolders /\ Router \in SwapHolders
      /\ Collector # Destination /\ Router # Collector /\ Router # Destination
  BY HolderFacts
<1>3. n \in Nat /\ n = due[t]
  BY <1>1
<1>4. bal' = Move(bal, Collector, Destination, t, n) /\ due' = [due EXCEPT ![t] = 0] /\ res' = res
  BY DEF ClaimFees
<1> HIDE DEF n
<1>5. /\ bal' \in Balances /\ bal'[Router] = bal[Router]
      /\ \A x \in Tokens : bal'[Collector][x] = bal[Collector][x] - Of(t, n, x)
  BY <1>1, <1>2, <1>3, <1>4, MoveFacts
<1>6. due' \in [Tokens -> Nat] /\ \A x \in Tokens : due'[x] = due[x] - Of(t, n, x)
  BY <1>1, <1>3, <1>4 DEF Of
<1>7. bal'[Collector] \in [Tokens -> Int] /\ due' \in [Tokens -> Int]
  BY <1>2, <1>5, <1>6 DEF Balances
<1>8. \A x \in Tokens : bal'[Collector][x] = due'[x]
  BY <1>1, <1>5, <1>6
<1>9. bal'[Collector] = due'
  BY <1>7, <1>8, SameRow
<1> QED
  BY <1>1, <1>4, <1>5, <1>6, <1>9 DEF SwapsInv, CollectorHoldsFees

LEMMA ClaimFeesAndSwapKeeps ==
    ASSUME SwapsInv, NEW t \in Tokens, NEW chain \in Chains(t), NEW outMin,
           ClaimFeesAndSwap(chain, t, outMin)
    PROVE  SwapsInv' /\ bal'[Router] = bal[Router]
<1> DEFINE n == bal[Collector][t]
           start == Move(bal, Collector, Router, t, n)
           s == SwapHops(chain, t, n, start)
           out == Output(chain)
           b == s.bal
           m == s.n
<1>1. /\ res \in Reserves(Nat) /\ bal \in Balances /\ due \in [Tokens -> Nat]
      /\ bal[Collector] = due
  BY DEF SwapsInv, CollectorHoldsFees
<1>2. /\ Collector \in SwapHolders /\ Destination \in SwapHolders /\ Router \in SwapHolders
      /\ Collector # Destination /\ Router # Collector /\ Router # Destination
  BY HolderFacts
<1>3. n \in Nat /\ n = due[t] /\ out \in Tokens
  BY <1>1, ChainFacts
<1>4. bal' = Move(b, Router, Destination, out, m) /\ due' = [due EXCEPT ![t] = 0] /\ res' = s.res
  BY DEF ClaimFeesAndSwap
<1> HIDE DEF n
<1>5. /\ start \in Balances
      /\ \A x \in Tokens : /\ start[Collector][x] = bal[Collector][x] - Of(t, n, x)
                           /\ start[Router][x] = bal[Router][x] + Of(t, n, x)
  <2>1. n \in Int
    BY <1>3
  <2> HIDE DEF s, out, b, m
  <2> QED
    BY <1>1, <1>2, <2>1, MoveFacts
<1> HIDE DEF start, out
<1>6. /\ s \in SwapStates
      /\ \A h \in SwapHolders \ {Router} : b[h] = start[h]
      /\ \A x \in Tokens : b[Router][x] = start[Router][x] - Of(t, n, x) + Of(out, m, x)
  BY <1>1, <1>3, <1>5, SwapHopsFacts, Zenon DEF out
<1> HIDE DEF s
<1>7. s.res \in Reserves(Nat) /\ b \in Balances /\ m \in Nat /\ m \in Int
  BY <1>6 DEF SwapStates
<1> HIDE DEF b, m
<1>8. /\ bal' \in Balances /\ bal'[Collector] = b[Collector]
      /\ \A x \in Tokens : bal'[Router][x] = b[Router][x] - Of(out, m, x)
  BY <1>2, <1>3, <1>4, <1>7, MoveFacts
<1>9. \A h \in {Router, Collector} : /\ bal[h] \in [Tokens -> Int] /\ bal'[h] \in [Tokens -> Int]
  BY <1>1, <1>2, <1>8 DEF Balances
<1>10. bal'[Router] = bal[Router]
  <2>1. ASSUME NEW x \in Tokens PROVE bal'[Router][x] = bal[Router][x]
    <3>1. Of(t, n, x) \in Int /\ Of(out, m, x) \in Int /\ bal[Router][x] \in Int
      BY <1>3, <1>7, <1>9, OfType
    <3> QED
      BY <1>5, <1>6, <1>8, <3>1
  <2> QED
    BY <1>9, <2>1, SameRow
<1>11. due' \in [Tokens -> Nat] /\ \A x \in Tokens : due'[x] = due[x] - Of(t, n, x)
  BY <1>1, <1>3, <1>4 DEF Of
<1>12. \A x \in Tokens : bal'[Collector][x] = due'[x]
  BY <1>1, <1>2, <1>5, <1>6, <1>8, <1>11
<1>13. bal'[Collector] = due'
  <2>1. due' \in [Tokens -> Int]
    BY <1>11
  <2> QED
    BY <1>9, <1>12, <2>1, SameRow
<1> QED
  BY <1>4, <1>7, <1>8, <1>10, <1>11, <1>13 DEF SwapsInv, CollectorHoldsFees

LEMMA SendToRouterKeeps ==
    ASSUME SwapsInv, NEW u \in Users, NEW t \in Tokens, NEW n \in Nat,
           SendToRouter(u, t, n), due' = due
    PROVE  SwapsInv'
<1>1. res \in Reserves(Nat) /\ bal \in Balances /\ due \in [Tokens -> Nat] /\ bal[Collector] = due
  BY DEF SwapsInv, CollectorHoldsFees
<1>2. /\ u \in SwapHolders /\ Router \in SwapHolders /\ Collector \in SwapHolders \ {u, Router}
      /\ u # Router
  BY HolderFacts
<1>3. bal' = Move(bal, u, Router, t, n) /\ res' = res
  BY DEF SendToRouter
<1>4. bal' \in Balances /\ bal'[Collector] = bal[Collector]
  BY <1>1, <1>2, <1>3, MoveFacts
<1> QED
  BY <1>1, <1>3, <1>4 DEF SwapsInv, CollectorHoldsFees

LEMMA SendToCollectorKeeps ==
    ASSUME SwapsInv, NEW u \in Users, NEW t \in Tokens, NEW n \in Nat, SendToCollector(u, t, n)
    PROVE  SwapsInv' /\ bal'[Router] = bal[Router]
<1>1. res \in Reserves(Nat) /\ bal \in Balances
  BY DEF SwapsInv
<1>2. /\ u \in SwapHolders /\ Collector \in SwapHolders /\ Router \in SwapHolders \ {u, Collector}
      /\ u # Collector
  BY HolderFacts
<1>3. bal' = Move(bal, u, Collector, t, n) /\ due' = [due EXCEPT ![t] = @ + n] /\ res' = res
  BY DEF SendToCollector
<1>4. /\ bal' \in Balances /\ bal'[Router] = bal[Router]
      /\ \A x \in Tokens : bal'[Collector][x] = bal[Collector][x] + Of(t, n, x)
  BY <1>1, <1>2, <1>3, MoveFacts
<1>5. due' \in [Tokens -> Nat] /\ CollectorHoldsFees'
  BY <1>3, <1>4, FeeIsDue
<1> QED
  BY <1>1, <1>3, <1>4, <1>5 DEF SwapsInv

LEMMA ChangeReservesKeeps ==
    ASSUME SwapsInv, NEW p \in Pools, NEW level \in Levels, ChangeReserves(p, level), due' = due
    PROVE  SwapsInv' /\ bal' = bal
<1>1. res \in Reserves(Nat) /\ level \in Nat
  BY RouterSwapsAssumption DEF SwapsInv
<1>2. res' = [res EXCEPT ![p] = [t \in TokensOf[p] |-> level]] /\ bal' = bal
  BY DEF ChangeReserves
<1>3. [t \in TokensOf[p] |-> level] \in [TokensOf[p] -> Nat]
  BY <1>1
<1>4. res' \in Reserves(Nat)
  BY <1>1, <1>2, <1>3 DEF Reserves
<1> QED
  BY <1>2, <1>4 DEF SwapsInv, CollectorHoldsFees

-----------------------------------------------------------------------------
(* The theorems                                                             *)

LEMMA SwapsStart ==
    ASSUME ProviderInit
    PROVE  SwapsInv
<1>1. res \in Reserves(Nat)
  <2>1. res = [p \in Pools |-> [t \in TokensOf[p] |-> 0]]
    BY DEF ProviderInit, SwapsInit
  <2> QED
    BY <2>1 DEF Reserves
<1>2. bal \in Balances /\ \A t \in Tokens : bal[Collector][t] = 0
  <2>1. bal = [h \in SwapHolders |-> [t \in Tokens |-> IF h \in Users THEN InitialBalance ELSE 0]]
    BY DEF ProviderInit, SwapsInit, SwapHolders
  <2>2. InitialBalance \in Nat
    BY RouterSwapsAssumption
  <2>3. Collector \in SwapHolders /\ Collector \notin Users
    BY HolderFacts
  <2> QED
    BY <2>1, <2>2, <2>3 DEF Balances
<1>3. due \in [Tokens -> Nat] /\ \A t \in Tokens : due[t] = 0
  BY DEF ProviderInit
<1>4. bal[Collector] = due
  <2>1. bal[Collector] \in [Tokens -> Int] /\ due \in [Tokens -> Int]
    BY <1>2, <1>3, HolderFacts DEF Balances
  <2> QED
    BY <1>2, <1>3, <2>1, SameRow
<1> QED
  BY <1>1, <1>2, <1>3, <1>4 DEF SwapsInv, CollectorHoldsFees

\* Each step keeps the invariant, and only a gift changes what the router has.
LEMMA SwapsStep ==
    ASSUME SwapsInv, [ProviderNext]_<<swapVars, due>>
    PROVE  SwapsInv' /\ (~MayRevisit => bal'[Router] = bal[Router] \/ GiftStep)
<1>1. /\ InAmounts \subseteq Nat /\ OutAmounts \subseteq Nat /\ GiftAmounts \subseteq Nat
      /\ FeeFractions \subseteq Nat
  BY RouterSwapsAssumption, ProviderSwapFeeAssumption
<1>2. ASSUME SwapStep, due' = due
      PROVE  SwapsInv' /\ (~MayRevisit => bal'[Router] = bal[Router])
  <2>1. PICK u \in Users, in \in Tokens : \E chain \in Chains(in) :
          \/ \E n \in InAmounts : SwapChained(u, chain, in, n, 0)
          \/ \E n \in OutAmounts, maxIn \in InAmounts :
                SwapChainedStrictReceive(u, chain, in, n, maxIn)
    BY <1>2 DEF SwapStep
  <2>2. PICK chain \in Chains(in) :
          \/ \E n \in InAmounts : SwapChained(u, chain, in, n, 0)
          \/ \E n \in OutAmounts, maxIn \in InAmounts :
                SwapChainedStrictReceive(u, chain, in, n, maxIn)
    BY <2>1
  <2>3. CASE \E n \in InAmounts : SwapChained(u, chain, in, n, 0)
    BY <1>1, <1>2, <2>3, SwapChainedKeeps
  <2>4. CASE \E n \in OutAmounts, maxIn \in InAmounts :
               SwapChainedStrictReceive(u, chain, in, n, maxIn)
    BY <1>1, <1>2, <2>4, SwapChainedStrictReceiveKeeps
  <2> QED
    BY <2>2, <2>3, <2>4
<1>3. ASSUME GiftStep, due' = due PROVE SwapsInv'
  <2>1. PICK u \in Users, t \in Tokens, n \in GiftAmounts : SendToRouter(u, t, n)
    BY <1>3 DEF GiftStep
  <2> QED
    BY <1>1, <1>3, <2>1, SendToRouterKeeps
<1>4. ASSUME NEW p \in Pools, NEW level \in Levels, ChangeReserves(p, level), due' = due
      PROVE  SwapsInv' /\ bal' = bal
  BY <1>4, ChangeReservesKeeps
<1>5. ASSUME ProviderStep PROVE SwapsInv' /\ (~MayRevisit => bal'[Router] = bal[Router])
  <2>1. ASSUME NEW u \in Users, NEW in \in Tokens, NEW f \in FeeFractions,
               NEW chain \in Chains(in), NEW n \in InAmounts,
               ProviderSwapChained(u, chain, in, n, 0, f)
        PROVE  SwapsInv' /\ bal'[Router] = bal[Router]
    <3>1. n \in Nat /\ f \in Nat
      BY <1>1
    <3> QED
      BY <2>1, <3>1, ProviderSwapChainedKeeps
  <2>2. ASSUME NEW u \in Users, NEW in \in Tokens, NEW f \in FeeFractions,
               NEW chain \in Chains(in), NEW n \in OutAmounts, NEW inMax \in InAmounts,
               ProviderSwapChainedStrictReceive(u, chain, in, n, inMax, f)
        PROVE  SwapsInv' /\ (~MayRevisit => bal'[Router] = bal[Router])
    <3>1. n \in Nat /\ f \in Nat /\ inMax \in Nat
      BY <1>1
    <3> QED
      BY <2>2, <3>1, ProviderStrictKeeps
  <2>3. ASSUME NEW t \in Tokens, ClaimFees(t) PROVE SwapsInv' /\ bal'[Router] = bal[Router]
    BY <2>3, ClaimFeesKeeps
  <2>4. ASSUME NEW t \in Tokens, NEW chain \in Chains(t), ClaimFeesAndSwap(chain, t, 0)
        PROVE  SwapsInv' /\ bal'[Router] = bal[Router]
    BY <2>4, ClaimFeesAndSwapKeeps
  <2>5. ASSUME NEW u \in Users, NEW t \in Tokens, NEW n \in GiftAmounts, SendToCollector(u, t, n)
        PROVE  SwapsInv' /\ bal'[Router] = bal[Router]
    <3>1. n \in Nat
      BY <1>1
    <3> QED
      BY <2>5, <3>1, SendToCollectorKeeps
  <2> QED
    BY <1>5, <2>1, <2>2, <2>3, <2>4, <2>5, ZenonT(60) DEF ProviderStep
<1>6. CASE SwapsNext /\ UNCHANGED due
  <2>1. due' = due
    BY <1>6
  <2> QED
    BY <1>2, <1>3, <1>4, <1>6, <2>1, Zenon DEF SwapsNext
<1>7. CASE UNCHANGED <<swapVars, due>>
  BY <1>7 DEF SwapsInv, CollectorHoldsFees, swapVars
<1> QED
  BY <1>5, <1>6, <1>7, Zenon DEF ProviderNext

\* The types of reserves and balances, and the Collector's fees, in every state.
THEOREM SwapsInvariant == ProviderSpec => []SwapsInv
<1>1. ProviderInit => SwapsInv
  BY SwapsStart
<1>2. SwapsInv /\ [ProviderNext]_<<swapVars, due>> => SwapsInv'
  BY SwapsStep
<1> QED
  BY <1>1, <1>2, PTL DEF ProviderSpec

\* The Collector holds its fees, to the unit, and nothing of its users'.
THEOREM FeesAlwaysHeld == ProviderSpec => []CollectorHoldsFees
<1>1. SwapsInv => CollectorHoldsFees
  BY DEF SwapsInv
<1> QED
  BY SwapsInvariant, <1>1, PTL

\* Where no chain visits a pool twice, only gifts change what the router has.
THEOREM RouterIsNeutral ==
    ASSUME ~MayRevisit
    PROVE  ProviderSpec => RouterKeepsNothing
<1>1. SwapsInv /\ [ProviderNext]_<<swapVars, due>>
        => [bal'[Router] = bal[Router] \/ GiftStep]_swapVars
  BY SwapsStep
<1> QED
  BY SwapsInvariant, <1>1, PTL DEF ProviderSpec, RouterKeepsNothing

\* Where no chain visits a pool twice, what the reverse pass asks for is enough.
THEOREM QuoteAlwaysSuffices ==
    ASSUME ~MayRevisit
    PROVE  ProviderSpec => []QuoteSuffices
<1>1. SwapsInv => QuoteSuffices
  <2> SUFFICES ASSUME SwapsInv, NEW in \in Tokens, NEW n \in OutAmounts, NEW chain \in Chains(in),
                      \A k \in DOMAIN chain : Required(chain, in, n)[k] > 0
               PROVE  SwapHops(chain, in, Required(chain, in, n)[1], bal).n >= n
    BY Zenon DEF QuoteSuffices
  <2>1. n \in Nat /\ DOMAIN chain = 1..Len(chain)
    BY RouterSwapsAssumption, ChainFacts
  <2>2. res \in Reserves(Nat) /\ bal \in Balances
    BY DEF SwapsInv
  <2> QED
    BY <2>1, <2>2, QuoteIsEnough
<1> QED
  BY SwapsInvariant, <1>1, PTL

=============================================================================
