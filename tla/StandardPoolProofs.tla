------------------------- MODULE StandardPoolProofs -------------------------
(***************************************************************************)
(* The constant product pool keeps what it owes, for every set of users,   *)
(* every fee and every amount.  First the tokens and the shares: PoolInv   *)
(* leaves the state of the rewards out, as the reward calls move no token  *)
(* but the reward token.  Then the books of the rewards and of the share   *)
(* token (BooksInv): types of the whole state, the working supply as the   *)
(* sum of the working balances, the shares the token has issued, and what  *)
(* the users can claim against what was generated. Last the two promises   *)
(* made over time: a reward once accrued is paid or stays claimable, and a *)
(* pool that holds what it promised goes on holding it. What each operator *)
(* of RewardsManager does to the books is shown in RewardsProofs; here is  *)
(* the order in which the entry points apply them.                         *)
(***************************************************************************)
EXTENDS StandardPool, RewardsProofs

-----------------------------------------------------------------------------
(* The invariant                                                           *)

\* The pool's tokens that are not its reward token: those that no reward call
\* moves.
Plain == PoolTokens \ {RewardToken}

Shaped(b) ==
    /\ b = [h \in Holders |-> b[h]]
    /\ \A h \in Holders : b[h] = [t \in Assets |-> b[h][t]]

PoolTypes ==
    /\ Shaped(bal)
    /\ \A h \in Holders, t \in Plain : bal[h][t] \in Nat
    /\ totalShares \in Nat
    /\ reserve \in [PoolTokens -> Nat]
    /\ fee \in [PoolTokens -> Nat]
    /\ pfFraction \in 0..FeeMultiplier
    /\ plane \in [PoolTokens -> Nat]
    /\ ledger \in Nat

PlainSolvent ==
    \A t \in Plain : reserve[t] + fee[t] <= bal[Pool][t]

\* Solvent and SharesBacked are inductive together: the synchronisation of the
\* reserves needs the one, and a deposit's ratio the other.
PoolInv == PoolTypes /\ PlainSolvent /\ SharesBacked /\ PlaneNeverOverstates

-----------------------------------------------------------------------------
(* The helpers                                                             *)

Put(b, i, t, v) == [b EXCEPT ![i][t] = v]

LEMMA PutFacts ==
    ASSUME NEW b, Shaped(b), NEW i \in Holders, NEW t \in Assets, NEW v
    PROVE  /\ Shaped(Put(b, i, t, v))
           /\ \A h \in Holders : h # i => Put(b, i, t, v)[h] = b[h]
           /\ \A x \in Assets : Put(b, i, t, v)[i][x] = IF x = t THEN v ELSE b[i][x]
<1> DEFINE c == Put(b, i, t, v)
<1>1. c = [h \in Holders |-> IF h = i THEN [b[i] EXCEPT ![t] = v] ELSE b[h]]
  BY DEF Shaped, Put
<1>2. [b[i] EXCEPT ![t] = v] = [x \in Assets |-> IF x = t THEN v ELSE b[i][x]]
  BY DEF Shaped
<1> HIDE DEF c
<1>3. c[i] = [x \in Assets |-> IF x = t THEN v ELSE b[i][x]]
  BY <1>1, <1>2
<1>4. \A h \in Holders : h # i => c[h] = b[h]
  BY <1>1
<1>5. c = [h \in Holders |-> c[h]]
  BY <1>1
<1>6. \A h \in Holders : c[h] = [x \in Assets |-> c[h][x]]
  BY <1>3, <1>4 DEF Shaped
<1> QED
  BY <1>3, <1>4, <1>5, <1>6 DEF Shaped, c

LEMMA MoveFacts ==
    ASSUME NEW b, Shaped(b), NEW from \in Holders, NEW to \in Holders,
           NEW t \in Assets, NEW n
    PROVE  /\ Shaped(Move(b, from, to, t, n))
           /\ \A h \in Holders, x \in Assets \ {t} : Move(b, from, to, t, n)[h][x] = b[h][x]
           /\ from # to =>
                /\ Move(b, from, to, t, n)[from][t] = b[from][t] - n
                /\ Move(b, from, to, t, n)[to][t] = b[to][t] + n
           /\ \A h \in Holders \ {from, to} : Move(b, from, to, t, n)[h] = b[h]
<1> DEFINE c == Put(b, from, t, b[from][t] - n)
           d == Put(c, to, t, c[to][t] + n)
<1>1. Move(b, from, to, t, n) = d
  BY DEF Move, Put
<1>2. /\ Shaped(c)
      /\ \A h \in Holders : h # from => c[h] = b[h]
      /\ \A x \in Assets : c[from][x] = IF x = t THEN b[from][t] - n ELSE b[from][x]
  BY PutFacts
<1> HIDE DEF c
<1>3. /\ Shaped(d)
      /\ \A h \in Holders : h # to => d[h] = c[h]
      /\ \A x \in Assets : d[to][x] = IF x = t THEN c[to][t] + n ELSE c[to][x]
  BY <1>2, PutFacts
<1> HIDE DEF d
<1> QED
  BY <1>1, <1>2, <1>3

\* _sync_reserves never fails in a pool that satisfies the invariant, and what
\* it leaves satisfies it too.
LEMMA SyncedFacts ==
    ASSUME PoolInv
    PROVE  /\ Synced \in [PoolTokens -> Nat]
           /\ \A t \in PoolTokens : reserve[t] <= Synced[t]
           /\ \A t \in Plain : Synced[t] + fee[t] <= bal[Pool][t]
           /\ totalShares = 0 => Synced = Nothing
           /\ totalShares * totalShares <= Synced["A"] * Synced["B"]
           /\ totalShares > 0 => Synced["A"] > 0 /\ Synced["B"] > 0
           /\ reserve["A"] * reserve["B"] <= Synced["A"] * Synced["B"]
<1> USE DEF PoolInv, PoolTypes, PlainSolvent, SharesBacked
<1>1. /\ Synced \in [PoolTokens -> Nat]
      /\ \A t \in PoolTokens : reserve[t] <= Synced[t]
      /\ \A t \in Plain : Synced[t] + fee[t] <= bal[Pool][t]
  BY DEF Synced, MaxOf, Plain, Holders
<1>2. totalShares = 0 => Synced = Nothing
  BY <1>1 DEF Synced, MustSync, Nothing
<1>3. reserve["A"] * reserve["B"] <= Synced["A"] * Synced["B"]
  BY <1>1, MulMono DEF PoolTokens
<1> HIDE DEF PoolInv, PoolTypes
<1>4. /\ totalShares \in Nat
      /\ reserve["A"] \in Nat /\ reserve["B"] \in Nat
      /\ Synced["A"] \in Nat /\ Synced["B"] \in Nat
  BY <1>1 DEF PoolInv, PoolTypes, PoolTokens
<1>5. totalShares * totalShares <= Synced["A"] * Synced["B"]
  BY <1>3, <1>4 DEF PoolInv
<1>6. totalShares > 0 => Synced["A"] > 0 /\ Synced["B"] > 0
  BY <1>4, <1>5
<1> QED
  BY <1>1, <1>2, <1>3, <1>5, <1>6

\* The same amounts of both tokens, as in deposit, withdraw and
\* claim_protocol_fees.
LEMMA SendFacts ==
    ASSUME NEW b, Shaped(b), NEW from \in Holders, NEW to \in Holders, from # to,
           NEW n
    PROVE  /\ Shaped(Send(b, from, to, n))
           /\ \A t \in PoolTokens :
                /\ Send(b, from, to, n)[from][t] = b[from][t] - n[t]
                /\ Send(b, from, to, n)[to][t] = b[to][t] + n[t]
           /\ \A h \in Holders \ {from, to} : Send(b, from, to, n)[h] = b[h]
<1> DEFINE c == Move(b, from, to, "A", n["A"])
           d == Move(c, from, to, "B", n["B"])
<1>1. "A" \in Assets /\ "B" \in Assets
  BY DEF Assets, PoolTokens
<1>2. /\ Shaped(c)
      /\ c[from]["A"] = b[from]["A"] - n["A"] /\ c[from]["B"] = b[from]["B"]
      /\ c[to]["A"] = b[to]["A"] + n["A"] /\ c[to]["B"] = b[to]["B"]
      /\ \A h \in Holders \ {from, to} : c[h] = b[h]
  BY <1>1, MoveFacts
<1> HIDE DEF c
<1>3. /\ Shaped(d)
      /\ d[from]["A"] = c[from]["A"] /\ d[from]["B"] = c[from]["B"] - n["B"]
      /\ d[to]["A"] = c[to]["A"] /\ d[to]["B"] = c[to]["B"] + n["B"]
      /\ \A h \in Holders \ {from, to} : d[h] = c[h]
  BY <1>1, <1>2, MoveFacts
<1> HIDE DEF d
<1> QED
  BY <1>2, <1>3 DEF PoolTokens, d, c, Send

\* One token against the other, as in the swaps.
LEMMA ExchangeFacts ==
    ASSUME NEW b, Shaped(b), NEW u \in Users, NEW in \in PoolTokens, NEW x, NEW y
    PROVE  /\ Shaped(Exchange(b, u, in, x, y))
           /\ Exchange(b, u, in, x, y)[u][in] = b[u][in] - x
           /\ Exchange(b, u, in, x, y)[u][Other(in)] = b[u][Other(in)] + y
           /\ Exchange(b, u, in, x, y)[Pool][in] = b[Pool][in] + x
           /\ Exchange(b, u, in, x, y)[Pool][Other(in)] = b[Pool][Other(in)] - y
           /\ \A h \in Holders \ {u, Pool} : Exchange(b, u, in, x, y)[h] = b[h]
<1> DEFINE c == Move(b, u, Pool, in, x)
           d == Move(c, Pool, u, Other(in), y)
<1>1. in \in Assets /\ Other(in) \in Assets /\ in # Other(in)
  BY DEF Assets, PoolTokens, Other
<1>2. u \in Holders /\ Pool \in Holders /\ u # Pool
  BY PoolAssumption DEF PoolAssumption, Holders
<1>3. /\ Shaped(c)
      /\ c[u][in] = b[u][in] - x /\ c[u][Other(in)] = b[u][Other(in)]
      /\ c[Pool][in] = b[Pool][in] + x /\ c[Pool][Other(in)] = b[Pool][Other(in)]
      /\ \A h \in Holders \ {u, Pool} : c[h] = b[h]
  BY <1>1, <1>2, MoveFacts
<1> HIDE DEF c
<1>4. /\ Shaped(d)
      /\ d[u][in] = c[u][in] /\ d[u][Other(in)] = c[u][Other(in)] + y
      /\ d[Pool][in] = c[Pool][in] /\ d[Pool][Other(in)] = c[Pool][Other(in)] - y
      /\ \A h \in Holders \ {u, Pool} : d[h] = c[h]
  BY <1>1, <1>2, <1>3, MoveFacts
<1> HIDE DEF d
<1> QED
  BY <1>3, <1>4 DEF d, c, Exchange

-----------------------------------------------------------------------------
(* Each kind of step preserves the invariant and the value of a share      *)

ValueKept ==
    totalShares > 0 /\ totalShares' > 0 =>
        reserve["A"] * reserve["B"] * (totalShares' * totalShares')
          <= reserve'["A"] * reserve'["B"] * (totalShares * totalShares)

Kept == PoolInv' /\ ValueKept

\* It is enough to compare with the synchronised reserves.
LEMMA ValueFromSynced ==
    ASSUME PoolInv, totalShares' \in Nat, reserve' \in [PoolTokens -> Nat],
           totalShares > 0 =>
             (Synced["A"] * Synced["B"]) * (totalShares' * totalShares')
               <= (reserve'["A"] * reserve'["B"]) * (totalShares * totalShares)
    PROVE  /\ ValueKept
           /\ totalShares > 0 =>
                totalShares' * totalShares' <= reserve'["A"] * reserve'["B"]
<1>1. SUFFICES ASSUME totalShares > 0
               PROVE  /\ ValueKept
                      /\ totalShares' * totalShares' <= reserve'["A"] * reserve'["B"]
  BY DEF ValueKept
<1> DEFINE p == reserve["A"] * reserve["B"]
           s == Synced["A"] * Synced["B"]
           q == reserve'["A"] * reserve'["B"]
<1>2. /\ p \in Nat /\ s \in Nat /\ q \in Nat /\ p <= s
      /\ totalShares \in Nat /\ totalShares * totalShares <= s
  BY SyncedFacts DEF PoolInv, PoolTypes, PoolTokens
<1>3. s * (totalShares' * totalShares') <= q * (totalShares * totalShares)
  BY <1>1
<1> HIDE DEF p, s, q
<1>4. s # 0
  BY <1>1, <1>2
<1>5. totalShares' * totalShares' <= q
  BY <1>2, <1>3, <1>4, ValueKeepsBacking
<1> DEFINE u == totalShares' * totalShares'
           t == totalShares * totalShares
<1>6. u \in Nat /\ t \in Nat
  BY <1>2, MulNat
<1>9. s * u <= q * t
  BY <1>3
<1> HIDE DEF u, t
<1>7. p * u <= s * u
  BY <1>2, <1>6, MulMono
<1>8. p * u <= q * t
  BY <1>2, <1>6, <1>7, <1>9
<1> QED
  BY <1>5, <1>8 DEF ValueKept, p, q, u, t

\* What deposit takes of each token is a natural number.
LEMMA UsedFacts ==
    ASSUME PoolInv, NEW desired \in [PoolTokens -> Nat]
    PROVE  UsedAmounts(Synced, desired) \in [PoolTokens -> Nat]
<1>1. CASE Synced = Nothing
  BY <1>1 DEF UsedAmounts
<1>2. CASE Synced # Nothing
  <2>1. totalShares > 0
    BY <1>2, SyncedFacts DEF PoolInv, PoolTypes
  <2>2. Synced["A"] \in Nat \ {0} /\ Synced["B"] \in Nat \ {0}
    BY <2>1, SyncedFacts DEF PoolTokens
  <2>3. /\ (desired["B"] * Synced["A"]) \div Synced["B"] \in Nat
        /\ (desired["A"] * Synced["B"]) \div Synced["A"] \in Nat
    BY <2>2, MulNat, DivFacts DEF PoolTokens
  <2> QED
    BY <1>2, <2>3 DEF UsedAmounts, PoolTokens
<1> QED
  BY <1>1, <1>2

LEMMA DepositStep ==
    ASSUME PoolInv, NEW u \in Users, NEW desired \in [PoolTokens -> DepositAmounts],
           NEW m \in MinAmounts, Deposit(u, desired, m)
    PROVE  Kept
<1> USE DEF PoolTokens
<1> DEFINE used == UsedAmounts(Synced, desired)
           new  == [t \in PoolTokens |-> Synced[t] + used[t]]
<1>1. /\ desired \in [PoolTokens -> Nat]
      /\ u \in Holders /\ Pool \in Holders /\ u # Pool
  BY PoolAssumption DEF PoolAssumption, Holders
<1>2. used \in [PoolTokens -> Nat]
  BY <1>1, UsedFacts
<1>3. PICK total \in NewTotals(Synced, new) :
        total - totalShares >= 0 /\ totalShares' = total
  BY DEF Deposit
<1>4. /\ Synced = Nothing => \A t \in PoolTokens : desired[t] > 0
      /\ \A t \in PoolTokens : used[t] <= desired[t] /\ desired[t] <= bal[u][t]
      /\ bal' = Send(bal, u, Pool, used)
      /\ reserve' = new /\ plane' = new
      /\ UNCHANGED <<fee, pfFraction, ledger>>
  BY DEF Deposit, cfgVars, envVars
<1>5. Synced = Nothing => used = desired
  BY DEF UsedAmounts
<1> HIDE DEF used
<1>6. /\ reserve' \in [PoolTokens -> Nat] /\ new \in [PoolTokens -> Nat]
      /\ \A t \in PoolTokens : reserve'[t] = Synced[t] + used[t]
  BY <1>2, <1>4, SyncedFacts
<1>7. ASSUME totalShares = 0
      PROVE  totalShares' \in Nat /\ SharesBacked' /\ ValueKept
  <2>1. Synced["A"] = 0 /\ Synced["B"] = 0
    BY <1>7, SyncedFacts DEF Nothing
  <2>2. total \in FloorRoots(new["A"] * new["B"])
    BY <1>3, <2>1 DEF NewTotals
  <2>3. new["A"] \in Nat \ {0} /\ new["B"] \in Nat \ {0}
    BY <1>1, <1>4, <1>5, <1>7, SyncedFacts
  <2>4. new["A"] * new["B"] \in Nat \ {0}
    BY <2>3
  <2>5. /\ total \in Nat /\ total * total <= new["A"] * new["B"]
        /\ new["A"] * new["B"] < (total + 1) * (total + 1)
    BY <2>2, <2>4 DEF FloorRoots
  <2>6. total # 0
    BY <2>4, <2>5
  <2> QED
    BY <1>3, <1>4, <1>7, <2>5, <2>6 DEF ValueKept, SharesBacked
<1>8. ASSUME totalShares # 0
      PROVE  totalShares' \in Nat /\ SharesBacked' /\ ValueKept
  <2> DEFINE a == Synced["A"]
             b == Synced["B"]
             c == new["A"]
             d == new["B"]
             t == totalShares
  <2>1. /\ a \in Nat \ {0} /\ b \in Nat \ {0} /\ c \in Nat /\ d \in Nat
        /\ t \in Nat \ {0}
    BY <1>6, <1>8, SyncedFacts DEF PoolInv, PoolTypes
  <2>2. total = MinOf((c * t) \div a, (d * t) \div b)
    BY <2>1, <1>3 DEF NewTotals
  <2> HIDE DEF a, b, c, d, t
  <2>3. /\ c * t \in Nat /\ d * t \in Nat
        /\ (c * t) \div a \in Nat /\ ((c * t) \div a) * a <= c * t
        /\ (d * t) \div b \in Nat /\ ((d * t) \div b) * b <= d * t
    BY <2>1, MulNat, DivFacts
  <2>4. /\ total \in Nat
        /\ total <= (c * t) \div a /\ total <= (d * t) \div b
    BY <2>2, <2>3 DEF MinOf
  <2>5. total * a <= c * t /\ total * b <= d * t
    <3>1. total * a <= ((c * t) \div a) * a
      BY <2>1, <2>3, <2>4, MulMono
    <3>2. total * b <= ((d * t) \div b) * b
      BY <2>1, <2>3, <2>4, MulMono
    <3> QED
      BY <2>1, <2>3, <2>4, <3>1, <3>2
  <2>6. (a * b) * (total * total) <= (c * d) * (t * t)
    BY <2>1, <2>4, <2>5, ProportionKeepsValue
  <2>7. /\ ValueKept
        /\ totalShares' * totalShares' <= reserve'["A"] * reserve'["B"]
    BY <1>3, <1>4, <1>6, <2>1, <2>4, <2>6, ValueFromSynced DEF a, b, c, d, t
  <2>8. totalShares' # 0
    BY <1>3, <2>1, <2>4 DEF t
  <2> QED
    BY <1>3, <2>4, <2>7, <2>8 DEF SharesBacked
<1>9. totalShares' \in Nat /\ SharesBacked' /\ ValueKept
  BY <1>7, <1>8
<1>10. /\ Shaped(bal')
       /\ \A t \in PoolTokens : /\ bal'[u][t] = bal[u][t] - used[t]
                                /\ bal'[Pool][t] = bal[Pool][t] + used[t]
       /\ \A h \in Holders \ {u, Pool} : bal'[h] = bal[h]
  BY <1>1, <1>4, SendFacts DEF PoolInv, PoolTypes
<1>11. PoolTypes' /\ PlainSolvent' /\ PlaneNeverOverstates'
  <2>1. \A h \in Holders, t \in Plain : bal'[h][t] \in Nat
    <3> SUFFICES ASSUME NEW h \in Holders, NEW t \in Plain PROVE bal'[h][t] \in Nat
      OBVIOUS
    <3>1. /\ used[t] \in Nat /\ used[t] <= bal[u][t]
          /\ bal[h][t] \in Nat /\ t \in PoolTokens
      BY <1>1, <1>2, <1>4 DEF PoolInv, PoolTypes, Plain
    <3> QED
      BY <1>1, <1>10, <3>1
  <2>2. \A t \in Plain : reserve'[t] + fee'[t] <= bal'[Pool][t]
    <3> SUFFICES ASSUME NEW t \in Plain PROVE reserve'[t] + fee'[t] <= bal'[Pool][t]
      OBVIOUS
    <3>1. /\ used[t] \in Nat /\ Synced[t] \in Nat /\ fee[t] \in Nat
          /\ bal[Pool][t] \in Nat /\ t \in PoolTokens
          /\ Synced[t] + fee[t] <= bal[Pool][t]
      BY <1>1, <1>2, SyncedFacts DEF PoolInv, PoolTypes, Plain
    <3>2. reserve'[t] = Synced[t] + used[t] /\ fee'[t] = fee[t]
      BY <1>4, <1>6, <3>1
    <3> QED
      BY <1>10, <3>1, <3>2
  <2> QED
    BY <1>4, <1>6, <1>9, <1>10, <2>1, <2>2
       DEF PoolInv, PoolTypes, PlainSolvent, PlaneNeverOverstates
<1> QED
  BY <1>9, <1>11 DEF Kept, PoolInv

\* A trade of x for y keeps the invariant if it keeps the product of the
\* reserves when the whole fee is left out of what the pool receives.
LEMMA TradeStep ==
    ASSUME PoolInv, NEW u \in Users, NEW in \in PoolTokens, NEW x \in Nat, NEW y \in Nat,
           NEW totalFee \in 0..x,
           in \in Plain => x <= bal[u][in], Synced[in] > 0, y <= Synced[Other(in)],
           Synced[in] * Synced[Other(in)]
             <= (Synced[in] + (x - totalFee)) * (Synced[Other(in)] - y),
           Trade(u, in, x, y, totalFee)
    PROVE  Kept
<1> DEFINE out  == Other(in)
           part == ProtocolPart(totalFee)
           a == Synced[in]
           b == Synced[out]
           c == reserve'[in]
           d == reserve'[out]
<1>1. /\ out \in PoolTokens /\ in # out /\ PoolTokens = {in, out}
      /\ u \in Holders /\ Pool \in Holders /\ u # Pool
  BY PoolAssumption DEF PoolAssumption, Holders, PoolTokens, Other
<1>2. part \in 0..totalFee
  <2>1. totalFee \in Nat /\ FeeMultiplier \in Nat \ {0} /\ pfFraction \in 0..FeeMultiplier
    BY PoolAssumption DEF PoolAssumption, PoolInv, PoolTypes
  <2> QED
    BY <2>1, PartAtMost DEF ProtocolPart
<1>3. /\ bal' = Exchange(bal, u, in, x, y)
      /\ reserve' = [Synced EXCEPT ![in] = @ + x - part, ![out] = @ - y]
      /\ fee' = [fee EXCEPT ![in] = @ + part]
      /\ plane' = reserve'
      /\ UNCHANGED <<totalShares, pfFraction, ledger>>
  BY DEF Trade, cfgVars, envVars
<1> HIDE DEF part
<1>4. /\ a \in Nat /\ b \in Nat
      /\ reserve' \in [PoolTokens -> Nat]
      /\ c = a + x - part /\ d = b - y
      /\ fee' \in [PoolTokens -> Nat]
      /\ fee'[in] = fee[in] + part /\ fee'[out] = fee[out]
  <2>1. a \in Nat /\ b \in Nat /\ fee \in [PoolTokens -> Nat]
    BY <1>1, SyncedFacts DEF PoolInv, PoolTypes
  <2>2. c = a + x - part /\ d = b - y
    BY <1>1, <1>3, SyncedFacts
  <2>3. c \in Nat /\ d \in Nat
    BY <1>2, <2>1, <2>2
  <2>4. reserve' = [t \in PoolTokens |-> reserve'[t]]
    BY <1>3, SyncedFacts
  <2>5. reserve' \in [PoolTokens -> Nat]
    BY <1>1, <2>3, <2>4
  <2>6. fee' \in [PoolTokens -> Nat] /\ fee'[in] = fee[in] + part /\ fee'[out] = fee[out]
    BY <1>1, <1>2, <1>3, <2>1
  <2> QED
    BY <2>1, <2>2, <2>5, <2>6
<1>5. a * b <= c * d
  <2>1. a + (x - totalFee) \in Nat /\ a + (x - totalFee) <= c
    BY <1>2, <1>4
  <2>2. b - y \in Nat /\ b - y <= d
    BY <1>4
  <2>3. c \in Nat /\ d \in Nat
    BY <1>1, <1>4
  <2>4. (a + (x - totalFee)) * (b - y) <= c * d
    BY <2>1, <2>2, <2>3, MulMono
  <2> QED
    BY <2>1, <2>2, <2>3, <2>4, <1>4, MulNat
<1>6. /\ Synced["A"] * Synced["B"] = a * b
      /\ reserve'["A"] * reserve'["B"] = c * d
  BY <1>1, <1>4 DEF PoolTokens
<1>7. /\ ValueKept
      /\ totalShares > 0 => totalShares' * totalShares' <= reserve'["A"] * reserve'["B"]
  <2> DEFINE tt == totalShares * totalShares
  <2>1. totalShares \in Nat /\ tt \in Nat /\ a * b \in Nat /\ c * d \in Nat
    BY <1>1, <1>4, MulNat DEF PoolInv, PoolTypes
  <2>2. (a * b) * tt <= (c * d) * tt
    BY <2>1, <1>5, MulMono
  <2> QED
    BY <1>3, <1>4, <1>6, <2>1, <2>2, ValueFromSynced
<1>8. totalShares > 0
  BY SyncedFacts DEF PoolInv, PoolTypes, Nothing
<1>9. SharesBacked'
  BY <1>3, <1>7, <1>8 DEF SharesBacked
<1>10. /\ Shaped(bal')
       /\ bal'[u][in] = bal[u][in] - x /\ bal'[u][out] = bal[u][out] + y
       /\ bal'[Pool][in] = bal[Pool][in] + x /\ bal'[Pool][out] = bal[Pool][out] - y
       /\ \A h \in Holders \ {u, Pool} : bal'[h] = bal[h]
  BY <1>3, ExchangeFacts DEF PoolInv, PoolTypes
<1>11. /\ in \in Plain => reserve'[in] + fee'[in] <= bal'[Pool][in]
       /\ out \in Plain => reserve'[out] + fee'[out] <= bal'[Pool][out]
  <2>1. /\ in \in Plain => bal[Pool][in] \in Nat /\ a + fee[in] <= bal[Pool][in]
        /\ out \in Plain => bal[Pool][out] \in Nat /\ b + fee[out] <= bal[Pool][out]
        /\ fee[in] \in Nat /\ fee[out] \in Nat
    BY <1>1, SyncedFacts DEF PoolInv, PoolTypes
  <2> QED
    BY <1>2, <1>4, <1>10, <2>1
<1>12. \A h \in Holders, t \in Plain : bal'[h][t] \in Nat
  <2> SUFFICES ASSUME NEW h \in Holders, NEW t \in Plain PROVE bal'[h][t] \in Nat
    OBVIOUS
  <2>1. /\ bal[h][t] \in Nat /\ bal[u][t] \in Nat /\ bal[Pool][t] \in Nat
        /\ t = in \/ t = out
    BY <1>1 DEF PoolInv, PoolTypes, Plain
  <2>2. CASE h = Pool
    <3>1. reserve'[t] \in Nat /\ fee'[t] \in Nat
      BY <1>1, <1>4, <2>1
    <3>2. bal'[Pool][t] \in Int
      BY <1>10, <2>1
    <3> QED
      BY <1>11, <2>1, <2>2, <3>1, <3>2
  <2>3. CASE h = u
    BY <1>10, <2>1, <2>3
  <2>4. CASE h \notin {u, Pool}
    BY <1>10, <2>1, <2>4
  <2> QED
    BY <2>2, <2>3, <2>4
<1>13. PoolTypes' /\ PlainSolvent' /\ PlaneNeverOverstates'
  BY <1>1, <1>3, <1>4, <1>10, <1>11, <1>12
     DEF PoolInv, PoolTypes, PlainSolvent, PlaneNeverOverstates, Plain
<1> QED
  BY <1>7, <1>9, <1>13 DEF Kept, PoolInv

\* The amount left after the fee.
LEMMA AfterFeeFacts ==
    ASSUME NEW x \in Nat
    PROVE  AfterFee(x) \in 0..x
<1>1. /\ FeeMultiplier \in Nat \ {0}
      /\ FeeMultiplier - FeeFraction \in 0..FeeMultiplier
  BY PoolAssumption DEF PoolAssumption
<1> QED
  BY <1>1, PartAtMost DEF AfterFee

LEMMA SwapStep ==
    ASSUME PoolInv, NEW u \in Users, NEW in \in PoolTokens, NEW x \in SwapAmounts,
           NEW m \in MinAmounts, Swap(u, in, x, m)
    PROVE  Kept
<1> DEFINE a == Synced[in]
           b == Synced[Other(in)]
           y == AmountOut(Synced, in, x)
           totalFee == x - AfterFee(x)
<1>1. x \in Nat /\ Other(in) \in PoolTokens
  BY PoolAssumption DEF PoolAssumption, PoolTokens, Other
<1>2. a \in Nat \ {0} /\ b \in Nat \ {0} /\ x <= bal[u][in]
      /\ Trade(u, in, x, y, totalFee)
  BY <1>1, SyncedFacts DEF Swap
<1>3. AfterFee(x) \in Nat /\ totalFee \in 0..x /\ x - totalFee = AfterFee(x)
  BY <1>1, AfterFeeFacts
<1>4. y = (AfterFee(x) * b) \div (a + AfterFee(x))
  BY DEF AmountOut
<1> HIDE DEF a, b, y, totalFee
<1>5. y \in 0..b /\ a * b <= (a + AfterFee(x)) * (b - y)
  BY <1>2, <1>3, <1>4, AmountOutKeepsProduct
<1> QED
  BY <1>1, <1>2, <1>3, <1>5, TradeStep DEF a, b

LEMMA SwapStrictReceiveStep ==
    ASSUME PoolInv, NEW u \in Users, NEW in \in PoolTokens, NEW y \in SwapAmounts,
           NEW m \in SwapAmounts, SwapStrictReceive(u, in, y, m)
    PROVE  Kept
<1> DEFINE a == Synced[in]
           b == Synced[Other(in)]
           x == AmountIn(Synced, in, y)
           net == InAfterFee(Synced, in, y)
<1>1. y \in Nat /\ m \in Nat /\ Other(in) \in PoolTokens /\ in \in Assets /\ u \in Holders
  BY PoolAssumption DEF PoolAssumption, PoolTokens, Other, Assets, Holders
<1>2. /\ a \in Nat \ {0} /\ b \in Nat \ {0} /\ y < b
      /\ x <= m /\ m <= bal[u][in]
      /\ Trade(u, in, x, y, x - net)
  BY <1>1, SyncedFacts DEF SwapStrictReceive
<1>3. /\ net = CeilDiv(a * y, b - y)
      /\ x = CeilDiv(net * FeeMultiplier, FeeMultiplier - FeeFraction)
  BY DEF AmountIn, InAfterFee
<1> HIDE DEF a, b, x, net
<1>4. net \in Nat /\ net * (b - y) >= a * y
  <2>1. a * y \in Nat /\ b - y \in Nat \ {0}
    BY <1>1, <1>2, MulNat
  <2> QED
    BY <1>3, <2>1, CeilFacts DEF CeilDiv
<1>5. x \in Nat /\ net <= x
  <2> DEFINE f == FeeMultiplier - FeeFraction
  <2>1. FeeMultiplier \in Nat \ {0} /\ f \in Nat \ {0} /\ f <= FeeMultiplier
    BY PoolAssumption DEF PoolAssumption
  <2> HIDE DEF f
  <2>2. x \in Nat /\ x * f >= net * FeeMultiplier
    BY <1>3, <1>4, <2>1, MulNat, CeilFacts DEF CeilDiv, f
  <2>3. net * f <= net * FeeMultiplier
    BY <1>4, <2>1, MulMono
  <2>4. f * net <= f * x
    BY <1>4, <2>1, <2>2, <2>3
  <2> QED
    BY <1>4, <2>1, <2>2, <2>4, MulCancel
<1>6. a * b <= (a + net) * (b - y)
  BY <1>1, <1>2, <1>4, AmountInKeepsProduct
<1>7. x - net \in 0..x /\ x - (x - net) = net
  BY <1>4, <1>5
<1>8. in \in Plain => x <= bal[u][in]
  BY <1>1, <1>2, <1>5 DEF PoolInv, PoolTypes
<1> DEFINE totalFee == x - net
<1>9. Trade(u, in, x, y, totalFee) /\ totalFee \in 0..x
  BY <1>2, <1>7
<1>10. a * b <= (a + (x - totalFee)) * (b - y)
  BY <1>6, <1>7
<1>11. Synced[in] > 0 /\ y <= Synced[Other(in)]
  BY <1>1, <1>2 DEF a, b
<1> HIDE DEF totalFee
<1>12. Synced[in] * Synced[Other(in)]
         <= (Synced[in] + (x - totalFee)) * (Synced[Other(in)] - y)
  BY <1>10 DEF a, b
<1> QED
  BY <1>1, <1>5, <1>8, <1>9, <1>11, <1>12, TradeStep

LEMMA WithdrawStep ==
    ASSUME PoolInv, NEW u \in Users, NEW n \in ShareAmounts,
           NEW m \in [PoolTokens -> MinAmounts], Withdraw(u, n, m)
    PROVE  Kept
<1> USE DEF PoolTokens
<1> DEFINE out == [x \in PoolTokens |-> WithdrawnPart(x, n)]
           new == [x \in PoolTokens |-> Synced[x] - out[x]]
           a == Synced["A"]
           b == Synced["B"]
           c == reserve'["A"]
           d == reserve'["B"]
           t == totalShares
           left == t - n
<1>1. /\ t \in Nat \ {0} /\ n \in 0..t
      /\ u \in Holders /\ Pool \in Holders /\ u # Pool
  BY PoolAssumption DEF PoolAssumption, Withdraw, PoolInv, PoolTypes, Holders
<1>2. /\ bal' = Send(bal, Pool, u, out)
      /\ reserve' = new /\ plane' = new /\ totalShares' = left
      /\ UNCHANGED <<fee, pfFraction, ledger>>
  BY DEF Withdraw, cfgVars, envVars
<1>3. \A x \in PoolTokens :
        /\ out[x] \in 0..Synced[x]
        /\ left * Synced[x] <= (Synced[x] - out[x]) * t
        /\ n = t => out[x] = Synced[x]
  <2> SUFFICES ASSUME NEW x \in PoolTokens
               PROVE  /\ out[x] \in 0..Synced[x]
                      /\ left * Synced[x] <= (Synced[x] - out[x]) * t
                      /\ n = t => out[x] = Synced[x]
    OBVIOUS
  <2> DEFINE r == Synced[x]
             q == (r * n) \div t
  <2>1. r \in Nat /\ out[x] = q
    BY SyncedFacts DEF WithdrawnPart
  <2> HIDE DEF out, t, r
  <2>2. q \in 0..r /\ (t - n) * r <= (r - q) * t /\ (n = t => q = r)
    BY <1>1, <2>1, WithdrawalIsProportional
  <2> QED
    BY <2>1, <2>2 DEF r
<1> HIDE DEF out
<1>4. /\ left \in Nat /\ a \in Nat /\ b \in Nat /\ c \in Nat /\ d \in Nat
      /\ reserve' \in [PoolTokens -> Nat]
      /\ \A x \in PoolTokens : reserve'[x] = Synced[x] - out[x]
  BY <1>1, <1>2, <1>3, SyncedFacts
<1>5. left * a <= c * t /\ left * b <= d * t
  BY <1>3, <1>4
<1>6. (a * b) * (left * left) <= (c * d) * (t * t)
  <2> HIDE DEF a, b, c, d, t, left
  <2> QED
    BY <1>1, <1>4, <1>5, ProportionKeepsValue
<1>7. /\ ValueKept
      /\ totalShares' * totalShares' <= reserve'["A"] * reserve'["B"]
  BY <1>1, <1>2, <1>4, <1>6, ValueFromSynced
<1>8. totalShares' = 0 => reserve' = Nothing
  BY <1>1, <1>2, <1>3, SyncedFacts DEF Nothing
<1>9. /\ Shaped(bal')
      /\ \A x \in PoolTokens : /\ bal'[Pool][x] = bal[Pool][x] - out[x]
                               /\ bal'[u][x] = bal[u][x] + out[x]
      /\ \A h \in Holders \ {u, Pool} : bal'[h] = bal[h]
  BY <1>1, <1>2, SendFacts DEF PoolInv, PoolTypes
<1>10. \A x \in Plain : reserve'[x] + fee'[x] <= bal'[Pool][x]
  <2> SUFFICES ASSUME NEW x \in Plain PROVE reserve'[x] + fee'[x] <= bal'[Pool][x]
    OBVIOUS
  <2>1. /\ x \in PoolTokens /\ out[x] \in Nat /\ Synced[x] \in Nat /\ fee[x] \in Nat
        /\ bal[Pool][x] \in Nat /\ Synced[x] + fee[x] <= bal[Pool][x]
    BY <1>1, <1>3, SyncedFacts DEF PoolInv, PoolTypes, Plain
  <2>2. /\ reserve'[x] = Synced[x] - out[x] /\ fee'[x] = fee[x]
        /\ bal'[Pool][x] = bal[Pool][x] - out[x]
    BY <1>2, <1>4, <1>9, <2>1
  <2> QED
    BY <2>1, <2>2
<1>11. \A h \in Holders, x \in Plain : bal'[h][x] \in Nat
  <2> SUFFICES ASSUME NEW h \in Holders, NEW x \in Plain PROVE bal'[h][x] \in Nat
    OBVIOUS
  <2>1. /\ x \in PoolTokens /\ out[x] \in Nat /\ Synced[x] \in Nat /\ fee[x] \in Nat
        /\ out[x] <= Synced[x]
        /\ bal[h][x] \in Nat /\ Synced[x] + fee[x] <= bal[Pool][x]
    BY <1>1, <1>3, SyncedFacts DEF PoolInv, PoolTypes, Plain
  <2> QED
    BY <1>1, <1>9, <2>1
<1>12. PoolTypes' /\ PlainSolvent' /\ PlaneNeverOverstates' /\ SharesBacked'
  BY <1>2, <1>4, <1>7, <1>8, <1>9, <1>10, <1>11
     DEF PoolInv, PoolTypes, PlainSolvent, PlaneNeverOverstates, SharesBacked
<1> QED
  BY <1>7, <1>12 DEF Kept, PoolInv

LEMMA SyncStep ==
    ASSUME PoolInv, SyncReserves
    PROVE  Kept
<1>1. /\ reserve' = Synced
      /\ UNCHANGED <<bal, totalShares, fee, plane, pfFraction, ledger>>
  BY DEF SyncReserves, cfgVars, envVars
<1>2. ValueKept
  <2> DEFINE tt == totalShares * totalShares
             p == Synced["A"] * Synced["B"]
  <2>1. tt \in Nat /\ p \in Nat
    BY SyncedFacts, MulNat DEF PoolInv, PoolTypes, PoolTokens
  <2>2. p * tt <= p * tt
    BY <2>1
  <2> QED
    BY <1>1, <2>2, SyncedFacts, ValueFromSynced DEF PoolInv, PoolTypes
<1>3. PlaneNeverOverstates'
  <2> SUFFICES ASSUME NEW t \in PoolTokens PROVE plane[t] <= Synced[t]
    BY <1>1 DEF PlaneNeverOverstates
  <2> QED
    BY SyncedFacts DEF PoolInv, PoolTypes, PlaneNeverOverstates
<1>4. SharesBacked' /\ PlainSolvent' /\ PoolTypes'
  BY <1>1, SyncedFacts DEF SharesBacked, PlainSolvent, PoolInv, PoolTypes
<1> QED
  BY <1>2, <1>3, <1>4 DEF Kept, PoolInv

\* A step that leaves the reserves and the total of shares alone.
LEMMA IdleStep ==
    ASSUME PoolInv, UNCHANGED <<totalShares, reserve>>,
           PoolTypes', PlainSolvent', PlaneNeverOverstates'
    PROVE  Kept
<1>1. ValueKept
  <2> DEFINE p == reserve["A"] * reserve["B"]
             tt == totalShares * totalShares
  <2>1. p \in Nat /\ tt \in Nat
    BY MulNat DEF PoolInv, PoolTypes, PoolTokens
  <2>2. p * tt <= p * tt
    BY <2>1
  <2> QED
    BY <2>2 DEF ValueKept
<1>2. SharesBacked'
  BY DEF PoolInv, SharesBacked
<1> QED
  BY <1>1, <1>2 DEF Kept, PoolInv

\* A step that moves tokens, none of the pool's own plain ones away from it.
LEMMA TransferStep ==
    ASSUME PoolInv, UNCHANGED <<totalShares, reserve, fee, pfFraction, plane>>,
           ledger' \in Nat, Shaped(bal'),
           \A h \in Holders, t \in Plain : bal'[h][t] \in Nat,
           \A t \in Plain : bal[Pool][t] <= bal'[Pool][t]
    PROVE  Kept
<1>1. PoolTypes' /\ PlaneNeverOverstates'
  BY DEF PoolInv, PoolTypes, PlaneNeverOverstates
<1>2. PlainSolvent'
  <2> SUFFICES ASSUME NEW t \in Plain PROVE reserve[t] + fee[t] <= bal'[Pool][t]
    BY DEF PlainSolvent
  <2>1. /\ bal[Pool][t] \in Nat /\ bal'[Pool][t] \in Nat
        /\ reserve[t] \in Nat /\ fee[t] \in Nat
        /\ reserve[t] + fee[t] <= bal[Pool][t]
    BY DEF Plain, Holders, PoolInv, PoolTypes, PlainSolvent
  <2> QED
    BY <2>1
<1> QED
  BY <1>1, <1>2, IdleStep

\* claim and return_unused_reward move the reward token only.
LEMMA RewardTransferStep ==
    ASSUME PoolInv, NEW to \in Holders, NEW n,
           bal' = Move(bal, Pool, to, RewardToken, n),
           UNCHANGED <<totalShares, reserve, fee, pfFraction, plane, ledger>>
    PROVE  Kept
<1>1. RewardToken \in Assets /\ Pool \in Holders /\ Plain \subseteq Assets \ {RewardToken}
  BY DEF Plain, Assets, Holders
<1>2. /\ Shaped(bal')
      /\ \A h \in Holders, t \in Assets \ {RewardToken} : bal'[h][t] = bal[h][t]
  BY <1>1, MoveFacts DEF PoolInv, PoolTypes
<1> QED
  BY <1>1, <1>2, TransferStep DEF PoolInv, PoolTypes, Holders, Plain

LEMMA ClaimProtocolFeesStep ==
    ASSUME PoolInv, NEW caller, ClaimProtocolFees(caller)
    PROVE  Kept
<1>1. /\ bal' = Send(bal, Pool, Outside, fee) /\ fee' = Nothing
      /\ \A t \in PoolTokens : fee[t] <= bal[Pool][t]
      /\ UNCHANGED <<totalShares, reserve, plane, pfFraction, ledger>>
  BY DEF ClaimProtocolFees, cfgVars, envVars
<1>2. Pool \in Holders /\ Outside \in Holders /\ Pool # Outside
  BY PoolAssumption DEF PoolAssumption, Holders
<1>3. /\ Shaped(bal')
      /\ \A t \in PoolTokens : /\ bal'[Pool][t] = bal[Pool][t] - fee[t]
                               /\ bal'[Outside][t] = bal[Outside][t] + fee[t]
      /\ \A h \in Holders \ {Pool, Outside} : bal'[h] = bal[h]
  BY <1>1, <1>2, SendFacts DEF PoolInv, PoolTypes
<1>4. \A h \in Holders, t \in Plain : bal'[h][t] \in Nat
  <2> SUFFICES ASSUME NEW h \in Holders, NEW t \in Plain PROVE bal'[h][t] \in Nat
    OBVIOUS
  <2>1. /\ t \in PoolTokens /\ fee[t] \in Nat /\ bal[h][t] \in Nat
        /\ fee[t] <= bal[Pool][t]
    BY <1>1 DEF Plain, PoolInv, PoolTypes
  <2> QED
    BY <1>2, <1>3, <2>1
<1>5. PlainSolvent'
  <2> SUFFICES ASSUME NEW t \in Plain PROVE reserve[t] + 0 <= bal'[Pool][t]
    BY <1>1 DEF PlainSolvent, Nothing, Plain
  <2>1. /\ t \in PoolTokens /\ fee[t] \in Nat /\ reserve[t] \in Nat
        /\ bal[Pool][t] \in Nat /\ reserve[t] + fee[t] <= bal[Pool][t]
    BY <1>2 DEF Plain, PoolInv, PoolTypes, PlainSolvent
  <2> QED
    BY <1>3, <2>1
<1>6. PoolTypes' /\ PlaneNeverOverstates'
  BY <1>1, <1>3, <1>4 DEF PoolInv, PoolTypes, PlaneNeverOverstates, Nothing
<1> QED
  BY <1>1, <1>5, <1>6, IdleStep

LEMMA SendToPoolStep ==
    ASSUME PoolInv, NEW from \in Users \cup {Outside}, NEW t \in Assets,
           NEW n \in GiftAmounts, SendToPool(from, t, n)
    PROVE  Kept
<1>1. /\ from \in Holders /\ Pool \in Holders /\ from # Pool /\ n \in Nat
      /\ n <= bal[from][t]
      /\ bal' = Move(bal, from, Pool, t, n)
      /\ UNCHANGED <<totalShares, reserve, fee, pfFraction, plane, ledger>>
  BY PoolAssumption DEF PoolAssumption, SendToPool, Holders, cfgVars, envVars
<1>2. /\ Shaped(bal')
      /\ \A h \in Holders, x \in Assets \ {t} : bal'[h][x] = bal[h][x]
      /\ bal'[from][t] = bal[from][t] - n
      /\ bal'[Pool][t] = bal[Pool][t] + n
      /\ \A h \in Holders \ {from, Pool} : bal'[h] = bal[h]
  BY <1>1, MoveFacts DEF PoolInv, PoolTypes
<1>3. \A h \in Holders, x \in Plain : bal'[h][x] \in Nat
  <2> SUFFICES ASSUME NEW h \in Holders, NEW x \in Plain PROVE bal'[h][x] \in Nat
    OBVIOUS
  <2>1. x \in Assets /\ bal[h][x] \in Nat /\ (x = t => bal[from][t] \in Nat)
    BY <1>1 DEF Plain, Assets, PoolInv, PoolTypes
  <2> QED
    BY <1>1, <1>2, <2>1
<1>4. \A x \in Plain : bal[Pool][x] <= bal'[Pool][x]
  <2> SUFFICES ASSUME NEW x \in Plain PROVE bal[Pool][x] <= bal'[Pool][x]
    OBVIOUS
  <2>1. x \in Assets /\ bal[Pool][x] \in Nat
    BY <1>1 DEF Plain, Assets, PoolInv, PoolTypes
  <2> QED
    BY <1>1, <1>2, <2>1
<1> QED
  BY <1>1, <1>2, <1>3, <1>4, TransferStep DEF PoolInv, PoolTypes

-----------------------------------------------------------------------------
(* The invariant of the specification                                      *)

LEMMA PoolInit == Init => PoolInv
<1> SUFFICES ASSUME Init PROVE PoolInv
  OBVIOUS
<1> USE PoolAssumption DEF PoolAssumption
<1>1. Shaped(bal)
  BY DEF Init, Shaped
<1>2. \A h \in Holders, t \in Plain : bal[h][t] \in Nat
  BY DEF Init, Plain, Assets
<1>3. PoolTypes
  <2>1. Nothing \in [PoolTokens -> Nat]
    BY DEF Nothing
  <2>2. /\ reserve \in [PoolTokens -> Nat]
        /\ fee \in [PoolTokens -> Nat]
        /\ plane \in [PoolTokens -> Nat]
        /\ totalShares \in Nat /\ ledger \in Nat
        /\ pfFraction \in 0..FeeMultiplier
    BY <2>1 DEF Init
  <2> QED
    BY <1>1, <1>2, <2>2 DEF PoolTypes
<1>4. PlainSolvent
  BY DEF Init, PlainSolvent, Plain, Nothing, Assets, Holders
<1>5. SharesBacked /\ PlaneNeverOverstates
  BY DEF Init, SharesBacked, PlaneNeverOverstates, Nothing, PoolTokens
<1> QED
  BY <1>3, <1>4, <1>5 DEF PoolInv

LEMMA UserStepKeeps == PoolInv /\ UserStep => Kept
<1> SUFFICES ASSUME PoolInv, NEW u \in Users,
       \/ \E d \in [PoolTokens -> DepositAmounts], m \in MinAmounts : Deposit(u, d, m)
       \/ \E t \in PoolTokens, n \in SwapAmounts, m \in MinAmounts : Swap(u, t, n, m)
       \/ \E t \in PoolTokens, n, m \in SwapAmounts : SwapStrictReceive(u, t, n, m)
       \/ \E n \in ShareAmounts, m \in [PoolTokens -> MinAmounts] : Withdraw(u, n, m)
       \/ \E to \in ShareHolders, n \in ShareAmounts : TransferShares(u, to, n)
       \/ \E n \in ShareAmounts : BurnShares(u, n)
     PROVE Kept
  BY DEF UserStep
<1>1. ASSUME NEW to \in ShareHolders, NEW n \in ShareAmounts, TransferShares(u, to, n)
      PROVE  Kept
  BY <1>1, IdleStep DEF TransferShares, PoolInv, PoolTypes, PlainSolvent,
                        PlaneNeverOverstates, cfgVars, envVars
<1>2. ASSUME NEW n \in ShareAmounts, BurnShares(u, n)
      PROVE  Kept
  BY <1>2, IdleStep DEF BurnShares, PoolInv, PoolTypes, PlainSolvent,
                        PlaneNeverOverstates, cfgVars, envVars
<1> QED
  BY <1>1, <1>2, DepositStep, SwapStep, SwapStrictReceiveStep, WithdrawStep

\* A step that only the rewards, the kill switches or the locks take part in.
LEMMA OtherStep ==
    ASSUME PoolInv, UNCHANGED ammVars, pfFraction' \in 0..FeeMultiplier, ledger' \in Nat
    PROVE  Kept
BY IdleStep DEF ammVars, PoolInv, PoolTypes, PlainSolvent, PlaneNeverOverstates

LEMMA RewardStepKeeps == PoolInv /\ RewardStep => Kept
<1> SUFFICES ASSUME PoolInv, RewardStep PROVE Kept
  OBVIOUS
<1>1. ASSUME NEW u \in Users, Claim(u) PROVE Kept
  <2>1. /\ \E n : bal' = Move(bal, Pool, u, RewardToken, n)
        /\ UNCHANGED <<totalShares, reserve, fee, pfFraction, plane, ledger>>
    BY <1>1 DEF Claim, cfgVars, envVars
  <2> QED
    BY <2>1, RewardTransferStep DEF Holders
<1>2. ASSUME NEW u \in Users, GetUserReward(u) PROVE Kept
  BY <1>2, OtherStep DEF GetUserReward, cfgVars, envVars, PoolInv, PoolTypes
<1>3. ASSUME NEW u \in Users, NEW state \in RewardSwitches, SetRewardsState(u, state)
      PROVE  Kept
  BY <1>3, OtherStep DEF SetRewardsState, cfgVars, envVars, PoolInv, PoolTypes
<1>4. ASSUME GetPoolRewards PROVE Kept
  BY <1>4, OtherStep DEF GetPoolRewards, cfgVars, envVars, PoolInv, PoolTypes
<1> QED
  BY <1>1, <1>2, <1>3, <1>4 DEF RewardStep

LEMMA AdminStepKeeps == PoolInv /\ AdminStep => Kept
<1> SUFFICES ASSUME PoolInv, NEW caller \in Callers,
       \/ \E f \in ProtocolFractions : SetProtocolFeeFraction(caller, f)
       \/ ClaimProtocolFees(caller)
       \/ \E s \in Switches : Kill(caller, s) \/ Unkill(caller, s)
       \/ \E e \in Expirations, tps \in TpsValues : SetRewardsConfig(caller, e, tps)
       \/ ReturnUnusedReward(caller)
       \/ \E diff \in Diffs : AdjustTotalAccumulatedReward(caller, diff)
     PROVE Kept
  BY DEF AdminStep
<1>1. ASSUME NEW f \in ProtocolFractions, SetProtocolFeeFraction(caller, f) PROVE Kept
  BY <1>1, OtherStep, PoolAssumption
     DEF SetProtocolFeeFraction, envVars, PoolInv, PoolTypes, PoolAssumption
<1>2. ASSUME NEW s \in Switches, Kill(caller, s) \/ Unkill(caller, s) PROVE Kept
  BY <1>2, OtherStep DEF Kill, Unkill, envVars, PoolInv, PoolTypes
<1>3. ASSUME NEW e \in Expirations, NEW tps \in TpsValues, SetRewardsConfig(caller, e, tps)
      PROVE  Kept
  BY <1>3, OtherStep DEF SetRewardsConfig, cfgVars, envVars, PoolInv, PoolTypes
<1>4. ASSUME ReturnUnusedReward(caller) PROVE Kept
  <2>1. /\ \E n : bal' = Move(bal, Pool, Outside, RewardToken, n)
        /\ UNCHANGED <<totalShares, reserve, fee, pfFraction, plane, ledger>>
    BY <1>4 DEF ReturnUnusedReward, cfgVars, envVars
  <2> QED
    BY <2>1, RewardTransferStep DEF Holders
<1>5. ASSUME NEW diff \in Diffs, AdjustTotalAccumulatedReward(caller, diff) PROVE Kept
  BY <1>5, OtherStep DEF AdjustTotalAccumulatedReward, cfgVars, envVars, PoolInv, PoolTypes
<1> QED
  BY <1>1, <1>2, <1>3, <1>4, <1>5, ClaimProtocolFeesStep

LEMMA EnvStepKeeps == PoolInv /\ EnvStep => Kept
<1> SUFFICES ASSUME PoolInv, EnvStep PROVE Kept
  OBVIOUS
<1>1. ASSUME BackfillPlane PROVE Kept
  BY <1>1, IdleStep DEF BackfillPlane, PoolInv, PoolTypes, PlainSolvent,
                        PlaneNeverOverstates, cfgVars, envVars
<1>2. ASSUME NEW u \in Users, NEW n \in LockAmounts, ChangeLock(u, n) PROVE Kept
  BY <1>2, OtherStep DEF ChangeLock, cfgVars, PoolInv, PoolTypes
<1>3. ASSUME NextLedger PROVE Kept
  BY <1>3, OtherStep DEF NextLedger, cfgVars, PoolInv, PoolTypes
<1> QED
  BY <1>1, <1>2, <1>3, SyncStep, SendToPoolStep DEF EnvStep

LEMMA PoolStep == PoolInv /\ [Next]_vars => PoolInv' /\ ValueKept
<1> SUFFICES ASSUME PoolInv, [Next]_vars PROVE Kept
  BY DEF Kept
<1>1. CASE UNCHANGED vars
  BY <1>1, OtherStep DEF vars, ammVars, PoolInv, PoolTypes
<1> QED
  BY <1>1, UserStepKeeps, RewardStepKeeps, AdminStepKeeps, EnvStepKeeps DEF Next

LEMMA PoolInvariant == Spec => []PoolInv
BY PoolInit, PoolStep, PTL DEF Spec

-----------------------------------------------------------------------------
(* The theorems                                                            *)

\* The pool's balance covers its reserves and its protocol fees after any
\* sequence of calls (contract.rs: deposit, swap, swap_strict_receive,
\* withdraw, _sync_reserves, claim_protocol_fees), of each token that is not
\* the reward token...
THEOREM PlainTokensCovered == Spec => []PlainSolvent
<1>1. PoolInv => PlainSolvent
  BY DEF PoolInv
<1> QED
  BY PoolInvariant, <1>1, PTL

\* ...and hence of both when rewards are paid in a third token.
THEOREM PoolSolvent ==
    ASSUME RewardToken \notin PoolTokens
    PROVE  Spec => []Solvent
<1>1. PlainSolvent => Solvent
  BY DEF PlainSolvent, Solvent, Plain
<1> QED
  BY PlainTokensCovered, <1>1, PTL

\* The square of the shares never exceeds the product of the reserves, whatever
\* the roundings of deposit, withdraw and the swaps add up to.
THEOREM SharesAlwaysBacked == Spec => []SharesBacked
<1>1. PoolInv => SharesBacked
  BY DEF PoolInv
<1> QED
  BY PoolInvariant, <1>1, PTL

\* No call dilutes the value of a share.
THEOREM ShareValueKept == Spec => ShareValueNeverFalls
<1>1. PoolInv /\ [Next]_vars =>
        [totalShares > 0 /\ totalShares' > 0 =>
          reserve["A"] * reserve["B"] * (totalShares' * totalShares')
            <= reserve'["A"] * reserve'["B"] * (totalShares * totalShares)]_vars
  BY PoolStep DEF ValueKept
<1> QED
  BY PoolInvariant, <1>1, PTL DEF Spec, ShareValueNeverFalls

\* The plane contract never shows more than the pool's reserves, although
\* get_reserves and the estimates change them without it.
THEOREM PlaneBounded == Spec => []PlaneNeverOverstates
<1>1. PoolInv => PlaneNeverOverstates
  BY DEF PoolInv
<1> QED
  BY PoolInvariant, <1>1, PTL

-----------------------------------------------------------------------------
(* Prices                                                                  *)

LEMMA ResidueFacts ==
    ASSUME PoolTypes
    PROVE  /\ FeeMultiplier \in Nat \ {0}
           /\ FeeMultiplier - FeeFraction \in Nat \ {0}
           /\ FeeMultiplier - FeeFraction <= FeeMultiplier
           /\ Residue \in Nat
           /\ FeeMultiplier - FeeFraction <= Residue
<1>1. /\ FeeMultiplier \in Nat \ {0} /\ FeeFraction \in Nat
      /\ FeeFraction <= FeeMultiplier - 1 /\ pfFraction \in 0..FeeMultiplier
  BY PoolAssumption DEF PoolAssumption, PoolTypes
<1>2. /\ (FeeFraction * pfFraction) \div FeeMultiplier \in Nat
      /\ (FeeFraction * pfFraction) \div FeeMultiplier <= FeeFraction
  BY <1>1, PartAtMost
<1> QED
  BY <1>1, <1>2 DEF Residue

LEMMA SellingPasses ==
    ASSUME PoolTypes, \A t \in PoolTokens : reserve[t] > 0,
           NEW in \in PoolTokens, NEW x \in Nat
    PROVE  InvariantHolds(reserve, in, x, AmountOut(reserve, in, x))
<1> DEFINE a == reserve[in]
           b == reserve[Other(in)]
           w == AfterFee(x)
           y == AmountOut(reserve, in, x)
           f == FeeMultiplier - FeeFraction
<1>1. a \in Nat \ {0} /\ b \in Nat
  BY DEF PoolTypes, PoolTokens, Other
<1>2. w \in Nat /\ w = (x * f) \div FeeMultiplier
  BY AfterFeeFacts DEF AfterFee
<1>3. y = (w * b) \div (a + w)
  BY DEF AmountOut
<1> HIDE DEF a, b, w, y, f
<1>4. y \in 0..b /\ a * b <= (a + w) * (b - y)
  BY <1>1, <1>2, <1>3, AmountOutKeepsProduct
<1>5. FeeMultiplier * w <= Residue * x
  <2>1. f \in Nat /\ f <= Residue /\ x * f \in Nat
    BY ResidueFacts, MulNat DEF f
  <2>2. w * FeeMultiplier <= x * f
    BY <1>2, <2>1, ResidueFacts, DivFacts
  <2>3. x * f <= x * Residue
    BY <2>1, ResidueFacts, MulMono
  <2> QED
    BY <1>2, <2>1, <2>2, <2>3, ResidueFacts
<1> QED
  BY <1>1, <1>2, <1>4, <1>5, ResidueFacts, CheckPasses DEF InvariantHolds, a, b, y

LEMMA BuyingPasses ==
    ASSUME PoolTypes, \A t \in PoolTokens : reserve[t] > 0,
           NEW in \in PoolTokens, NEW y \in Nat, y < reserve[Other(in)]
    PROVE  /\ InvariantHolds(reserve, in, AmountIn(reserve, in, y), y)
           /\ AmountOut(reserve, in, AmountIn(reserve, in, y)) >= y
<1> DEFINE a == reserve[in]
           b == reserve[Other(in)]
           net == InAfterFee(reserve, in, y)
           x == AmountIn(reserve, in, y)
           f == FeeMultiplier - FeeFraction
           w == AfterFee(x)
<1>1. a \in Nat \ {0} /\ b \in Nat /\ y < b /\ y \in 0..b /\ b - y \in Nat \ {0}
  BY DEF PoolTypes, PoolTokens, Other
<1>2. net = CeilDiv(a * y, b - y) /\ x = CeilDiv(net * FeeMultiplier, f)
  BY DEF InAfterFee, AmountIn
<1>3. f \in Nat \ {0} /\ FeeMultiplier \in Nat \ {0} /\ Residue \in Nat /\ f <= Residue
  BY ResidueFacts
<1>4. w = (x * f) \div FeeMultiplier
  BY DEF AfterFee
<1>5. AmountOut(reserve, in, x) = (w * b) \div (a + w)
  BY DEF AmountOut
<1> HIDE DEF a, b, net, x, f, w
<1>6. net \in Nat /\ net * (b - y) >= a * y
  BY <1>1, <1>2, MulNat, CeilFacts DEF CeilDiv
<1>7. x \in Nat /\ x * f >= net * FeeMultiplier
  BY <1>2, <1>3, <1>6, MulNat, CeilFacts DEF CeilDiv
<1>8. FeeMultiplier * net <= Residue * x
  <2>1. x * f <= x * Residue
    BY <1>3, <1>7, MulMono
  <2> QED
    BY <1>3, <1>6, <1>7, <2>1
<1>9. a * b <= (a + net) * (b - y)
  BY <1>1, <1>6, AmountInKeepsProduct
<1>10. InvariantHolds(reserve, in, x, y)
  BY <1>1, <1>3, <1>6, <1>7, <1>8, <1>9, CheckPasses DEF InvariantHolds, a, b
<1>11. w \in Nat /\ net <= w
  BY <1>3, <1>4, <1>6, <1>7, MulNat, DivFacts, QuotientAtLeast
<1>12. y <= (w * b) \div (a + w)
  <2>1. net * (b - y) <= w * (b - y)
    BY <1>1, <1>6, <1>11, MulMono
  <2>2. y * (a + w) <= w * b
    BY <1>1, <1>6, <1>11, <2>1
  <2> QED
    BY <1>1, <1>11, <2>2, MulNat, QuotientAtLeast
<1>13. AmountOut(reserve, in, x) \in Nat
  BY <1>1, <1>5, <1>11, MulNat, DivFacts
<1> QED
  BY <1>5, <1>10, <1>12, <1>13 DEF x

\* For every reserves, fees and amounts: get_amount_out and
\* get_amount_out_strict_receive (pool.rs) never ask for a trade that the
\* check of the swaps refuses, and the second is never cheaper than the first.
THEOREM QuotesAlwaysAgree == Spec => []QuotesAgree
<1>1. PoolInv => QuotesAgree
  <2> SUFFICES ASSUME PoolTypes, \A t \in PoolTokens : reserve[t] > 0,
                      NEW in \in PoolTokens, NEW n \in SwapAmounts \ {0}
               PROVE  /\ InvariantHolds(reserve, in, n, AmountOut(reserve, in, n))
                      /\ n < reserve[Other(in)] =>
                           /\ InvariantHolds(reserve, in, AmountIn(reserve, in, n), n)
                           /\ AmountOut(reserve, in, AmountIn(reserve, in, n)) >= n
    BY DEF PoolInv, QuotesAgree
  <2>1. n \in Nat
    BY PoolAssumption DEF PoolAssumption
  <2> QED
    BY <2>1, SellingPasses, BuyingPasses
<1> QED
  BY PoolInvariant, <1>1, PTL

-----------------------------------------------------------------------------
(* The books of the rewards                                                *)

\* What adjust_total_accumulated_reward may take back of the accumulated total
\* is taken from rewards that users already have coming; the cover below is
\* about pools whose administrators only ever add to it.
NeverTakenBack == Diffs \subseteq Nat

-----------------------------------------------------------------------------
(* The checkpoints of the pool                                             *)

LEMMA LockedType ==
    ASSUME lock \in [Users -> Nat]
    PROVE  TotalLocked \in Nat
BY SumNat, UsersAssumption DEF TotalLocked

LEMMA CheckpointKeeps ==
    ASSUME lock \in [Users -> Nat], ledger \in Nat,
           NEW r, NEW sh, NEW ts, RewardsOK(r, sh, ts, ledger),
           NEW u \in Users, NEW total \in Nat, NEW n \in Nat,
           r.ws = Unset => total = 0, r.wb[u] = Unset => n = 0
    PROVE  /\ RewardsOK(Checkpoint(r, u, total, n), sh, ts, ledger)
           /\ KnownFor(Checkpoint(r, u, total, n), r, u)
           /\ Covered(r) => /\ Covered(Checkpoint(r, u, total, n))
                            /\ CaughtUp(Checkpoint(r, u, total, n), u)
BY LockedType, CheckpointFacts DEF Checkpoint

LEMMA NewWorkingKeeps ==
    ASSUME lock \in [Users -> Nat], ledger \in Nat,
           NEW r, NEW sh, NEW ts, RewardsOK(r, sh, ts, ledger),
           NEW u \in Users, NEW total \in Nat, NEW n \in Nat,
           r.ws # Unset, r.wb[u] # Unset
    PROVE  /\ RewardsOK(NewWorking(r, u, total, n), sh, ts, ledger)
           /\ KnownFor(NewWorking(r, u, total, n), r, u)
           /\ Covered(r) /\ CaughtUp(r, u) => Covered(NewWorking(r, u, total, n))
BY LockedType, NewWorkingFacts DEF NewWorking

-----------------------------------------------------------------------------
(* The balances of the tokens                                              *)

NatBalances(b) == Shaped(b) /\ \A h \in Holders, t \in Assets : b[h][t] \in Nat

LEMMA MoveNat ==
    ASSUME NEW b, NatBalances(b), NEW from \in Holders, NEW to \in Holders, from # to,
           NEW t \in Assets, NEW n \in Nat, n <= b[from][t]
    PROVE  NatBalances(Move(b, from, to, t, n))
<1> DEFINE c == Move(b, from, to, t, n)
<1>1. /\ Shaped(c)
      /\ \A h \in Holders, x \in Assets \ {t} : c[h][x] = b[h][x]
      /\ c[from][t] = b[from][t] - n
      /\ c[to][t] = b[to][t] + n
      /\ \A h \in Holders \ {from, to} : c[h] = b[h]
  BY MoveFacts DEF NatBalances
<1>2. \A h \in Holders, x \in Assets : b[h][x] \in Nat
  BY DEF NatBalances
<1> HIDE DEF c
<1>3. ASSUME NEW h \in Holders, NEW x \in Assets PROVE c[h][x] \in Nat
  BY <1>1, <1>2
<1> QED
  BY <1>1, <1>3 DEF NatBalances, c

LEMMA SendNat ==
    ASSUME NEW b, NatBalances(b), NEW from \in Holders, NEW to \in Holders, from # to,
           NEW n \in [PoolTokens -> Nat], \A t \in PoolTokens : n[t] <= b[from][t]
    PROVE  NatBalances(Send(b, from, to, n))
<1> DEFINE c == Move(b, from, to, "A", n["A"])
<1>1. "A" \in Assets /\ "B" \in Assets /\ n["A"] \in Nat /\ n["B"] \in Nat
      /\ n["A"] <= b[from]["A"] /\ n["B"] <= b[from]["B"]
  BY DEF Assets, PoolTokens
<1>2. NatBalances(c)
  BY <1>1, MoveNat
<1>3. c[from]["B"] = b[from]["B"]
  BY <1>1, MoveFacts DEF NatBalances
<1>4. Send(b, from, to, n) = Move(c, from, to, "B", n["B"])
  BY DEF Send
<1> HIDE DEF c
<1> QED
  BY <1>1, <1>2, <1>3, <1>4, MoveNat

LEMMA ExchangeNat ==
    ASSUME NEW b, NatBalances(b), NEW u \in Users, NEW in \in PoolTokens,
           NEW x \in Nat, NEW y \in Nat, x <= b[u][in], y <= b[Pool][Other(in)]
    PROVE  NatBalances(Exchange(b, u, in, x, y))
<1> DEFINE c == Move(b, u, Pool, in, x)
<1>1. in \in Assets /\ Other(in) \in Assets /\ in # Other(in)
  BY DEF Assets, PoolTokens, Other
<1>2. u \in Holders /\ Pool \in Holders /\ u # Pool
  BY PoolAssumption DEF PoolAssumption, Holders
<1>3. NatBalances(c)
  BY <1>1, <1>2, MoveNat
<1>4. c[Pool][Other(in)] = b[Pool][Other(in)]
  BY <1>1, <1>2, MoveFacts DEF NatBalances
<1>5. Exchange(b, u, in, x, y) = Move(c, Pool, u, Other(in), y)
  BY DEF Exchange
<1> HIDE DEF c
<1> QED
  BY <1>1, <1>2, <1>3, <1>4, <1>5, MoveNat

-----------------------------------------------------------------------------
(* The invariant                                                           *)

BooksInv ==
    /\ NatBalances(bal)
    /\ shares \in [ShareHolders -> Nat]
    /\ killed \in [Switches -> BOOLEAN]
    /\ syncLedger \in Nat
    /\ lock \in [Users -> Nat]
    /\ RewardsOK(rw, shares, totalShares, ledger)
    /\ NeverTakenBack => Covered(rw)
    /\ SharesIssued

LEMMA HoldersFinite == IsFiniteSet(ShareHolders)
BY UsersAssumption, FS_AddElement DEF ShareHolders

\* One holder's shares change with the sum of all of them.
LEMMA SharesChange ==
    ASSUME NEW sh \in [ShareHolders -> Nat], NEW h \in ShareHolders, NEW n \in Nat
    PROVE  /\ [sh EXCEPT ![h] = n] \in [ShareHolders -> Nat]
           /\ SumFunctionOnSet([sh EXCEPT ![h] = n], ShareHolders)
                = SumFunctionOnSet(sh, ShareHolders) + n - sh[h]
           /\ SumFunctionOnSet(sh, ShareHolders) \in Nat
<1> DEFINE new == [sh EXCEPT ![h] = n]
<1>1. new \in [ShareHolders -> Nat] /\ new[h] = n /\ sh[h] \in Nat
      /\ \A g \in ShareHolders \ {h} : sh[g] = new[g]
  OBVIOUS
<1> HIDE DEF new
<1>2. new \in [ShareHolders -> Int] /\ sh \in [ShareHolders -> Int]
  BY <1>1
<1>3. SumFunctionOnSet(new, ShareHolders) = SumFunctionOnSet(sh, ShareHolders) + new[h] - sh[h]
  BY <1>1, <1>2, HoldersFinite, SumChange
<1>4. SumFunctionOnSet(sh, ShareHolders) \in Nat
  BY HoldersFinite, SumNat
<1> QED
  BY <1>1, <1>3, <1>4 DEF new

LEMMA BooksInit == Init => BooksInv
<1> SUFFICES ASSUME Init PROVE BooksInv
  OBVIOUS
<1> USE PoolAssumption DEF PoolAssumption
<1>1. NatBalances(bal)
  BY DEF Init, NatBalances, Shaped
<1>2. /\ shares \in [ShareHolders -> Nat] /\ killed \in [Switches -> BOOLEAN]
      /\ syncLedger \in Nat /\ lock \in [Users -> Nat]
  BY DEF Init
<1>3. RewardsOK(rw, shares, totalShares, ledger)
  <2>1. rw \in RewardState
    BY DEF Init, EmptyRewards, RewardState, UserReward, Unset
  <2>2. /\ rw.lastTime <= ledger /\ (rw.ws = Unset => totalShares = 0)
        /\ \A u \in Users : rw.user[u].lastCum <= rw.cum /\ shares[u] = 0
    BY DEF Init, EmptyRewards, ShareHolders
  <2>3. Balanced(rw)
    <3>1. Stored(rw.ws) = 0 /\ \A u \in Users : Working(rw)[u] = 0
      BY DEF Init, EmptyRewards, Stored, Working
    <3>2. SumFunctionOnSet(Working(rw), Users) = 0
      <4>1. PICK f \in [Users -> Int] : f = Working(rw) /\ \A u \in Users : f[u] = 0
        BY <2>1, <3>1, WorkingType
      <4> QED
        BY <4>1, SumOfZeros, UsersAssumption
    <3> QED
      BY <3>1, <3>2 DEF Balanced
  <2> QED
    BY <2>1, <2>2, <2>3 DEF RewardsOK
<1>4. SharesIssued
  <2>1. shares \in [ShareHolders -> Int] /\ \A h \in ShareHolders : shares[h] = 0
    BY DEF Init
  <2>2. SumFunctionOnSet(shares, ShareHolders) = 0
    BY <2>1, SumOfZeros, HoldersFinite
  <2> QED
    BY <2>2 DEF SharesIssued, Init
<1>5. Covered(rw)
  <2> DEFINE f == Pots(rw, Working(rw))
  <2>1. /\ \A u \in Users : ~rw.user[u].seen /\ rw.user[u].toClaim = 0
        /\ rw.claimed = 0 /\ rw.acc = 0 /\ RewardPrecision * 0 = 0
    BY RewardPrecisionAssumption DEF Init, EmptyRewards
  <2>2. f \in [Users -> Int] /\ \A u \in Users : f[u] = 0
    BY <2>1 DEF Pots
  <2> HIDE DEF f
  <2>3. SumFunctionOnSet(f, Users) = 0
    BY <2>2, SumOfZeros, UsersAssumption
  <2>4. NothingHidden(rw)
    BY <2>1 DEF NothingHidden
  <2> QED
    BY <2>1, <2>3, <2>4 DEF Covered, CoveredBy, f
<1> QED
  BY <1>1, <1>2, <1>3, <1>4, <1>5 DEF BooksInv

-----------------------------------------------------------------------------
(* Every action keeps it                                                   *)

\* What a deposit and a withdrawal do to the shares of u and to the rewards.
LEMMA SharesUpdate ==
    ASSUME BooksInv, totalShares \in Nat, totalShares' \in Nat, ledger \in Nat,
           NEW u \in Users, NEW n \in Nat,
           totalShares' - totalShares = n - shares[u],
           shares' = [shares EXCEPT ![u] = n],
           rw' = NewWorking(Checkpoint(rw, u, totalShares, shares[u]), u, totalShares', n),
           UNCHANGED ledger
    PROVE  /\ RewardsOK(rw', shares', totalShares', ledger')
           /\ Covered(rw) => Covered(rw')
           /\ shares' \in [ShareHolders -> Nat]
           /\ SharesIssued'
<1> DEFINE due == Checkpoint(rw, u, totalShares, shares[u])
<1>1. /\ u \in ShareHolders /\ shares[u] \in Nat
      /\ lock \in [Users -> Nat]
      /\ RewardsOK(rw, shares, totalShares, ledger)
      /\ (rw.ws = Unset => totalShares = 0) /\ (rw.wb[u] = Unset => shares[u] = 0)
  BY DEF BooksInv, RewardsOK, ShareHolders
<1>2. /\ RewardsOK(due, shares, totalShares, ledger) /\ KnownFor(due, rw, u)
      /\ Covered(rw) => Covered(due) /\ CaughtUp(due, u)
  BY <1>1, CheckpointKeeps
<1> HIDE DEF due
<1>3. due.ws # Unset /\ due.wb[u] # Unset
  BY <1>2 DEF KnownFor
<1>4. /\ RewardsOK(rw', shares, totalShares, ledger) /\ KnownFor(rw', due, u)
      /\ Covered(rw) => Covered(rw')
  BY <1>1, <1>2, <1>3, NewWorkingKeeps DEF due
<1>5. \A v \in Users : v # u => shares'[v] = shares[v]
  BY DEF BooksInv, ShareHolders
<1>6. RewardsOK(rw', shares', totalShares', ledger')
  BY <1>4, <1>5, SharesMoveOK
<1>7. /\ shares' \in [ShareHolders -> Nat]
      /\ SumFunctionOnSet(shares', ShareHolders)
           = SumFunctionOnSet(shares, ShareHolders) + n - shares[u]
      /\ SumFunctionOnSet(shares, ShareHolders) \in Nat
  BY <1>1, SharesChange DEF BooksInv
<1>8. SumFunctionOnSet(shares, ShareHolders) <= totalShares
  BY DEF BooksInv, SharesIssued
<1>9. SumFunctionOnSet(shares', ShareHolders) <= totalShares'
  BY <1>1, <1>7, <1>8
<1> QED
  BY <1>4, <1>6, <1>7, <1>9 DEF SharesIssued

LEMMA BooksDeposit ==
    ASSUME PoolInv, PoolInv', BooksInv, NEW u \in Users,
           NEW desired \in [PoolTokens -> DepositAmounts], NEW m \in MinAmounts,
           Deposit(u, desired, m)
    PROVE  BooksInv'
<1> DEFINE used == UsedAmounts(Synced, desired)
           n == shares[u] + (totalShares' - totalShares)
<1>1. /\ \A t \in PoolTokens : used[t] <= desired[t] /\ desired[t] <= bal[u][t]
      /\ shares' = [shares EXCEPT ![u] = n]
      /\ rw' = NewWorking(Checkpoint(rw, u, totalShares, shares[u]), u, totalShares', n)
      /\ bal' = Send(bal, u, Pool, used)
      /\ syncLedger' = ledger
      /\ UNCHANGED <<killed, ledger, lock>>
  BY DEF Deposit, cfgVars, envVars
<1>2. totalShares \in Nat /\ totalShares' \in Nat /\ ledger \in Nat
  BY DEF PoolInv, PoolTypes
<1>3. /\ u \in Holders /\ Pool \in Holders /\ u # Pool /\ shares[u] \in Nat
  BY PoolAssumption DEF PoolAssumption, Holders, ShareHolders, BooksInv
<1>4. n \in Nat /\ totalShares' - totalShares = n - shares[u]
  <2> DEFINE minted == totalShares' - totalShares
  <2>1. minted \in Nat
    <3>1. totalShares' - totalShares >= 0
      BY DEF Deposit
    <3>2. ASSUME NEW x \in Nat, NEW y \in Nat, y - x >= 0 PROVE y - x \in Nat
      BY <3>2
    <3> QED
      BY <1>2, <3>1, <3>2
  <2> HIDE DEF minted
  <2>2. n = shares[u] + minted
    BY DEF minted
  <2>3. minted = n - shares[u]
    BY <1>3, <2>1, <2>2
  <2> QED
    BY <1>3, <2>1, <2>2, <2>3 DEF minted
<1>5. NatBalances(bal')
  <2>1. used \in [PoolTokens -> Nat]
    <3>1. desired \in [PoolTokens -> Nat]
      BY PoolAssumption DEF PoolAssumption
    <3> QED
      BY <3>1, UsedFacts
  <2> HIDE DEF used
  <2>2. \A t \in PoolTokens : used[t] <= bal[u][t]
    <3> SUFFICES ASSUME NEW t \in PoolTokens PROVE used[t] <= bal[u][t]
      OBVIOUS
    <3>1. used[t] \in Nat /\ desired[t] \in Nat /\ bal[u][t] \in Nat
      BY <1>3, <2>1, PoolAssumption DEF PoolAssumption, BooksInv, NatBalances, Assets
    <3> QED
      BY <1>1, <3>1
  <2> QED
    BY <1>1, <1>3, <2>1, <2>2, SendNat DEF BooksInv
<1> HIDE DEF n
<1>6. /\ RewardsOK(rw', shares', totalShares', ledger') /\ (Covered(rw) => Covered(rw'))
      /\ shares' \in [ShareHolders -> Nat] /\ SharesIssued'
  BY <1>1, <1>2, <1>4, SharesUpdate
<1> QED
  BY <1>1, <1>2, <1>5, <1>6 DEF BooksInv

LEMMA BooksWithdraw ==
    ASSUME PoolInv, PoolInv', BooksInv, NEW u \in Users, NEW k \in ShareAmounts,
           NEW m \in [PoolTokens -> MinAmounts], Withdraw(u, k, m)
    PROVE  BooksInv'
<1> DEFINE out == [t \in PoolTokens |-> WithdrawnPart(t, k)]
           n == shares[u] - k
<1>1. /\ totalShares > 0 /\ k <= shares[u]
      /\ \A t \in PoolTokens : out[t] <= bal[Pool][t]
      /\ totalShares' = totalShares - k
      /\ shares' = [shares EXCEPT ![u] = n]
      /\ rw' = NewWorking(Checkpoint(rw, u, totalShares, shares[u]), u, totalShares', n)
      /\ bal' = Send(bal, Pool, u, out)
      /\ syncLedger' = ledger
      /\ UNCHANGED <<killed, ledger, lock>>
  BY DEF Withdraw, cfgVars, envVars
<1>2. totalShares \in Nat /\ totalShares' \in Nat /\ ledger \in Nat /\ k \in Nat
  BY PoolAssumption DEF PoolAssumption, PoolInv, PoolTypes
<1>3. /\ u \in Holders /\ Pool \in Holders /\ u # Pool /\ shares[u] \in Nat
  BY PoolAssumption DEF PoolAssumption, Holders, ShareHolders, BooksInv
<1>4. n \in Nat /\ totalShares' - totalShares = n - shares[u]
  BY <1>1, <1>2, <1>3
<1>5. NatBalances(bal')
  <2>1. out \in [PoolTokens -> Nat]
    <3> SUFFICES ASSUME NEW t \in PoolTokens PROVE WithdrawnPart(t, k) \in Nat
      OBVIOUS
    <3>1. Synced[t] * k \in Nat
      BY <1>2, SyncedFacts, MulNat
    <3> QED
      BY <1>1, <1>2, <3>1, DivFacts DEF WithdrawnPart
  <2> HIDE DEF out
  <2> QED
    BY <1>1, <1>3, <2>1, SendNat DEF BooksInv
<1> HIDE DEF n
<1>6. /\ RewardsOK(rw', shares', totalShares', ledger') /\ (Covered(rw) => Covered(rw'))
      /\ shares' \in [ShareHolders -> Nat] /\ SharesIssued'
  BY <1>1, <1>2, <1>4, SharesUpdate
<1> QED
  BY <1>1, <1>2, <1>5, <1>6 DEF BooksInv

\* A swap leaves the shares and the rewards alone.
LEMMA BooksTrade ==
    ASSUME PoolInv, BooksInv, NEW u \in Users, NEW in \in PoolTokens,
           NEW x \in Nat, NEW y \in Nat, x <= bal[u][in], NEW totalFee,
           Trade(u, in, x, y, totalFee)
    PROVE  BooksInv'
<1>1. /\ y <= bal[Pool][Other(in)]
      /\ bal' = Exchange(bal, u, in, x, y)
      /\ syncLedger' = ledger
      /\ UNCHANGED <<shares, totalShares, rw, killed, ledger, lock>>
  BY DEF Trade, cfgVars, envVars
<1>2. NatBalances(bal')
  BY <1>1, ExchangeNat DEF BooksInv
<1>3. RewardsOK(rw', shares', totalShares', ledger') /\ SharesIssued'
  BY <1>1 DEF BooksInv, SharesIssued
<1>4. ledger \in Nat
  BY DEF PoolInv, PoolTypes
<1> QED
  BY <1>1, <1>2, <1>3, <1>4 DEF BooksInv

LEMMA BooksSwap ==
    ASSUME PoolInv, BooksInv, NEW u \in Users, NEW in \in PoolTokens,
           NEW x \in SwapAmounts, NEW m \in MinAmounts, Swap(u, in, x, m)
    PROVE  BooksInv'
<1> DEFINE a == Synced[in]
           b == Synced[Other(in)]
           w == AfterFee(x)
           y == AmountOut(Synced, in, x)
<1>1. x \in Nat /\ Other(in) \in PoolTokens
  BY PoolAssumption DEF PoolAssumption, PoolTokens, Other
<1>2. a \in Nat \ {0} /\ b \in Nat \ {0} /\ x <= bal[u][in]
      /\ Trade(u, in, x, y, x - w)
  BY <1>1, SyncedFacts DEF Swap
<1>3. w \in Nat
  BY <1>1, AfterFeeFacts
<1>4. y = (w * b) \div (a + w)
  BY DEF AmountOut
<1> HIDE DEF a, b, w
<1>5. y \in Nat
  <2>1. w * b \in Nat /\ a + w \in Nat \ {0}
    BY <1>2, <1>3, MulNat
  <2> QED
    BY <1>4, <2>1, DivFacts
<1> HIDE DEF y
<1> QED
  BY <1>1, <1>2, <1>5, BooksTrade

LEMMA BooksSwapStrictReceive ==
    ASSUME PoolInv, BooksInv, NEW u \in Users, NEW in \in PoolTokens,
           NEW y \in SwapAmounts, NEW m \in SwapAmounts, SwapStrictReceive(u, in, y, m)
    PROVE  BooksInv'
<1> DEFINE a == Synced[in]
           b == Synced[Other(in)]
           net == InAfterFee(Synced, in, y)
           x == AmountIn(Synced, in, y)
           f == FeeMultiplier - FeeFraction
<1>1. /\ y \in Nat /\ m \in Nat /\ Other(in) \in PoolTokens
      /\ bal[u][in] \in Nat
      /\ FeeMultiplier \in Nat /\ f \in Nat \ {0}
  BY PoolAssumption
     DEF PoolAssumption, PoolTokens, Other, BooksInv, NatBalances, Assets, Holders
<1>2. /\ a \in Nat \ {0} /\ b \in Nat \ {0} /\ y < b
      /\ x <= m /\ m <= bal[u][in]
      /\ Trade(u, in, x, y, x - net)
  BY <1>1, SyncedFacts DEF SwapStrictReceive
<1>3. net = CeilDiv(a * y, b - y) /\ x = CeilDiv(net * FeeMultiplier, f)
  BY DEF AmountIn, InAfterFee
<1> HIDE DEF a, b, net, f
<1>4. net \in Nat
  <2>1. a * y \in Nat /\ b - y \in Nat \ {0}
    BY <1>1, <1>2, MulNat
  <2> QED
    BY <1>3, <2>1, CeilFacts DEF CeilDiv
<1>5. x \in Nat
  <2>1. net * FeeMultiplier \in Nat
    BY <1>1, <1>4, MulNat
  <2> QED
    BY <1>1, <1>3, <2>1, CeilFacts DEF CeilDiv
<1> HIDE DEF x
<1>6. x <= bal[u][in]
  BY <1>1, <1>2, <1>5
<1> QED
  BY <1>1, <1>2, <1>5, <1>6, BooksTrade

LEMMA HolderFacts ==
    ASSUME BooksInv, totalShares \in Nat, ledger \in Nat,
           NEW r, RewardsOK(r, shares, totalShares, ledger),
           NEW h \in ShareHolders, NEW n \in Nat,
           n = shares[h] \/ (r.ws # Unset /\ (h \in Users => r.wb[h] # Unset))
    PROVE  LET q == CheckpointHolder(r, h, n)
           IN /\ RewardsOK(q, shares, totalShares, ledger)
              /\ \A v \in Users : r.wb[v] # Unset \/ v = h => q.wb[v] # Unset
              /\ r.ws # Unset \/ h \in Users => q.ws # Unset
              /\ Covered(r) => Covered(q)
<1>1. CASE h \notin Users
  BY <1>1 DEF CheckpointHolder
<1>2. CASE h \in Users
  <2> DEFINE q == Checkpoint(r, h, totalShares, n)
  <2>1. CheckpointHolder(r, h, n) = q
    BY <1>2 DEF CheckpointHolder
  <2>2. (r.ws = Unset => totalShares = 0) /\ (r.wb[h] = Unset => n = 0)
    BY <1>2 DEF RewardsOK
  <2>3. lock \in [Users -> Nat]
    BY DEF BooksInv
  <2>4. /\ RewardsOK(q, shares, totalShares, ledger) /\ KnownFor(q, r, h)
        /\ Covered(r) => Covered(q)
    BY <1>2, <2>2, <2>3, CheckpointKeeps
  <2> HIDE DEF q
  <2> QED
    BY <2>1, <2>4 DEF KnownFor
<1> QED
  BY <1>1, <1>2

LEMMA BooksTransferShares ==
    ASSUME PoolInv, BooksInv, NEW u \in Users, NEW to \in ShareHolders,
           NEW n \in ShareAmounts, TransferShares(u, to, n)
    PROVE  BooksInv'
<1> DEFINE taken == [shares EXCEPT ![u] = @ - n]
           moved == [taken EXCEPT ![to] = @ + n]
           r1 == CheckpointHolder(rw, u, shares[u])
           r2 == CheckpointHolder(r1, to, shares[to])
           r3 == CheckpointHolder(r2, u, moved[u])
           r4 == CheckpointHolder(r3, to, moved[to])
<1>1. /\ n <= shares[u] /\ shares' = moved /\ rw' = r4
      /\ UNCHANGED <<bal, totalShares, syncLedger, killed, ledger, lock>>
  BY DEF TransferShares, cfgVars, envVars
<1>2. /\ totalShares \in Nat /\ ledger \in Nat /\ n \in Nat
      /\ u \in ShareHolders /\ shares[u] \in Nat /\ shares[to] \in Nat
      /\ shares[u] - n \in Nat
      /\ RewardsOK(rw, shares, totalShares, ledger)
  BY <1>1, PoolAssumption
     DEF PoolAssumption, PoolInv, PoolTypes, BooksInv, ShareHolders
<1>3. /\ taken \in [ShareHolders -> Nat]
      /\ SumFunctionOnSet(taken, ShareHolders)
           = SumFunctionOnSet(shares, ShareHolders) + (shares[u] - n) - shares[u]
      /\ SumFunctionOnSet(shares, ShareHolders) \in Nat
  BY <1>2, SharesChange DEF BooksInv
<1>4. taken[to] \in Nat /\ taken[to] + n \in Nat
  BY <1>2, <1>3
<1>5. \A v \in Users : v # u /\ v # to => moved[v] = shares[v]
  BY DEF ShareHolders, BooksInv
<1> HIDE DEF taken
<1>6. /\ moved \in [ShareHolders -> Nat]
      /\ SumFunctionOnSet(moved, ShareHolders)
           = SumFunctionOnSet(taken, ShareHolders) + (taken[to] + n) - taken[to]
      /\ SumFunctionOnSet(taken, ShareHolders) \in Nat
  BY <1>2, <1>3, <1>4, SharesChange
<1> HIDE DEF moved
<1>7. SumFunctionOnSet(moved, ShareHolders) = SumFunctionOnSet(shares, ShareHolders)
  BY <1>2, <1>3, <1>4, <1>6
<1>8. /\ RewardsOK(r1, shares, totalShares, ledger) /\ r1.ws # Unset /\ r1.wb[u] # Unset
      /\ Covered(rw) => Covered(r1)
  BY <1>2, HolderFacts
<1> HIDE DEF r1
<1>9. /\ RewardsOK(r2, shares, totalShares, ledger)
      /\ Covered(rw) => Covered(r2)
      /\ r2.ws # Unset /\ r2.wb[u] # Unset
      /\ to \in Users => r2.wb[to] # Unset
  BY <1>2, <1>8, HolderFacts
<1> HIDE DEF r2
<1>10. moved[u] \in Nat /\ moved[to] \in Nat
  BY <1>2, <1>6
<1>11. /\ RewardsOK(r3, shares, totalShares, ledger)
       /\ Covered(rw) => Covered(r3)
       /\ r3.ws # Unset /\ r3.wb[u] # Unset
       /\ to \in Users => r3.wb[to] # Unset
  BY <1>2, <1>9, <1>10, HolderFacts
<1> HIDE DEF r3
<1>12. /\ RewardsOK(r4, shares, totalShares, ledger)
       /\ Covered(rw) => Covered(r4)
       /\ r4.ws # Unset /\ r4.wb[u] # Unset
       /\ to \in Users => r4.wb[to] # Unset
  BY <1>2, <1>10, <1>11, HolderFacts
<1> HIDE DEF r4
<1>13. RewardsOK(r4, moved, totalShares, ledger)
  BY <1>5, <1>12 DEF RewardsOK
<1>14. shares' \in [ShareHolders -> Nat] /\ SharesIssued'
  BY <1>1, <1>6, <1>7 DEF SharesIssued, BooksInv
<1>15. NeverTakenBack => Covered(rw')
  BY <1>1, <1>12 DEF BooksInv
<1> QED
  BY <1>1, <1>13, <1>14, <1>15 DEF BooksInv

\* A burn at the token takes shares away without the pool: what was issued is
\* then less than TotalShares.
LEMMA BooksBurnShares ==
    ASSUME PoolInv, BooksInv, NEW u \in Users, NEW n \in ShareAmounts, BurnShares(u, n)
    PROVE  BooksInv'
<1> DEFINE left == shares[u] - n
<1>1. /\ n <= shares[u]
      /\ shares' = [shares EXCEPT ![u] = left]
      /\ UNCHANGED <<bal, totalShares, syncLedger, rw, killed, ledger, lock>>
  BY DEF BurnShares, cfgVars, envVars
<1>2. /\ u \in ShareHolders /\ shares[u] \in Nat /\ n \in Nat /\ left \in Nat
      /\ totalShares \in Nat /\ left <= shares[u]
  BY <1>1, PoolAssumption
     DEF PoolAssumption, BooksInv, ShareHolders, PoolInv, PoolTypes
<1> HIDE DEF left
<1>3. /\ shares' \in [ShareHolders -> Nat]
      /\ SumFunctionOnSet(shares', ShareHolders)
           = SumFunctionOnSet(shares, ShareHolders) + left - shares[u]
      /\ SumFunctionOnSet(shares, ShareHolders) \in Nat
  BY <1>1, <1>2, SharesChange DEF BooksInv
<1>4. SumFunctionOnSet(shares', ShareHolders) <= totalShares
  <2>1. SumFunctionOnSet(shares, ShareHolders) <= totalShares
    BY DEF BooksInv, SharesIssued
  <2> QED
    BY <1>2, <1>3, <2>1
<1>5. SharesIssued'
  BY <1>1, <1>4 DEF SharesIssued
<1>6. \A v \in Users : rw.wb[v] = Unset => shares'[v] = 0
  <2> SUFFICES ASSUME NEW v \in Users, rw.wb[v] = Unset PROVE shares'[v] = 0
    OBVIOUS
  <2>1. shares[v] = 0
    BY DEF BooksInv, RewardsOK
  <2>2. v # u => shares'[v] = shares[v]
    BY <1>1 DEF BooksInv, ShareHolders
  <2>3. v = u => shares'[v] = left
    BY <1>1, <1>2 DEF BooksInv
  <2> QED
    BY <1>2, <2>1, <2>2, <2>3
<1>7. RewardsOK(rw', shares', totalShares', ledger')
  BY <1>1, <1>6 DEF BooksInv, RewardsOK
<1> QED
  BY <1>1, <1>3, <1>5, <1>7 DEF BooksInv

\* A call that changes the rewards and perhaps the balances.
LEMMA BooksRewards ==
    ASSUME PoolInv, BooksInv, NatBalances(bal'),
           RewardsOK(rw', shares, totalShares, ledger),
           NeverTakenBack /\ Covered(rw) => Covered(rw'),
           UNCHANGED <<shares, totalShares, syncLedger, killed, ledger, lock>>
    PROVE  BooksInv'
BY DEF BooksInv, SharesIssued

\* The user's own checkpoint, in the calls that begin with one.
LEMMA DueFacts ==
    ASSUME PoolInv, BooksInv, NEW u \in Users
    PROVE  /\ RewardsOK(Checkpoint(rw, u, totalShares, shares[u]), shares, totalShares, ledger)
           /\ Covered(rw) => Covered(Checkpoint(rw, u, totalShares, shares[u]))
<1>1. /\ totalShares \in Nat /\ ledger \in Nat /\ lock \in [Users -> Nat]
      /\ RewardsOK(rw, shares, totalShares, ledger)
      /\ shares[u] \in Nat
      /\ (rw.ws = Unset => totalShares = 0) /\ (rw.wb[u] = Unset => shares[u] = 0)
  BY DEF PoolInv, PoolTypes, BooksInv, RewardsOK, ShareHolders
<1> QED
  BY <1>1, CheckpointKeeps

LEMMA BooksClaim ==
    ASSUME PoolInv, BooksInv, NEW u \in Users, Claim(u)
    PROVE  BooksInv'
<1> DEFINE due == Checkpoint(rw, u, totalShares, shares[u])
           paid == due.user[u].toClaim
<1>1. /\ paid <= bal[Pool][RewardToken]
      /\ bal' = Move(bal, Pool, u, RewardToken, paid)
      /\ rw' = PayUser(due, u)
      /\ UNCHANGED <<shares, totalShares, syncLedger, killed, ledger, lock>>
  BY DEF Claim, cfgVars, envVars
<1>2. RewardsOK(due, shares, totalShares, ledger) /\ (Covered(rw) => Covered(due))
  BY DueFacts
<1> HIDE DEF due
<1>3. /\ RewardsOK(rw', shares, totalShares, ledger) /\ paid \in Nat
      /\ Covered(rw) => Covered(rw')
  BY <1>1, <1>2, PayUserFacts
<1>4. u \in Holders /\ Pool \in Holders /\ u # Pool /\ RewardToken \in Assets
  BY PoolAssumption DEF PoolAssumption, Holders, Assets
<1> HIDE DEF paid
<1>5. NatBalances(bal')
  BY <1>1, <1>3, <1>4, MoveNat DEF BooksInv
<1> QED
  BY <1>1, <1>3, <1>5, BooksRewards

LEMMA BooksSetRewardsState ==
    ASSUME PoolInv, BooksInv, NEW u \in Users, NEW state \in RewardSwitches,
           SetRewardsState(u, state)
    PROVE  BooksInv'
<1> DEFINE i == InitWorking(rw, u, totalShares, shares[u])
           q == SetUserRewardsState(i, u, shares[u], state)
<1>1. /\ rw' = Checkpoint(q, u, totalShares, shares[u])
      /\ UNCHANGED <<bal, shares, totalShares, syncLedger, killed, ledger, lock>>
  BY DEF SetRewardsState, ammVars, cfgVars, envVars
<1>2. /\ totalShares \in Nat /\ ledger \in Nat /\ lock \in [Users -> Nat]
      /\ RewardsOK(rw, shares, totalShares, ledger) /\ rw \in RewardState
      /\ shares[u] \in Nat /\ state \in BOOLEAN
      /\ (rw.ws = Unset => totalShares = 0) /\ (rw.wb[u] = Unset => shares[u] = 0)
  BY PoolAssumption
     DEF PoolAssumption, PoolInv, PoolTypes, BooksInv, RewardsOK, ShareHolders
<1>3. /\ i \in RewardState /\ Balanced(i) /\ i.ws \in Nat /\ i.wb[u] \in Nat
      /\ \A v \in Users : v # u => i.wb[v] = rw.wb[v]
      /\ SameBut(i, rw) /\ Working(i) = Working(rw)
  <2>1. Balanced(rw)
    BY <1>2 DEF RewardsOK
  <2> QED
    BY <1>2, <2>1, InitWorkingFacts
<1> HIDE DEF i
<1>4. RewardsOK(i, shares, totalShares, ledger) /\ (Covered(rw) => Covered(i))
  <2>1. RewardsOK(i, shares, totalShares, ledger)
    BY <1>2, <1>3 DEF RewardsOK, SameBut, Unset
  <2>2. Covered(rw) => Covered(i)
    BY <1>3, SameCovered DEF SameAccounts, SameBut, Covered
  <2> QED
    BY <2>1, <2>2
<1>5. /\ RewardsOK(q, shares, totalShares, ledger) /\ SameBooks(q, i)
      /\ Covered(i) => Covered(q)
  BY <1>2, <1>4, SetUserRewardsStateFacts
<1> HIDE DEF q
<1>6. q.ws # Unset /\ q.wb[u] # Unset
  BY <1>3, <1>5 DEF SameBooks, Unset
<1>7. RewardsOK(rw', shares, totalShares, ledger) /\ (Covered(rw) => Covered(rw'))
  BY <1>1, <1>2, <1>4, <1>5, <1>6, CheckpointKeeps
<1>8. NatBalances(bal')
  BY <1>1 DEF BooksInv
<1> QED
  BY <1>1, <1>7, <1>8, BooksRewards

LEMMA BooksReturnUnused ==
    ASSUME PoolInv, BooksInv, NEW caller, ReturnUnusedReward(caller)
    PROVE  BooksInv'
<1> DEFINE r == UpdatePool(rw, ledger, totalShares)
           owed == TotalConfigured(r, ledger) - r.claimed
           kept == IF RewardToken \in PoolTokens THEN reserve[RewardToken] ELSE 0
           have == bal[Pool][RewardToken]
           n == MaxOf(0, have - (owed + kept))
<1>1. /\ TotalConfigured(r, ledger) >= r.claimed
      /\ rw' = r
      /\ bal' = Move(bal, Pool, Outside, RewardToken, n)
      /\ UNCHANGED <<shares, totalShares, syncLedger, killed, ledger, lock>>
  BY DEF ReturnUnusedReward, UnusedReward, cfgVars, envVars
<1>2. /\ totalShares \in Nat /\ ledger \in Nat
      /\ RewardsOK(rw, shares, totalShares, ledger)
      /\ have \in Nat /\ kept \in Nat
      /\ Outside \in Holders /\ Pool \in Holders /\ Pool # Outside
      /\ RewardToken \in Assets
  BY PoolAssumption
     DEF PoolAssumption, PoolInv, PoolTypes, BooksInv, NatBalances, Holders, Assets
<1>3. RewardsOK(r, shares, totalShares, ledger) /\ (Covered(rw) => Covered(r))
  BY <1>2, UpdatePoolFacts
<1> HIDE DEF r
<1>4. TotalConfigured(r, ledger) \in Nat /\ r.claimed \in Nat
  <2>1. /\ r.acc \in Nat /\ r.claimed \in Nat /\ r.tps \in Nat /\ r.expiredAt \in Nat
    BY <1>3 DEF RewardsOK, RewardState
  <2>2. ~(r.expiredAt <= ledger) => (r.expiredAt - ledger) * r.tps \in Nat
    <3>1. ~(r.expiredAt <= ledger) => r.expiredAt - ledger \in Nat
      BY <1>2, <2>1
    <3> QED
      BY <2>1, <3>1, MulNat
  <2> QED
    BY <2>1, <2>2 DEF TotalConfigured
<1>5. owed \in Nat
  BY <1>1, <1>4
<1> HIDE DEF owed, kept
<1>6. n \in Nat /\ n <= have
  <2> HIDE DEF have
  <2> QED BY <1>2, <1>5 DEF MaxOf
<1> HIDE DEF n
<1>7. NatBalances(bal')
  BY <1>1, <1>2, <1>6, MoveNat DEF BooksInv
<1> QED
  BY <1>1, <1>3, <1>7, BooksRewards

\* The calls that leave the shares and the rewards alone.
LEMMA BooksAside ==
    ASSUME BooksInv, NatBalances(bal'), killed' \in [Switches -> BOOLEAN],
           syncLedger' \in Nat, UNCHANGED <<shares, totalShares, rw, ledger, lock>>
    PROVE  BooksInv'
BY DEF BooksInv, SharesIssued

LEMMA BooksClaimFees ==
    ASSUME PoolInv, BooksInv, NEW caller, ClaimProtocolFees(caller)
    PROVE  BooksInv'
<1>1. /\ \A t \in PoolTokens : fee[t] <= bal[Pool][t]
      /\ bal' = Send(bal, Pool, Outside, fee)
      /\ UNCHANGED <<shares, totalShares, syncLedger, rw, killed, ledger, lock>>
  BY DEF ClaimProtocolFees, cfgVars, envVars
<1>2. /\ Pool \in Holders /\ Outside \in Holders /\ Pool # Outside
      /\ fee \in [PoolTokens -> Nat]
  BY PoolAssumption DEF PoolAssumption, Holders, PoolInv, PoolTypes
<1>3. NatBalances(bal')
  BY <1>1, <1>2, SendNat DEF BooksInv
<1> QED
  BY <1>1, <1>3, BooksAside DEF BooksInv

LEMMA BooksSendToPool ==
    ASSUME PoolInv, BooksInv, NEW from \in Users \cup {Outside}, NEW t \in Assets,
           NEW n \in GiftAmounts, SendToPool(from, t, n)
    PROVE  BooksInv'
<1>1. /\ n <= bal[from][t]
      /\ bal' = Move(bal, from, Pool, t, n)
      /\ UNCHANGED <<shares, totalShares, syncLedger, rw, killed, ledger, lock>>
  BY DEF SendToPool, cfgVars, envVars
<1>2. from \in Holders /\ Pool \in Holders /\ from # Pool /\ n \in Nat
  BY PoolAssumption DEF PoolAssumption, Holders
<1>3. NatBalances(bal')
  BY <1>1, <1>2, MoveNat DEF BooksInv
<1> QED
  BY <1>1, <1>3, BooksAside DEF BooksInv

\* Neither does time, nor a lock that changes behind the pool's back.
LEMMA BooksSurroundings ==
    ASSUME BooksInv, ledger \in Nat, ledger' \in Nat, ledger <= ledger',
           lock' \in [Users -> Nat],
           UNCHANGED <<bal, shares, totalShares, syncLedger, rw, killed>>
    PROVE  BooksInv'
<1>1. rw.lastTime \in Nat /\ rw.lastTime <= ledger
  BY DEF BooksInv, RewardsOK, RewardState
<1>2. rw.lastTime <= ledger'
  BY <1>1
<1>3. RewardsOK(rw', shares', totalShares', ledger')
  BY <1>2 DEF BooksInv, RewardsOK
<1> QED
  BY <1>3 DEF BooksInv, SharesIssued

LEMMA BooksUserStep == PoolInv /\ PoolInv' /\ BooksInv /\ UserStep => BooksInv'
<1> SUFFICES ASSUME PoolInv, PoolInv', BooksInv, NEW u \in Users,
       \/ \E d \in [PoolTokens -> DepositAmounts], m \in MinAmounts : Deposit(u, d, m)
       \/ \E t \in PoolTokens, n \in SwapAmounts, m \in MinAmounts : Swap(u, t, n, m)
       \/ \E t \in PoolTokens, n, m \in SwapAmounts : SwapStrictReceive(u, t, n, m)
       \/ \E n \in ShareAmounts, m \in [PoolTokens -> MinAmounts] : Withdraw(u, n, m)
       \/ \E to \in ShareHolders, n \in ShareAmounts : TransferShares(u, to, n)
       \/ \E n \in ShareAmounts : BurnShares(u, n)
     PROVE BooksInv'
  BY DEF UserStep
<1> QED
  BY BooksDeposit, BooksSwap, BooksSwapStrictReceive, BooksWithdraw,
     BooksTransferShares, BooksBurnShares

LEMMA BooksRewardStep == PoolInv /\ BooksInv /\ RewardStep => BooksInv'
<1> SUFFICES ASSUME PoolInv, BooksInv, RewardStep PROVE BooksInv'
  OBVIOUS
<1>1. /\ totalShares \in Nat /\ ledger \in Nat
      /\ RewardsOK(rw, shares, totalShares, ledger) /\ NatBalances(bal)
  BY DEF PoolInv, PoolTypes, BooksInv
<1>2. ASSUME NEW u \in Users, GetUserReward(u) PROVE BooksInv'
  <2>1. /\ rw' = Checkpoint(rw, u, totalShares, shares[u])
        /\ UNCHANGED <<bal, shares, totalShares, syncLedger, killed, ledger, lock>>
    BY <1>2 DEF GetUserReward, ammVars, cfgVars, envVars
  <2> QED
    BY <1>1, <2>1, DueFacts, BooksRewards
<1>3. ASSUME GetPoolRewards PROVE BooksInv'
  <2>1. /\ rw' = UpdatePool(rw, ledger, totalShares)
        /\ UNCHANGED <<bal, shares, totalShares, syncLedger, killed, ledger, lock>>
    BY <1>3 DEF GetPoolRewards, ammVars, cfgVars, envVars
  <2> QED
    BY <1>1, <2>1, UpdatePoolFacts, BooksRewards
<1> QED
  BY <1>2, <1>3, BooksClaim, BooksSetRewardsState DEF RewardStep

LEMMA BooksAdminStep == PoolInv /\ BooksInv /\ AdminStep => BooksInv'
<1> SUFFICES ASSUME PoolInv, BooksInv, NEW caller \in Callers,
       \/ \E f \in ProtocolFractions : SetProtocolFeeFraction(caller, f)
       \/ ClaimProtocolFees(caller)
       \/ \E s \in Switches : Kill(caller, s) \/ Unkill(caller, s)
       \/ \E e \in Expirations, tps \in TpsValues : SetRewardsConfig(caller, e, tps)
       \/ ReturnUnusedReward(caller)
       \/ \E diff \in Diffs : AdjustTotalAccumulatedReward(caller, diff)
     PROVE BooksInv'
  BY DEF AdminStep
<1>1. /\ totalShares \in Nat /\ ledger \in Nat
      /\ RewardsOK(rw, shares, totalShares, ledger) /\ NatBalances(bal)
      /\ killed \in [Switches -> BOOLEAN] /\ syncLedger \in Nat
  BY DEF PoolInv, PoolTypes, BooksInv
<1>2. ASSUME NEW f \in ProtocolFractions, SetProtocolFeeFraction(caller, f)
      PROVE  BooksInv'
  BY <1>1, <1>2, BooksAside DEF SetProtocolFeeFraction, ammVars, envVars
<1>3. ASSUME NEW s \in Switches, Kill(caller, s) \/ Unkill(caller, s) PROVE BooksInv'
  <2>1. /\ killed' \in [Switches -> BOOLEAN]
        /\ UNCHANGED <<bal, shares, totalShares, syncLedger, rw, ledger, lock>>
    BY <1>1, <1>3 DEF Kill, Unkill, ammVars, envVars
  <2> QED
    BY <1>1, <2>1, BooksAside
<1>4. ASSUME NEW e \in Expirations, NEW tps \in TpsValues, SetRewardsConfig(caller, e, tps)
      PROVE  BooksInv'
  <2>1. /\ e \in Nat /\ tps \in Nat
        /\ rw' = SetRewardConfig(rw, ledger, totalShares, e, tps)
        /\ UNCHANGED <<bal, shares, totalShares, syncLedger, killed, ledger, lock>>
    BY <1>4, PoolAssumption DEF SetRewardsConfig, PoolAssumption, ammVars, cfgVars, envVars
  <2> QED
    BY <1>1, <2>1, SetRewardConfigFacts, BooksRewards
<1>5. ASSUME NEW diff \in Diffs, AdjustTotalAccumulatedReward(caller, diff)
      PROVE  BooksInv'
  <2>1. /\ diff \in Int
        /\ NeverTakenBack => diff >= 0
        /\ UpdatePool(rw, ledger, totalShares).acc + diff \in Nat
        /\ rw' = AdjustAccumulated(rw, ledger, totalShares, diff)
        /\ UNCHANGED <<bal, shares, totalShares, syncLedger, killed, ledger, lock>>
    BY <1>5, PoolAssumption
       DEF AdjustTotalAccumulatedReward, PoolAssumption, NeverTakenBack,
           ammVars, cfgVars, envVars
  <2> QED
    BY <1>1, <2>1, AdjustFacts, BooksRewards
<1> QED
  BY <1>2, <1>3, <1>4, <1>5, BooksClaimFees, BooksReturnUnused

LEMMA BooksEnvStep == PoolInv /\ BooksInv /\ EnvStep => BooksInv'
<1> SUFFICES ASSUME PoolInv, BooksInv, EnvStep PROVE BooksInv'
  OBVIOUS
<1>1. /\ ledger \in Nat /\ NatBalances(bal) /\ lock \in [Users -> Nat]
      /\ killed \in [Switches -> BOOLEAN] /\ syncLedger \in Nat
  BY DEF PoolInv, PoolTypes, BooksInv
<1>2. ASSUME SyncReserves PROVE BooksInv'
  BY <1>1, <1>2, BooksAside DEF SyncReserves, cfgVars, envVars
<1>3. ASSUME BackfillPlane PROVE BooksInv'
  BY <1>1, <1>3, BooksAside DEF BackfillPlane, cfgVars, envVars
<1>4. ASSUME NEW u \in Users, NEW n \in LockAmounts, ChangeLock(u, n) PROVE BooksInv'
  <2>1. /\ lock' \in [Users -> Nat] /\ ledger' = ledger
        /\ UNCHANGED <<bal, shares, totalShares, syncLedger, rw, killed>>
    BY <1>1, <1>4, PoolAssumption DEF ChangeLock, PoolAssumption, ammVars, cfgVars
  <2> QED
    BY <1>1, <2>1, BooksSurroundings
<1>5. ASSUME NextLedger PROVE BooksInv'
  <2>1. /\ ledger' = ledger + 1 /\ UNCHANGED lock
        /\ UNCHANGED <<bal, shares, totalShares, syncLedger, rw, killed>>
    BY <1>5 DEF NextLedger, ammVars, cfgVars
  <2> QED
    BY <1>1, <2>1, BooksSurroundings
<1> QED
  BY <1>2, <1>3, <1>4, <1>5, BooksSendToPool DEF EnvStep

LEMMA BooksStep == PoolInv /\ BooksInv /\ [Next]_vars => BooksInv'
<1> SUFFICES ASSUME PoolInv, BooksInv, [Next]_vars PROVE BooksInv'
  OBVIOUS
<1>1. PoolInv'
  BY PoolStep
<1>2. CASE UNCHANGED vars
  <2>1. UNCHANGED <<bal, shares, totalShares, syncLedger, rw, killed, ledger, lock>>
    BY <1>2 DEF vars
  <2> QED
    BY <2>1, BooksAside DEF BooksInv
<1> QED
  BY <1>1, <1>2, BooksUserStep, BooksRewardStep, BooksAdminStep, BooksEnvStep DEF Next

LEMMA BooksInvariant == Spec => [](PoolInv /\ BooksInv)
<1>1. Init => PoolInv /\ BooksInv
  BY PoolInit, BooksInit
<1>2. (PoolInv /\ BooksInv) /\ [Next]_vars => (PoolInv /\ BooksInv)'
  BY PoolStep, BooksStep
<1> QED
  BY <1>1, <1>2, PTL DEF Spec

-----------------------------------------------------------------------------
(* The theorems                                                            *)

\* Every value the contract stores is in its type: no balance, reserve, fee or
\* number of shares, and no part of the reward state, is ever negative, so
\* that no unsigned subtraction a call relies on underflows.
THEOREM PoolTypeCorrect == Spec => []TypeOK
<1>1. PoolInv /\ BooksInv => TypeOK
  <2> SUFFICES ASSUME PoolInv, BooksInv PROVE TypeOK
    OBVIOUS
  <2>1. bal \in [Holders -> [Assets -> Nat]]
    <3>1. \A h \in Holders : bal[h] \in [Assets -> Nat]
      BY DEF BooksInv, NatBalances, Shaped
    <3> QED
      BY <3>1 DEF BooksInv, NatBalances, Shaped
  <2> QED
    BY <2>1 DEF TypeOK, PoolInv, PoolTypes, BooksInv, RewardsOK
<1> QED
  BY BooksInvariant, <1>1, PTL

\* The working supply that the rewards are divided by is the sum of the working
\* balances they are multiplied with (manager.rs, update_working_balance).
THEOREM SupplyIsTheSum == Spec => []WorkingSupplyIsSum
<1>1. BooksInv => WorkingSupplyIsSum
  BY DEF BooksInv, RewardsOK, Balanced, Working, WorkingSupplyIsSum
<1> QED
  BY BooksInvariant, <1>1, PTL

\* No holder of shares is without a stored working balance: the defaults of
\* get_working_balance (manager.rs) are only ever taken for somebody with none.
THEOREM DefaultsAreZero == Spec => []DefaultsNeverUsed
<1>1. BooksInv => DefaultsNeverUsed
  BY DEF BooksInv, RewardsOK, DefaultsNeverUsed
<1> QED
  BY BooksInvariant, <1>1, PTL

\* The share token never holds more than the pool's TotalShares counts.
THEOREM IssuedWithinTotal == Spec => []SharesIssued
<1>1. BooksInv => SharesIssued
  BY DEF BooksInv
<1> QED
  BY BooksInvariant, <1>1, PTL

\* What a user could claim, at the scale of the reward-per-share values, is at
\* most his pot.
LEMMA ClaimableWithinPot ==
    ASSUME NEW r \in RewardState, \A v \in Users : r.user[v].lastCum <= r.cum,
           NothingHidden(r), NEW u \in Users
    PROVE  /\ Claimable(r, u) \in Nat
           /\ RewardPrecision * Claimable(r, u) <= Pots(r, Working(r))[u]
<1> DEFINE d == r.user[u]
           due == (r.cum - d.lastCum) * r.wb[u]
           n == due \div RewardPrecision
<1>1. /\ d.toClaim \in Nat /\ d.lastCum \in Nat /\ r.cum \in Nat /\ d.lastCum <= r.cum
      /\ RewardPrecision \in Nat \ {0} /\ r.wb[u] \in Nat \cup {Unset}
  BY RewardPrecisionAssumption DEF RewardState, UserReward
<1>2. Pots(r, Working(r))[u] = RewardPrecision * d.toClaim
        + IF d.seen THEN (r.cum - d.lastCum) * Stored(r.wb[u]) ELSE 0
  BY DEF Pots, Working
<1>3. r.cum - d.lastCum \in Nat /\ RewardPrecision * d.toClaim \in Nat
  BY <1>1
<1>4. CASE d.seen /\ d.poolAcc # r.acc /\ r.wb[u] # Unset
  <2>1. Stored(r.wb[u]) = r.wb[u] /\ r.wb[u] \in Nat
    BY <1>1, <1>4 DEF Stored
  <2>2. due \in Nat
    BY <1>3, <2>1, MulNat
  <2>3. n \in Nat /\ RewardPrecision * n <= due
    <3> HIDE DEF due
    <3>1. n \in Nat /\ n * RewardPrecision <= due
      BY <1>1, <2>2, DivFacts
    <3> HIDE DEF n
    <3> QED BY <1>1, <3>1
  <2>4. Claimable(r, u) = d.toClaim + n
    BY <1>4 DEF Claimable, NewUserReward
  <2>5. Pots(r, Working(r))[u] = RewardPrecision * d.toClaim + due
    BY <1>2, <1>4, <2>1
  <2> HIDE DEF due, n
  <2>6. RewardPrecision * (d.toClaim + n) = RewardPrecision * d.toClaim + RewardPrecision * n
    BY <1>1, <2>3
  <2>7. RewardPrecision * n \in Int
    BY <1>1, <2>3
  <2> QED
    BY <1>1, <1>3, <2>2, <2>3, <2>4, <2>5, <2>6, <2>7
<1>5. CASE ~(d.seen /\ d.poolAcc # r.acc /\ r.wb[u] # Unset)
  <2>1. Claimable(r, u) = d.toClaim
    BY <1>5 DEF Claimable
  <2>2. (r.cum - d.lastCum) * Stored(r.wb[u]) >= 0
    <3>1. Stored(r.wb[u]) \in Nat
      BY <1>1 DEF Stored
    <3> QED
      BY <1>3, <3>1, MulNat
  <2>3. (r.cum - d.lastCum) * Stored(r.wb[u]) \in Int
    <3>1. Stored(r.wb[u]) \in Nat
      BY <1>1 DEF Stored
    <3> QED
      BY <1>3, <3>1, MulNat
  <2> QED
    BY <1>1, <1>2, <1>3, <2>1, <2>2, <2>3
<1> QED
  BY <1>4, <1>5

\* Where administrators only add to the accumulated total, what all users can
\* claim and what was claimed was generated: through any order of deposits,
\* withdrawals, transfers of shares, opt-outs, boosts and configurations, each
\* reward value is multiplied with balances that sum up to the supply it was
\* divided by (manager.rs, checkpoint_user and update_working_balance).
THEOREM RewardsAlwaysCovered ==
    ASSUME NeverTakenBack
    PROVE  Spec => []RewardsCovered
<1>1. BooksInv => RewardsCovered
  <2> SUFFICES ASSUME BooksInv PROVE RewardsCovered
    OBVIOUS
  <2> DEFINE f == [u \in Users |-> Claimable(rw, u)]
             g == Pots(rw, Working(rw))
             a == SumFunctionOnSet(f, Users)
             b == SumFunctionOnSet(g, Users)
  <2>1. /\ rw \in RewardState /\ \A v \in Users : rw.user[v].lastCum <= rw.cum
        /\ Covered(rw) /\ NothingHidden(rw)
    BY DEF BooksInv, RewardsOK, Covered, CoveredBy
  <2>2. f \in [Users -> Int] /\ \A u \in Users : RewardPrecision * f[u] <= g[u]
    BY <2>1, ClaimableWithinPot
  <2>3. g \in [Users -> Int] /\ b \in Int
    BY <2>1, PotsType, WorkingType
  <2>4. RewardPrecision \in Nat \ {0} /\ rw.claimed \in Nat /\ rw.acc \in Nat
    BY <2>1, RewardPrecisionAssumption DEF RewardState
  <2> HIDE DEF f, g
  <2>5. a \in Int /\ RewardPrecision * a <= b
    BY <2>2, <2>3, <2>4, SumInt, SumScaled, UsersAssumption
  <2>6. RewardPrecision * rw.claimed + b <= RewardPrecision * rw.acc
    BY <2>1 DEF Covered, CoveredBy, g
  <2> HIDE DEF a, b
  <2>7. RewardPrecision * (rw.claimed + a) <= RewardPrecision * rw.acc
    <3>1. RewardPrecision * (rw.claimed + a)
            = RewardPrecision * rw.claimed + RewardPrecision * a
      BY <2>4, <2>5
    <3>2. /\ RewardPrecision * rw.claimed \in Int /\ RewardPrecision * a \in Int
          /\ RewardPrecision * rw.acc \in Int
      BY <2>4, <2>5
    <3> QED
      BY <2>3, <2>5, <2>6, <3>1, <3>2
  <2>8. rw.claimed + a <= rw.acc
    BY <2>4, <2>5, <2>7
  <2> QED
    BY <2>8 DEF RewardsCovered, a, f
<1> QED
  BY BooksInvariant, <1>1, PTL

-----------------------------------------------------------------------------
(* What each call does to the rewards                                      *)

\* The call brings the rewards up to date; it does not look at them.
RewardsBrought == ledger' = ledger /\ Brought(rw', rw, ledger, totalShares)
RewardsIdle == UNCHANGED <<rw, ledger, totalShares>>

LEMMA CheckpointBrought ==
    ASSUME PoolInv, BooksInv, NEW r, RewardsOK(r, shares, totalShares, ledger),
           NEW u \in Users, NEW n \in Nat, r.wb[u] = Unset => n = 0
    PROVE  /\ Brought(Checkpoint(r, u, totalShares, n), r, ledger, totalShares)
           /\ RewardsOK(Checkpoint(r, u, totalShares, n), shares, totalShares, ledger)
           /\ KnownFor(Checkpoint(r, u, totalShares, n), r, u)
           /\ Covered(r) => /\ CaughtUp(Checkpoint(r, u, totalShares, n), u)
                            /\ Due(UpdatePool(r, ledger, totalShares), u)
                                 = Checkpoint(r, u, totalShares, n).user[u].toClaim
           /\ \A v \in Users : v # u =>
                Checkpoint(r, u, totalShares, n).user[v] = r.user[v]
<1> DEFINE q == Checkpoint(r, u, totalShares, n)
<1>1. /\ totalShares \in Nat /\ ledger \in Nat /\ lock \in [Users -> Nat]
      /\ r.ws = Unset => totalShares = 0
  BY DEF PoolInv, PoolTypes, BooksInv, RewardsOK
<1>2. TotalLocked \in Nat
  BY <1>1, LockedType
<1>3. q = CheckpointUser(r, lock, TotalLocked, ledger, u, totalShares, n)
  BY DEF Checkpoint
<1>4. /\ RewardsOK(q, shares, totalShares, ledger) /\ KnownFor(q, r, u)
      /\ Covered(r) => Covered(q) /\ CaughtUp(q, u)
  BY <1>1, CheckpointKeeps
<1>5. /\ Brought(q, r, ledger, totalShares)
      /\ Covered(r) => Due(UpdatePool(r, ledger, totalShares), u) = q.user[u].toClaim
      /\ \A v \in Users : v # u => q.user[v] = r.user[v]
  BY <1>1, <1>2, <1>3, CheckpointBrings
<1> HIDE DEF q
<1> QED
  BY <1>4, <1>5 DEF q

LEMMA SharesUpdateBrought ==
    ASSUME PoolInv, BooksInv, NEW u \in Users, NEW n \in Nat, NEW total \in Nat,
           rw' = NewWorking(Checkpoint(rw, u, totalShares, shares[u]), u, total, n),
           UNCHANGED ledger
    PROVE  RewardsBrought
<1> DEFINE due == Checkpoint(rw, u, totalShares, shares[u])
<1>1. /\ totalShares \in Nat /\ ledger \in Nat /\ lock \in [Users -> Nat]
      /\ RewardsOK(rw, shares, totalShares, ledger)
      /\ shares[u] \in Nat /\ (rw.wb[u] = Unset => shares[u] = 0)
  BY DEF PoolInv, PoolTypes, BooksInv, RewardsOK, ShareHolders
<1>2. TotalLocked \in Nat
  BY <1>1, LockedType
<1>3. /\ Brought(due, rw, ledger, totalShares)
      /\ RewardsOK(due, shares, totalShares, ledger)
      /\ KnownFor(due, rw, u)
  BY <1>1, CheckpointBrought
<1>4. Covered(rw) => CaughtUp(due, u)
  BY <1>1, CheckpointBrought
<1> HIDE DEF due
<1>5. due.ws # Unset /\ due.wb[u] # Unset /\ UpToDate(due, ledger)
  BY <1>3 DEF KnownFor, Brought
<1>6. Brought(rw', rw, ledger, totalShares)
  BY <1>1, <1>2, <1>3, <1>4, <1>5, NewWorkingBrings DEF NewWorking, due
<1> QED
  BY <1>6 DEF RewardsBrought

LEMMA HolderBrought ==
    ASSUME PoolInv, BooksInv, NEW r, RewardsOK(r, shares, totalShares, ledger),
           Brought(r, rw, ledger, totalShares),
           NEW h \in ShareHolders, NEW n \in Nat, h \in Users /\ r.wb[h] = Unset => n = 0
    PROVE  Brought(CheckpointHolder(r, h, n), rw, ledger, totalShares)
<1>1. CASE h \notin Users
  BY <1>1 DEF CheckpointHolder
<1>2. CASE h \in Users
  <2> DEFINE q == Checkpoint(r, h, totalShares, n)
  <2>1. Brought(q, r, ledger, totalShares) /\ RewardsOK(q, shares, totalShares, ledger)
    BY <1>2, CheckpointBrought
  <2>2. CheckpointHolder(r, h, n) = q
    BY <1>2 DEF CheckpointHolder
  <2>3. /\ totalShares \in Nat /\ ledger \in Nat
        /\ RewardsOK(rw, shares, totalShares, ledger)
    BY DEF PoolInv, PoolTypes, BooksInv
  <2> HIDE DEF q
  <2> QED
    BY <2>1, <2>2, <2>3, BroughtTrans
<1> QED
  BY <1>1, <1>2

\* The four checkpoints of a transfer.
LEMMA TransferBrought ==
    ASSUME PoolInv, BooksInv, NEW u \in Users, NEW to \in ShareHolders,
           NEW n \in ShareAmounts, TransferShares(u, to, n)
    PROVE  RewardsBrought
<1> DEFINE taken == [shares EXCEPT ![u] = @ - n]
           moved == [taken EXCEPT ![to] = @ + n]
           r1 == CheckpointHolder(rw, u, shares[u])
           r2 == CheckpointHolder(r1, to, shares[to])
           r3 == CheckpointHolder(r2, u, moved[u])
           r4 == CheckpointHolder(r3, to, moved[to])
<1>1. /\ n <= shares[u] /\ rw' = r4 /\ UNCHANGED ledger
  BY DEF TransferShares, cfgVars, envVars
<1>2. /\ totalShares \in Nat /\ ledger \in Nat /\ n \in Nat
      /\ u \in ShareHolders /\ shares[u] \in Nat /\ shares[to] \in Nat
      /\ shares[u] - n \in Nat
      /\ RewardsOK(rw, shares, totalShares, ledger)
      /\ \A v \in Users : rw.wb[v] = Unset => shares[v] = 0
  BY <1>1, PoolAssumption
     DEF PoolAssumption, PoolInv, PoolTypes, BooksInv, ShareHolders, RewardsOK
<1>3. moved[u] \in Nat /\ moved[to] \in Nat
  <2>1. taken \in [ShareHolders -> Nat]
    BY <1>2 DEF BooksInv
  <2> HIDE DEF taken
  <2> QED
    BY <1>2, <2>1
<1> HIDE DEF moved
<1>4. /\ RewardsOK(r1, shares, totalShares, ledger) /\ r1.ws # Unset /\ r1.wb[u] # Unset
      /\ Brought(r1, rw, ledger, totalShares)
  <2>1. Brought(r1, rw, ledger, totalShares)
    BY <1>2, CheckpointBrought DEF CheckpointHolder
  <2> QED
    BY <1>2, <2>1, HolderFacts
<1> HIDE DEF r1
<1>5. /\ RewardsOK(r2, shares, totalShares, ledger)
      /\ r2.ws # Unset /\ r2.wb[u] # Unset
      /\ to \in Users => r2.wb[to] # Unset
  BY <1>2, <1>4, HolderFacts
<1>6. Brought(r2, rw, ledger, totalShares)
  <2>1. to \in Users /\ r1.wb[to] = Unset => shares[to] = 0
    BY <1>4 DEF RewardsOK
  <2> QED
    BY <1>2, <1>4, <2>1, HolderBrought
<1> HIDE DEF r2
<1>7. /\ RewardsOK(r3, shares, totalShares, ledger)
      /\ r3.ws # Unset /\ r3.wb[u] # Unset
      /\ to \in Users => r3.wb[to] # Unset
  BY <1>2, <1>3, <1>5, HolderFacts
<1>8. Brought(r3, rw, ledger, totalShares)
  BY <1>2, <1>3, <1>5, <1>6, HolderBrought
<1> HIDE DEF r3
<1>9. Brought(r4, rw, ledger, totalShares)
  BY <1>2, <1>3, <1>7, <1>8, HolderBrought
<1> QED
  BY <1>1, <1>9 DEF RewardsBrought

LEMMA SwitchBrought ==
    ASSUME PoolInv, BooksInv, NEW u \in Users, NEW state \in RewardSwitches,
           SetRewardsState(u, state)
    PROVE  RewardsBrought
<1> DEFINE i == InitWorking(rw, u, totalShares, shares[u])
           q == SetUserRewardsState(i, u, shares[u], state)
           x == IF ~state THEN i.excluded + shares[u]
                ELSE IF i.excluded > shares[u] THEN i.excluded - shares[u] ELSE 0
<1>1. rw' = Checkpoint(q, u, totalShares, shares[u]) /\ ledger' = ledger
  BY DEF SetRewardsState, cfgVars, envVars
<1>2. /\ totalShares \in Nat /\ ledger \in Nat
      /\ RewardsOK(rw, shares, totalShares, ledger) /\ rw \in RewardState /\ Balanced(rw)
      /\ shares[u] \in Nat /\ state \in BOOLEAN
      /\ (rw.ws = Unset => totalShares = 0) /\ (rw.wb[u] = Unset => shares[u] = 0)
  BY PoolAssumption
     DEF PoolAssumption, PoolInv, PoolTypes, BooksInv, RewardsOK, ShareHolders
<1>3. /\ i \in RewardState
      /\ Balanced(i)
      /\ i.ws \in Nat
      /\ i.wb[u] \in Nat
      /\ \A v \in Users : v # u => i.wb[v] = rw.wb[v]
      /\ Working(i) = Working(rw)
      /\ SameBut(i, rw)
  BY <1>2, InitWorkingFacts
<1> HIDE DEF i
<1>4. RewardsOK(i, shares, totalShares, ledger) /\ (Covered(rw) => Covered(i))
  <2>1. RewardsOK(i, shares, totalShares, ledger)
    BY <1>2, <1>3 DEF RewardsOK, SameBut, Unset
  <2>2. Covered(rw) => Covered(i)
    BY <1>3, SameCovered DEF SameAccounts, SameBut, Covered
  <2> QED
    BY <2>1, <2>2
<1>5. /\ RewardsOK(q, shares, totalShares, ledger) /\ SameBooks(q, i)
      /\ Covered(i) => Covered(q)
  BY <1>2, <1>4, SetUserRewardsStateFacts
<1>6. SameClock(q, rw) /\ q.user = rw.user
  <2>1. q = IF i.on[u] = state THEN i ELSE [i EXCEPT !.on[u] = state, !.excluded = x]
    BY DEF SetUserRewardsState
  <2> HIDE DEF q, x
  <2>2. SameClock(q, i) /\ q.user = i.user
    BY <1>3, <2>1 DEF RewardState, SameClock
  <2> QED
    BY <1>3, <2>2 DEF SameClock, SameBut
<1> HIDE DEF q
<1>7. Working(q) = Working(rw) /\ Stored(q.ws) = Stored(rw.ws)
  <2>1. Working(q) = Working(rw)
    BY <1>3, <1>5 DEF SameBooks, Working
  <2> QED
    BY <1>2, <1>5, <2>1 DEF Balanced, RewardsOK
<1>8. Brought(rw', q, ledger, totalShares)
  <2>1. q.wb[u] = Unset => shares[u] = 0
    BY <1>5 DEF RewardsOK
  <2> QED
    BY <1>1, <1>2, <1>5, <2>1, CheckpointBrought
<1>9. Brought(rw', rw, ledger, totalShares)
  BY <1>2, <1>4, <1>5, <1>6, <1>7, <1>8, SettledBrings
<1> QED
  BY <1>1, <1>9 DEF RewardsBrought

-----------------------------------------------------------------------------
(* Nothing accrued is lost                                                 *)

AccruedStep ==
    \A u \in Users :
        \/ Accrued(u)' >= Accrued(u)
        \/ bal'[u][RewardToken] - bal[u][RewardToken] >= Accrued(u)

\* A call that leaves everybody with what was coming to him.
LEMMA DueKept ==
    ASSUME NeverTakenBack, PoolInv, PoolInv', BooksInv, BooksInv', NEW u \in Users,
           Due(UpdatePool(rw, ledger, totalShares), u) <= Due(rw', u)
    PROVE  Accrued(u)' >= Accrued(u)
<1>1. /\ totalShares \in Nat /\ ledger \in Nat
      /\ totalShares' \in Nat /\ ledger' \in Nat
      /\ RewardsOK(rw, shares, totalShares, ledger)
      /\ RewardsOK(rw', shares', totalShares', ledger')
      /\ Covered(rw) /\ Covered(rw')
  BY DEF PoolInv, PoolTypes, BooksInv
<1>2. /\ Accrued(u) = Due(UpdatePool(rw, ledger, totalShares), u)
      /\ Accrued(u) \in Nat
  BY <1>1, DueAtPool DEF Accrued
<1>3. /\ Accrued(u)' = Due(UpdatePool(rw', ledger', totalShares'), u)
      /\ Due(rw', u) \in Nat /\ Accrued(u)' \in Nat
      /\ Due(rw', u) <= Accrued(u)'
  BY <1>1, DueAtPool DEF Accrued
<1> QED
  BY <1>2, <1>3

LEMMA AccruedBrought ==
    ASSUME NeverTakenBack, PoolInv, PoolInv', BooksInv, BooksInv', RewardsBrought
    PROVE  AccruedStep
<1>1. \A u \in Users : Due(UpdatePool(rw, ledger, totalShares), u) <= Due(rw', u)
  BY DEF RewardsBrought, Brought, BooksInv
<1> QED
  BY <1>1, DueKept DEF AccruedStep

LEMMA AccruedIdle ==
    ASSUME NeverTakenBack, PoolInv, BooksInv, RewardsIdle
    PROVE  AccruedStep
<1>1. /\ totalShares \in Nat /\ ledger \in Nat
      /\ RewardsOK(rw, shares, totalShares, ledger) /\ Covered(rw)
  BY DEF PoolInv, PoolTypes, BooksInv
<1>2. \A u \in Users : Accrued(u) \in Nat /\ Accrued(u)' = Accrued(u)
  BY <1>1, DueAtPool DEF Accrued, RewardsIdle
<1> QED
  BY <1>2 DEF AccruedStep

LEMMA AccruedNextLedger ==
    ASSUME NeverTakenBack, PoolInv, PoolInv', BooksInv, BooksInv', NextLedger
    PROVE  AccruedStep
<1>1. /\ totalShares \in Nat /\ ledger \in Nat /\ ledger + 1 \in Nat
      /\ RewardsOK(rw, shares, totalShares, ledger) /\ Covered(rw)
      /\ rw' = rw /\ ledger' = ledger + 1 /\ totalShares' = totalShares
      /\ RewardsOK(rw, shares', totalShares, ledger + 1)
  BY DEF PoolInv, PoolTypes, BooksInv, NextLedger, ammVars
<1> SUFFICES ASSUME NEW u \in Users PROVE Accrued(u)' >= Accrued(u)
  BY DEF AccruedStep
<1>2. /\ Accrued(u) = Due(UpdatePool(rw, ledger, totalShares), u)
      /\ Accrued(u) \in Nat
  BY <1>1, DueAtPool DEF Accrued
<1>3. /\ Accrued(u)' = Due(UpdatePool(rw, ledger + 1, totalShares), u)
      /\ Accrued(u)' \in Nat
  BY <1>1, DueAtPool DEF Accrued
<1>4. Due(UpdatePool(rw, ledger, totalShares), u)
        <= Due(UpdatePool(rw, ledger + 1, totalShares), u)
  BY <1>1, LaterFacts
<1> QED
  BY <1>2, <1>3, <1>4

LEMMA AccruedConfig ==
    ASSUME NeverTakenBack, PoolInv, PoolInv', BooksInv, BooksInv', NEW caller,
           NEW e, NEW tps, SetRewardsConfig(caller, e, tps)
    PROVE  AccruedStep
<1>1. /\ totalShares \in Nat /\ ledger \in Nat
      /\ RewardsOK(rw, shares, totalShares, ledger)
      /\ rw' = SetRewardConfig(rw, ledger, totalShares, e, tps)
      /\ UNCHANGED <<totalShares, ledger>>
  BY DEF SetRewardsConfig, PoolInv, PoolTypes, BooksInv, ammVars, envVars
<1>2. CASE rw' = rw
  BY <1>1, <1>2, AccruedIdle DEF RewardsIdle
<1>3. CASE rw' # rw
  <2>1. \A u \in Users : Due(rw', u) = Due(UpdatePool(rw, ledger, totalShares), u)
    BY <1>1, <1>3, SettingsKeepDue
  <2>2. \A u \in Users : Due(UpdatePool(rw, ledger, totalShares), u) \in Nat
    BY <1>1, DueAtPool
  <2>3. \A u \in Users : Due(UpdatePool(rw, ledger, totalShares), u) <= Due(rw', u)
    BY <2>1, <2>2
  <2> QED
    BY <2>3, DueKept DEF AccruedStep
<1> QED
  BY <1>2, <1>3

LEMMA AccruedAdjust ==
    ASSUME NeverTakenBack, PoolInv, PoolInv', BooksInv, BooksInv', NEW caller,
           NEW diff, AdjustTotalAccumulatedReward(caller, diff)
    PROVE  AccruedStep
<1>1. /\ totalShares \in Nat /\ ledger \in Nat
      /\ RewardsOK(rw, shares, totalShares, ledger)
      /\ rw' = AdjustAccumulated(rw, ledger, totalShares, diff)
  BY DEF AdjustTotalAccumulatedReward, PoolInv, PoolTypes, BooksInv
<1>2. \A u \in Users : Due(rw', u) = Due(UpdatePool(rw, ledger, totalShares), u)
  BY <1>1, SettingsKeepDue
<1>3. \A u \in Users : Due(UpdatePool(rw, ledger, totalShares), u) \in Nat
  BY <1>1, DueAtPool
<1>4. \A u \in Users : Due(UpdatePool(rw, ledger, totalShares), u) <= Due(rw', u)
  BY <1>2, <1>3
<1> QED
  BY <1>4, DueKept DEF AccruedStep

\* The user who claims is paid all he had accrued; the others keep theirs.
LEMMA AccruedClaim ==
    ASSUME NeverTakenBack, PoolInv, PoolInv', BooksInv, BooksInv',
           NEW u \in Users, Claim(u)
    PROVE  AccruedStep
<1> DEFINE due == Checkpoint(rw, u, totalShares, shares[u])
           paid == due.user[u].toClaim
<1>1. /\ bal' = Move(bal, Pool, u, RewardToken, paid)
      /\ rw' = PayUser(due, u)
  BY DEF Claim
<1>2. /\ totalShares \in Nat /\ ledger \in Nat
      /\ RewardsOK(rw, shares, totalShares, ledger) /\ Covered(rw)
      /\ shares[u] \in Nat /\ (rw.wb[u] = Unset => shares[u] = 0)
      /\ Shaped(bal) /\ bal[u][RewardToken] \in Nat
      /\ Pool \in Holders /\ u \in Holders /\ Pool # u /\ RewardToken \in Assets
  BY PoolAssumption
     DEF PoolAssumption, PoolInv, PoolTypes, BooksInv, RewardsOK, ShareHolders,
         NatBalances, Holders, Assets
<1>3. /\ Brought(due, rw, ledger, totalShares)
      /\ RewardsOK(due, shares, totalShares, ledger)
      /\ Due(UpdatePool(rw, ledger, totalShares), u) = paid
  BY <1>2, CheckpointBrought
<1> HIDE DEF due
<1>4. paid \in Nat /\ due \in RewardState
  BY <1>3 DEF RewardsOK, RewardState, UserReward
<1>5. bal'[u][RewardToken] - bal[u][RewardToken] >= Accrued(u)
  <2>1. bal'[u][RewardToken] = bal[u][RewardToken] + paid
    BY <1>1, <1>2, MoveFacts
  <2>2. Accrued(u) = paid
    BY <1>2, <1>3, DueAtPool DEF Accrued
  <2> HIDE DEF paid
  <2> QED
    BY <1>2, <1>4, <2>1, <2>2
<1>6. ASSUME NEW v \in Users, v # u PROVE Accrued(v)' >= Accrued(v)
  <2>1. Due(rw', v) = Due(due, v)
    BY <1>1, <1>4, <1>6, PayUserDue
  <2>2. Due(UpdatePool(rw, ledger, totalShares), v) <= Due(due, v)
    BY <1>2, <1>3 DEF Brought
  <2> QED
    BY <2>1, <2>2, DueKept
<1> QED
  BY <1>5, <1>6 DEF AccruedStep

\* What each step does to the rewards, and the four that do something of their
\* own.
RewardsCases ==
    \/ RewardsBrought
    \/ RewardsIdle
    \/ NextLedger
    \/ \E u \in Users : Claim(u)
    \/ \E caller \in Callers, e \in Expirations, tps \in TpsValues :
            SetRewardsConfig(caller, e, tps)
    \/ \E caller \in Callers, diff \in Diffs : AdjustTotalAccumulatedReward(caller, diff)

LEMMA UserRewards == PoolInv /\ PoolInv' /\ BooksInv /\ UserStep => RewardsCases
<1> SUFFICES ASSUME PoolInv, PoolInv', BooksInv, NEW u \in Users,
       \/ \E d \in [PoolTokens -> DepositAmounts], m \in MinAmounts : Deposit(u, d, m)
       \/ \E t \in PoolTokens, n \in SwapAmounts, m \in MinAmounts : Swap(u, t, n, m)
       \/ \E t \in PoolTokens, n, m \in SwapAmounts : SwapStrictReceive(u, t, n, m)
       \/ \E n \in ShareAmounts, m \in [PoolTokens -> MinAmounts] : Withdraw(u, n, m)
       \/ \E to \in ShareHolders, n \in ShareAmounts : TransferShares(u, to, n)
       \/ \E n \in ShareAmounts : BurnShares(u, n)
     PROVE RewardsCases
  BY DEF UserStep
<1>1. totalShares \in Nat /\ totalShares' \in Nat /\ shares[u] \in Nat
  BY DEF PoolInv, PoolTypes, BooksInv, ShareHolders
<1>2. ASSUME NEW d \in [PoolTokens -> DepositAmounts], NEW m \in MinAmounts, Deposit(u, d, m)
      PROVE  RewardsBrought
  <2> DEFINE n == shares[u] + (totalShares' - totalShares)
  <2>1. /\ totalShares' - totalShares >= 0 /\ UNCHANGED ledger
        /\ rw' = NewWorking(Checkpoint(rw, u, totalShares, shares[u]), u, totalShares', n)
    BY <1>2 DEF Deposit, envVars
  <2>2. n \in Nat
    <3>1. ASSUME NEW x \in Nat, NEW y \in Nat, NEW z \in Nat, y - x >= 0
          PROVE  z + (y - x) \in Nat
      BY <3>1
    <3> QED
      BY <1>1, <2>1, <3>1
  <2> HIDE DEF n
  <2> QED
    BY <1>1, <2>1, <2>2, SharesUpdateBrought
<1>3. ASSUME NEW k \in ShareAmounts, NEW m \in [PoolTokens -> MinAmounts], Withdraw(u, k, m)
      PROVE  RewardsBrought
  <2> DEFINE n == shares[u] - k
  <2>1. /\ k <= shares[u] /\ UNCHANGED ledger
        /\ rw' = NewWorking(Checkpoint(rw, u, totalShares, shares[u]), u, totalShares', n)
    BY <1>3 DEF Withdraw, envVars
  <2>2. n \in Nat
    BY <1>1, <2>1, PoolAssumption DEF PoolAssumption
  <2> HIDE DEF n
  <2> QED
    BY <1>1, <2>1, <2>2, SharesUpdateBrought
<1>4. ASSUME NEW t \in PoolTokens, NEW n \in SwapAmounts, NEW m \in MinAmounts, Swap(u, t, n, m)
      PROVE  RewardsIdle
  BY <1>4 DEF Swap, Trade, envVars, RewardsIdle
<1>5. ASSUME NEW t \in PoolTokens, NEW n \in SwapAmounts, NEW m \in SwapAmounts,
             SwapStrictReceive(u, t, n, m)
      PROVE  RewardsIdle
  BY <1>5 DEF SwapStrictReceive, Trade, envVars, RewardsIdle
<1>6. ASSUME NEW n \in ShareAmounts, BurnShares(u, n) PROVE RewardsIdle
  BY <1>6 DEF BurnShares, envVars, RewardsIdle
<1> QED
  BY <1>2, <1>3, <1>4, <1>5, <1>6, TransferBrought DEF RewardsCases

LEMMA PoolRewards ==
    ASSUME PoolInv, BooksInv, ledger' = ledger, rw' = UpdatePool(rw, ledger, totalShares)
    PROVE  RewardsBrought
<1>1. /\ totalShares \in Nat /\ ledger \in Nat
      /\ RewardsOK(rw, shares, totalShares, ledger)
  BY DEF PoolInv, PoolTypes, BooksInv
<1> QED
  BY <1>1, PoolIsBrought DEF RewardsBrought

LEMMA RewardRewards == PoolInv /\ BooksInv /\ RewardStep => RewardsCases
<1> SUFFICES ASSUME PoolInv, BooksInv, RewardStep PROVE RewardsCases
  OBVIOUS
<1>1. ASSUME NEW u \in Users, GetUserReward(u) PROVE RewardsBrought
  <2>1. /\ rw' = Checkpoint(rw, u, totalShares, shares[u]) /\ ledger' = ledger
        /\ RewardsOK(rw, shares, totalShares, ledger) /\ shares[u] \in Nat
        /\ (rw.wb[u] = Unset => shares[u] = 0)
    BY <1>1 DEF GetUserReward, envVars, BooksInv, RewardsOK, ShareHolders
  <2> QED
    BY <2>1, CheckpointBrought DEF RewardsBrought
<1>2. ASSUME GetPoolRewards PROVE RewardsBrought
  BY <1>2, PoolRewards DEF GetPoolRewards, envVars
<1> QED
  BY <1>1, <1>2, SwitchBrought DEF RewardStep, RewardsCases

LEMMA AdminRewards == PoolInv /\ BooksInv /\ AdminStep => RewardsCases
<1> SUFFICES ASSUME PoolInv, BooksInv, NEW caller \in Callers,
       \/ \E f \in ProtocolFractions : SetProtocolFeeFraction(caller, f)
       \/ ClaimProtocolFees(caller)
       \/ \E s \in Switches : Kill(caller, s) \/ Unkill(caller, s)
       \/ \E e \in Expirations, tps \in TpsValues : SetRewardsConfig(caller, e, tps)
       \/ ReturnUnusedReward(caller)
       \/ \E diff \in Diffs : AdjustTotalAccumulatedReward(caller, diff)
     PROVE RewardsCases
  BY DEF AdminStep
<1>1. ASSUME NEW f \in ProtocolFractions, SetProtocolFeeFraction(caller, f) PROVE RewardsIdle
  BY <1>1 DEF SetProtocolFeeFraction, ammVars, envVars, RewardsIdle
<1>2. ASSUME ClaimProtocolFees(caller) PROVE RewardsIdle
  BY <1>2 DEF ClaimProtocolFees, envVars, RewardsIdle
<1>3. ASSUME NEW s \in Switches, Kill(caller, s) \/ Unkill(caller, s) PROVE RewardsIdle
  BY <1>3 DEF Kill, Unkill, ammVars, envVars, RewardsIdle
<1>4. ASSUME ReturnUnusedReward(caller) PROVE RewardsBrought
  BY <1>4, PoolRewards DEF ReturnUnusedReward, envVars
<1> QED
  BY <1>1, <1>2, <1>3, <1>4 DEF RewardsCases

LEMMA EnvRewards == EnvStep => RewardsCases
<1> SUFFICES ASSUME EnvStep PROVE RewardsCases
  OBVIOUS
<1>1. ASSUME SyncReserves \/ BackfillPlane PROVE RewardsIdle
  BY <1>1 DEF SyncReserves, BackfillPlane, envVars, RewardsIdle
<1>2. ASSUME NEW from \in Users \cup {Outside}, NEW t \in Assets, NEW n \in GiftAmounts,
             SendToPool(from, t, n)
      PROVE  RewardsIdle
  BY <1>2 DEF SendToPool, envVars, RewardsIdle
<1>3. ASSUME NEW u \in Users, NEW n \in LockAmounts, ChangeLock(u, n) PROVE RewardsIdle
  BY <1>3 DEF ChangeLock, ammVars, RewardsIdle
<1> QED
  BY <1>1, <1>2, <1>3 DEF EnvStep, RewardsCases

LEMMA StepRewards == PoolInv /\ PoolInv' /\ BooksInv /\ [Next]_vars => RewardsCases
<1> SUFFICES ASSUME PoolInv, PoolInv', BooksInv, [Next]_vars PROVE RewardsCases
  OBVIOUS
<1>1. CASE UNCHANGED vars
  BY <1>1 DEF vars, RewardsIdle, RewardsCases
<1> QED
  BY <1>1, UserRewards, RewardRewards, AdminRewards, EnvRewards DEF Next

\* A reward once accrued is paid to its owner or stays claimable, through any
\* calls of anybody, new configurations and the passing of time: every
\* checkpoint (manager.rs, checkpoint_user) settles what the shares and the
\* working balances it is about to replace have earned, at the rate of the
\* configuration it was earned under.
THEOREM AccruedAlwaysKept ==
    ASSUME NeverTakenBack
    PROVE  Spec => AccruedNeverLost
<1>1. (PoolInv /\ BooksInv) /\ (PoolInv /\ BooksInv)' /\ [Next]_vars => AccruedStep
  <2> SUFFICES ASSUME PoolInv, BooksInv, PoolInv', BooksInv', [Next]_vars PROVE AccruedStep
    OBVIOUS
  <2>1. RewardsCases
    BY StepRewards
  <2> QED
    BY <2>1, AccruedBrought, AccruedIdle, AccruedNextLedger, AccruedClaim, AccruedConfig,
       AccruedAdjust
    DEF RewardsCases
<1>2. (PoolInv /\ BooksInv) /\ (PoolInv /\ BooksInv)' /\ [Next]_vars =>
        [\A u \in Users :
            \/ Accrued(u)' >= Accrued(u)
            \/ bal'[u][RewardToken] - bal[u][RewardToken] >= Accrued(u)]_vars
  BY <1>1 DEF AccruedStep
<1> QED
  BY BooksInvariant, <1>2, PTL DEF Spec, AccruedNeverLost

-----------------------------------------------------------------------------
(* What is funded stays funded                                             *)

\* get_unused_reward does not count the protocol fee of the reward token among
\* what the pool owes, so that return_unused_reward may take it.  Where the
\* reward token is a token of the pool, what follows is about a pool that
\* keeps no such fee.
NoFeeInReward == RewardToken \in PoolTokens => ProtocolFractions \subseteq {0}

FeeFree == ProtocolFractions \subseteq {0} => pfFraction = 0 /\ fee = Nothing

\* What the pool owes of the reward token besides the rewards.
TokensOwed ==
    IF RewardToken \in PoolTokens THEN reserve[RewardToken] + fee[RewardToken] ELSE 0

\* The balance of the reward token follows what is owed of it.
HeldKept ==
    bal'[Pool][RewardToken] - TokensOwed' >= bal[Pool][RewardToken] - TokensOwed

LEMMA RewardHeld ==
    ASSUME PoolInv, BooksInv
    PROVE  /\ bal[Pool][RewardToken] \in Nat /\ TokensOwed \in Nat
           /\ RewardToken \in PoolTokens => Synced[RewardToken] = reserve[RewardToken]
           /\ Shaped(bal) /\ RewardToken \in Assets
           /\ Pool \in Holders /\ Outside \in Holders /\ Pool # Outside
           /\ \A u \in Users : u \in Holders /\ u # Pool
<1>1. /\ RewardToken \in Assets
      /\ Pool \in Holders /\ Outside \in Holders /\ Pool # Outside
      /\ \A u \in Users : u \in Holders /\ u # Pool
  BY PoolAssumption DEF PoolAssumption, Holders, Assets
<1>2. Shaped(bal) /\ bal[Pool][RewardToken] \in Nat
  BY <1>1 DEF BooksInv, NatBalances
<1>3. TokensOwed \in Nat
  BY DEF TokensOwed, PoolInv, PoolTypes
<1>4. RewardToken \in PoolTokens => Synced[RewardToken] = reserve[RewardToken]
  BY DEF Synced
<1> QED
  BY <1>1, <1>2, <1>3, <1>4

\* Both transfers of a deposit, a withdrawal or a claim of fees.
LEMMA SendOther ==
    ASSUME NEW b, Shaped(b), NEW from \in Holders, NEW to \in Holders, NEW n,
           RewardToken \notin PoolTokens, NEW h \in Holders
    PROVE  Send(b, from, to, n)[h][RewardToken] = b[h][RewardToken]
<1> DEFINE c == Move(b, from, to, "A", n["A"])
<1>1. "A" \in Assets /\ "B" \in Assets /\ RewardToken \in Assets \ {"A"}
      /\ RewardToken \in Assets \ {"B"}
  BY DEF Assets, PoolTokens
<1>2. Shaped(c) /\ c[h][RewardToken] = b[h][RewardToken]
  BY <1>1, MoveFacts
<1>3. Send(b, from, to, n) = Move(c, from, to, "B", n["B"])
  BY DEF Send
<1> HIDE DEF c
<1> QED
  BY <1>1, <1>2, <1>3, MoveFacts

\* The two transfers of a swap.
LEMMA ExchangeOther ==
    ASSUME NEW b, Shaped(b), NEW u \in Users, NEW in \in PoolTokens, NEW x, NEW y,
           RewardToken \notin PoolTokens
    PROVE  Exchange(b, u, in, x, y)[Pool][RewardToken] = b[Pool][RewardToken]
<1> DEFINE c == Move(b, u, Pool, in, x)
<1>1. /\ in \in Assets /\ Other(in) \in Assets
      /\ RewardToken \in Assets \ {in} /\ RewardToken \in Assets \ {Other(in)}
  BY DEF Assets, PoolTokens, Other
<1>2. u \in Holders /\ Pool \in Holders
  BY DEF Holders
<1>3. Shaped(c) /\ c[Pool][RewardToken] = b[Pool][RewardToken]
  BY <1>1, <1>2, MoveFacts
<1>4. Exchange(b, u, in, x, y) = Move(c, Pool, u, Other(in), y)
  BY DEF Exchange
<1> HIDE DEF c
<1> QED
  BY <1>1, <1>2, <1>3, <1>4, MoveFacts

LEMMA DepositHeld ==
    ASSUME PoolInv, BooksInv, NEW u \in Users,
           NEW desired \in [PoolTokens -> DepositAmounts], NEW m \in MinAmounts,
           Deposit(u, desired, m)
    PROVE  HeldKept
<1> DEFINE used == UsedAmounts(Synced, desired)
<1>1. /\ bal' = Send(bal, u, Pool, used)
      /\ reserve' = [t \in PoolTokens |-> Synced[t] + used[t]]
      /\ fee' = fee
  BY DEF Deposit
<1>2. used \in [PoolTokens -> Nat]
  <2>1. desired \in [PoolTokens -> Nat]
    BY PoolAssumption DEF PoolAssumption
  <2> QED
    BY <2>1, UsedFacts
<1> HIDE DEF used
<1>3. CASE RewardToken \in PoolTokens
  <2>1. bal'[Pool][RewardToken] = bal[Pool][RewardToken] + used[RewardToken]
    BY <1>1, <1>3, RewardHeld, SendFacts
  <2>2. /\ TokensOwed' = (reserve[RewardToken] + used[RewardToken]) + fee[RewardToken]
        /\ TokensOwed = reserve[RewardToken] + fee[RewardToken]
    BY <1>1, <1>3, RewardHeld DEF TokensOwed
  <2>3. /\ reserve[RewardToken] \in Nat /\ fee[RewardToken] \in Nat
        /\ used[RewardToken] \in Nat /\ bal[Pool][RewardToken] \in Nat
    BY <1>2, <1>3, RewardHeld DEF PoolInv, PoolTypes
  <2> QED
    BY <2>1, <2>2, <2>3 DEF HeldKept
<1>4. CASE RewardToken \notin PoolTokens
  <2>1. bal'[Pool][RewardToken] = bal[Pool][RewardToken]
    BY <1>1, <1>4, RewardHeld, SendOther
  <2> QED
    BY <1>4, <2>1, RewardHeld DEF HeldKept, TokensOwed
<1> QED
  BY <1>3, <1>4

LEMMA WithdrawHeld ==
    ASSUME PoolInv, BooksInv, NEW u \in Users, NEW k \in ShareAmounts,
           NEW m \in [PoolTokens -> MinAmounts], Withdraw(u, k, m)
    PROVE  HeldKept
<1> DEFINE out == [t \in PoolTokens |-> WithdrawnPart(t, k)]
<1>1. /\ bal' = Send(bal, Pool, u, out)
      /\ reserve' = [t \in PoolTokens |-> Synced[t] - out[t]]
      /\ fee' = fee /\ totalShares > 0
  BY DEF Withdraw
<1>2. out \in [PoolTokens -> Nat]
  <2> SUFFICES ASSUME NEW t \in PoolTokens PROVE WithdrawnPart(t, k) \in Nat
    OBVIOUS
  <2>1. k \in Nat /\ totalShares \in Nat
    BY PoolAssumption DEF PoolAssumption, PoolInv, PoolTypes
  <2>2. Synced[t] * k \in Nat
    BY <2>1, SyncedFacts, MulNat
  <2> QED
    BY <1>1, <2>1, <2>2, DivFacts DEF WithdrawnPart
<1> HIDE DEF out
<1>3. CASE RewardToken \in PoolTokens
  <2>1. bal'[Pool][RewardToken] = bal[Pool][RewardToken] - out[RewardToken]
    BY <1>1, <1>3, RewardHeld, SendFacts
  <2>2. /\ TokensOwed' = (reserve[RewardToken] - out[RewardToken]) + fee[RewardToken]
        /\ TokensOwed = reserve[RewardToken] + fee[RewardToken]
    BY <1>1, <1>3, RewardHeld DEF TokensOwed
  <2>3. /\ reserve[RewardToken] \in Nat /\ fee[RewardToken] \in Nat
        /\ out[RewardToken] \in Nat /\ bal[Pool][RewardToken] \in Nat
    BY <1>2, <1>3, RewardHeld DEF PoolInv, PoolTypes
  <2> QED
    BY <2>1, <2>2, <2>3 DEF HeldKept
<1>4. CASE RewardToken \notin PoolTokens
  <2>1. bal'[Pool][RewardToken] = bal[Pool][RewardToken]
    BY <1>1, <1>4, RewardHeld, SendOther
  <2> QED
    BY <1>4, <2>1, RewardHeld DEF HeldKept, TokensOwed
<1> QED
  BY <1>3, <1>4

\* A swap is a trade of two natural numbers, with a fee within what it takes.
LEMMA SwapTrades ==
    ASSUME PoolInv, NEW u \in Users, NEW in \in PoolTokens, NEW n \in SwapAmounts,
           NEW m, Swap(u, in, n, m)
    PROVE  \E x \in Nat, y \in Nat : \E f \in 0..x : Trade(u, in, x, y, f)
<1> DEFINE a == Synced[in]
           b == Synced[Other(in)]
           w == AfterFee(n)
           y == AmountOut(Synced, in, n)
<1>1. n \in Nat /\ Other(in) \in PoolTokens
  BY PoolAssumption DEF PoolAssumption, PoolTokens, Other
<1>2. a \in Nat \ {0} /\ b \in Nat \ {0} /\ Trade(u, in, n, y, n - w)
  BY <1>1, SyncedFacts DEF Swap
<1>3. w \in 0..n /\ n - w \in 0..n
  BY <1>1, AfterFeeFacts
<1>4. y = (w * b) \div (a + w)
  BY DEF AmountOut
<1> HIDE DEF a, b, w
<1>5. y \in Nat
  <2>1. w * b \in Nat /\ a + w \in Nat \ {0}
    BY <1>2, <1>3, MulNat
  <2> QED
    BY <1>4, <2>1, DivFacts
<1> HIDE DEF y
<1> QED
  BY <1>1, <1>2, <1>3, <1>5

LEMMA StrictReceiveTrades ==
    ASSUME PoolInv, NEW u \in Users, NEW in \in PoolTokens, NEW y \in SwapAmounts,
           NEW m, SwapStrictReceive(u, in, y, m)
    PROVE  \E x \in Nat, out \in Nat : \E f \in 0..x : Trade(u, in, x, out, f)
<1> DEFINE a == Synced[in]
           b == Synced[Other(in)]
           net == InAfterFee(Synced, in, y)
           x == AmountIn(Synced, in, y)
           part == FeeMultiplier - FeeFraction
<1>1. /\ y \in Nat /\ Other(in) \in PoolTokens
      /\ FeeMultiplier \in Nat /\ part \in Nat \ {0} /\ part <= FeeMultiplier
  BY PoolAssumption DEF PoolAssumption, PoolTokens, Other
<1>2. /\ a \in Nat \ {0} /\ b \in Nat \ {0} /\ y < b
      /\ Trade(u, in, x, y, x - net)
  BY <1>1, SyncedFacts DEF SwapStrictReceive
<1>3. net = CeilDiv(a * y, b - y) /\ x = CeilDiv(net * FeeMultiplier, part)
  BY DEF AmountIn, InAfterFee
<1> HIDE DEF a, b, net, part, x
<1>4. net \in Nat
  <2>1. a * y \in Nat /\ b - y \in Nat \ {0}
    BY <1>1, <1>2, MulNat
  <2> QED
    BY <1>3, <2>1, CeilFacts DEF CeilDiv
<1>5. x \in Nat /\ net <= x
  <2>1. net * FeeMultiplier \in Nat /\ x \in Nat /\ x * part >= net * FeeMultiplier
    BY <1>1, <1>3, <1>4, MulNat, CeilFacts DEF CeilDiv
  <2>2. net * part <= net * FeeMultiplier /\ net * part \in Nat
    BY <1>1, <1>4, MulMono, MulNat
  <2>3. part * net <= part * x
    BY <1>1, <1>4, <2>1, <2>2
  <2> QED
    BY <1>1, <1>4, <2>1, <2>3, MulCancel
<1>6. x - net \in 0..x
  BY <1>4, <1>5
<1> QED
  BY <1>1, <1>2, <1>5, <1>6

LEMMA TradeHeld ==
    ASSUME PoolInv, BooksInv, NEW u \in Users, NEW in \in PoolTokens,
           NEW x \in Nat, NEW y \in Nat, NEW f \in 0..x, Trade(u, in, x, y, f)
    PROVE  HeldKept
<1> DEFINE out == Other(in)
           part == ProtocolPart(f)
           R == RewardToken
<1>1. /\ out \in PoolTokens /\ in # out /\ PoolTokens = {in, out}
  BY DEF PoolTokens, Other
<1>2. part \in Nat
  <2>1. f \in Nat /\ FeeMultiplier \in Nat \ {0} /\ pfFraction \in 0..FeeMultiplier
    BY PoolAssumption DEF PoolAssumption, PoolInv, PoolTypes
  <2> QED
    BY <2>1, PartAtMost DEF ProtocolPart
<1>3. /\ bal' = Exchange(bal, u, in, x, y)
      /\ reserve' = [Synced EXCEPT ![in] = @ + x - part, ![out] = @ - y]
      /\ fee' = [fee EXCEPT ![in] = @ + part]
  BY DEF Trade
<1> HIDE DEF part
<1>4. /\ Synced \in [PoolTokens -> Nat] /\ fee \in [PoolTokens -> Nat]
      /\ reserve \in [PoolTokens -> Nat] /\ bal[Pool][R] \in Nat
  BY SyncedFacts, RewardHeld DEF PoolInv, PoolTypes
<1>5. CASE R = in
  <2>1. bal'[Pool][R] = bal[Pool][R] + x
    BY <1>3, <1>5, RewardHeld, ExchangeFacts
  <2>2. reserve'[R] = reserve[R] + (x - part) /\ fee'[R] = fee[R] + part
    BY <1>1, <1>2, <1>3, <1>4, <1>5, RewardHeld
  <2>3. TokensOwed' = reserve'[R] + fee'[R] /\ TokensOwed = reserve[R] + fee[R]
    BY <1>5 DEF TokensOwed
  <2>4. reserve[R] \in Nat /\ fee[R] \in Nat
    BY <1>4, <1>5
  <2> QED
    BY <1>2, <1>4, <2>1, <2>2, <2>3, <2>4 DEF HeldKept
<1>6. CASE R = out
  <2>1. bal'[Pool][R] = bal[Pool][R] - y
    BY <1>3, <1>6, RewardHeld, ExchangeFacts
  <2>2. reserve'[R] = reserve[R] - y /\ fee'[R] = fee[R]
    BY <1>1, <1>2, <1>3, <1>4, <1>6, RewardHeld
  <2>3. TokensOwed' = reserve'[R] + fee'[R] /\ TokensOwed = reserve[R] + fee[R]
    BY <1>1, <1>6 DEF TokensOwed
  <2>4. reserve[R] \in Nat /\ fee[R] \in Nat
    BY <1>1, <1>4, <1>6
  <2> QED
    BY <1>4, <2>1, <2>2, <2>3, <2>4 DEF HeldKept
<1>7. CASE R \notin PoolTokens
  <2>1. bal'[Pool][R] = bal[Pool][R]
    BY <1>3, <1>7, RewardHeld, ExchangeOther
  <2> QED
    BY <1>4, <1>7, <2>1 DEF HeldKept, TokensOwed
<1> QED
  BY <1>1, <1>5, <1>6, <1>7

LEMMA ClaimFeesHeld ==
    ASSUME PoolInv, BooksInv, NEW caller, ClaimProtocolFees(caller)
    PROVE  HeldKept
<1>1. bal' = Send(bal, Pool, Outside, fee) /\ fee' = Nothing /\ reserve' = reserve
  BY DEF ClaimProtocolFees
<1>2. CASE RewardToken \in PoolTokens
  <2>1. bal'[Pool][RewardToken] = bal[Pool][RewardToken] - fee[RewardToken]
    BY <1>1, <1>2, RewardHeld, SendFacts
  <2>2. TokensOwed' = reserve[RewardToken] + 0
    BY <1>1, <1>2 DEF TokensOwed, Nothing
  <2>3. TokensOwed = reserve[RewardToken] + fee[RewardToken]
    BY <1>2 DEF TokensOwed
  <2>4. /\ reserve[RewardToken] \in Nat /\ fee[RewardToken] \in Nat
        /\ bal[Pool][RewardToken] \in Nat
    BY <1>2, RewardHeld DEF PoolInv, PoolTypes
  <2> QED
    BY <2>1, <2>2, <2>3, <2>4 DEF HeldKept
<1>3. CASE RewardToken \notin PoolTokens
  <2>1. bal'[Pool][RewardToken] = bal[Pool][RewardToken]
    BY <1>1, <1>3, RewardHeld, SendOther
  <2> QED
    BY <1>3, <2>1, RewardHeld DEF HeldKept, TokensOwed
<1> QED
  BY <1>2, <1>3

LEMMA GiftHeld ==
    ASSUME PoolInv, BooksInv, NEW from \in Users \cup {Outside}, NEW t \in Assets,
           NEW n \in GiftAmounts, SendToPool(from, t, n)
    PROVE  HeldKept
<1>1. /\ bal' = Move(bal, from, Pool, t, n) /\ UNCHANGED <<reserve, fee>>
      /\ n \in Nat /\ from \in Holders /\ from # Pool
  BY PoolAssumption, RewardHeld DEF SendToPool, PoolAssumption
<1>2. bal'[Pool][RewardToken] >= bal[Pool][RewardToken]
      /\ bal'[Pool][RewardToken] \in Int
  <2>1. bal'[Pool][RewardToken] = IF t = RewardToken THEN bal[Pool][RewardToken] + n
                                  ELSE bal[Pool][RewardToken]
    BY <1>1, RewardHeld, MoveFacts
  <2> QED
    BY <1>1, <2>1, RewardHeld
<1>3. TokensOwed' = TokensOwed
  BY <1>1 DEF TokensOwed
<1> QED
  BY <1>2, <1>3, RewardHeld DEF HeldKept

\* The calls that move no token of the pool's.
LEMMA IdleHeld ==
    ASSUME PoolInv, BooksInv, bal' = bal, fee' = fee,
           RewardToken \in PoolTokens => reserve'[RewardToken] = reserve[RewardToken]
    PROVE  HeldKept
<1>1. TokensOwed' = TokensOwed
  BY DEF TokensOwed
<1> QED
  BY <1>1, RewardHeld DEF HeldKept

\* No protocol fee is kept where none may be set.
LEMMA TradeFree ==
    ASSUME PoolInv, FeeFree, NEW u \in Users, NEW in \in PoolTokens,
           NEW x \in Nat, NEW y \in Nat, NEW f \in 0..x, Trade(u, in, x, y, f)
    PROVE  FeeFree'
<1>1. fee' = [fee EXCEPT ![in] = @ + ProtocolPart(f)] /\ pfFraction' = pfFraction
  BY DEF Trade, cfgVars
<1> SUFFICES ASSUME ProtocolFractions \subseteq {0} PROVE pfFraction' = 0 /\ fee' = Nothing
  BY DEF FeeFree
<1>2. pfFraction = 0 /\ fee = Nothing
  BY DEF FeeFree
<1>3. ProtocolPart(f) = 0
  <2>1. f * pfFraction = 0 /\ FeeMultiplier \in Nat \ {0}
    BY <1>2, PoolAssumption DEF PoolAssumption
  <2>2. 0 \div FeeMultiplier = 0
    BY <2>1, DivFacts
  <2> QED
    BY <2>1, <2>2 DEF ProtocolPart
<1>4. fee' = Nothing
  BY <1>1, <1>2, <1>3 DEF Nothing
<1> QED
  BY <1>1, <1>2, <1>4

LEMMA FeeFreeStep == PoolInv /\ FeeFree /\ [Next]_vars => FeeFree'
<1> SUFFICES ASSUME PoolInv, FeeFree, [Next]_vars PROVE FeeFree'
  OBVIOUS
<1>1. CASE UNCHANGED <<fee, pfFraction>>
  BY <1>1 DEF FeeFree
<1>2. CASE UserStep
  <2>1. PICK u \in Users :
       \/ \E d \in [PoolTokens -> DepositAmounts], m \in MinAmounts : Deposit(u, d, m)
       \/ \E t \in PoolTokens, n \in SwapAmounts, m \in MinAmounts : Swap(u, t, n, m)
       \/ \E t \in PoolTokens, n, m \in SwapAmounts : SwapStrictReceive(u, t, n, m)
       \/ \E n \in ShareAmounts, m \in [PoolTokens -> MinAmounts] : Withdraw(u, n, m)
       \/ \E to \in ShareHolders, n \in ShareAmounts : TransferShares(u, to, n)
       \/ \E n \in ShareAmounts : BurnShares(u, n)
    BY <1>2 DEF UserStep
  <2>2. ASSUME NEW t \in PoolTokens, NEW n \in SwapAmounts, NEW m, Swap(u, t, n, m)
        PROVE  FeeFree'
    BY <2>2, SwapTrades, TradeFree
  <2>3. ASSUME NEW t \in PoolTokens, NEW n \in SwapAmounts, NEW m,
               SwapStrictReceive(u, t, n, m)
        PROVE  FeeFree'
    BY <2>3, StrictReceiveTrades, TradeFree
  <2>4. ASSUME NEW d, NEW m, Deposit(u, d, m) PROVE FeeFree'
    BY <1>1, <2>4 DEF Deposit, cfgVars
  <2>5. ASSUME NEW n, NEW m, Withdraw(u, n, m) PROVE FeeFree'
    BY <1>1, <2>5 DEF Withdraw, cfgVars
  <2>6. ASSUME NEW to, NEW n, TransferShares(u, to, n) \/ BurnShares(u, n) PROVE FeeFree'
    BY <1>1, <2>6 DEF TransferShares, BurnShares, cfgVars
  <2> QED
    BY <2>1, <2>2, <2>3, <2>4, <2>5, <2>6
<1>3. CASE RewardStep
  BY <1>1, <1>3
  DEF RewardStep, Claim, GetUserReward, SetRewardsState, GetPoolRewards, ammVars, cfgVars
<1>4. CASE AdminStep
  <2>1. PICK caller \in Callers :
       \/ \E f \in ProtocolFractions : SetProtocolFeeFraction(caller, f)
       \/ ClaimProtocolFees(caller)
       \/ \E s \in Switches : Kill(caller, s) \/ Unkill(caller, s)
       \/ \E e \in Expirations, tps \in TpsValues : SetRewardsConfig(caller, e, tps)
       \/ ReturnUnusedReward(caller)
       \/ \E diff \in Diffs : AdjustTotalAccumulatedReward(caller, diff)
    BY <1>4 DEF AdminStep
  <2>2. ASSUME NEW f \in ProtocolFractions, SetProtocolFeeFraction(caller, f) PROVE FeeFree'
    BY <2>2 DEF SetProtocolFeeFraction, ammVars, FeeFree
  <2>3. ASSUME ClaimProtocolFees(caller) PROVE FeeFree'
    BY <2>3 DEF ClaimProtocolFees, cfgVars, FeeFree
  <2>4. ASSUME NEW s, Kill(caller, s) \/ Unkill(caller, s) PROVE FeeFree'
    BY <1>1, <2>4 DEF Kill, Unkill, ammVars
  <2>5. ASSUME NEW e, NEW tps, SetRewardsConfig(caller, e, tps) PROVE FeeFree'
    BY <1>1, <2>5 DEF SetRewardsConfig, ammVars, cfgVars
  <2>6. ASSUME ReturnUnusedReward(caller) PROVE FeeFree'
    BY <1>1, <2>6 DEF ReturnUnusedReward, cfgVars
  <2>7. ASSUME NEW d, AdjustTotalAccumulatedReward(caller, d) PROVE FeeFree'
    BY <1>1, <2>7 DEF AdjustTotalAccumulatedReward, ammVars, cfgVars
  <2> QED
    BY <2>1, <2>2, <2>3, <2>4, <2>5, <2>6, <2>7
<1>5. CASE EnvStep
  BY <1>1, <1>5
  DEF EnvStep, SyncReserves, BackfillPlane, SendToPool, ChangeLock, NextLedger, ammVars, cfgVars
<1>6. CASE UNCHANGED vars
  BY <1>1, <1>6 DEF vars
<1> QED
  BY <1>2, <1>3, <1>4, <1>5, <1>6 DEF Next

LEMMA FeeFreeInvariant == Spec => []FeeFree
<1>1. Init => FeeFree
  BY DEF Init, FeeFree
<1> QED
  BY PoolInvariant, <1>1, FeeFreeStep, PTL DEF Spec

\* The two calls that pay rewards out.
PaysRewards ==
    \/ \E u \in Users : Claim(u)
    \/ \E caller \in Callers : ReturnUnusedReward(caller)

LEMMA UserHeld == PoolInv /\ BooksInv /\ UserStep => HeldKept
<1> SUFFICES ASSUME PoolInv, BooksInv, NEW u \in Users,
       \/ \E d \in [PoolTokens -> DepositAmounts], m \in MinAmounts : Deposit(u, d, m)
       \/ \E t \in PoolTokens, n \in SwapAmounts, m \in MinAmounts : Swap(u, t, n, m)
       \/ \E t \in PoolTokens, n, m \in SwapAmounts : SwapStrictReceive(u, t, n, m)
       \/ \E n \in ShareAmounts, m \in [PoolTokens -> MinAmounts] : Withdraw(u, n, m)
       \/ \E to \in ShareHolders, n \in ShareAmounts : TransferShares(u, to, n)
       \/ \E n \in ShareAmounts : BurnShares(u, n)
     PROVE HeldKept
  BY DEF UserStep
<1>1. ASSUME NEW t \in PoolTokens, NEW n \in SwapAmounts, NEW m, Swap(u, t, n, m)
      PROVE  HeldKept
  BY <1>1, SwapTrades, TradeHeld
<1>2. ASSUME NEW t \in PoolTokens, NEW n \in SwapAmounts, NEW m, SwapStrictReceive(u, t, n, m)
      PROVE  HeldKept
  BY <1>2, StrictReceiveTrades, TradeHeld
<1>3. ASSUME NEW to, NEW n, TransferShares(u, to, n) \/ BurnShares(u, n) PROVE HeldKept
  BY <1>3, IdleHeld DEF TransferShares, BurnShares
<1> QED
  BY <1>1, <1>2, <1>3, DepositHeld, WithdrawHeld

LEMMA RewardsCallHeld == PoolInv /\ BooksInv /\ RewardStep => HeldKept \/ PaysRewards
<1> SUFFICES ASSUME PoolInv, BooksInv, RewardStep PROVE HeldKept \/ PaysRewards
  OBVIOUS
<1>1. CASE UNCHANGED ammVars
  BY <1>1, IdleHeld DEF ammVars
<1> QED
  BY <1>1 DEF RewardStep, PaysRewards, GetUserReward, SetRewardsState, GetPoolRewards

LEMMA AdminHeld == PoolInv /\ BooksInv /\ AdminStep => HeldKept \/ PaysRewards
<1> SUFFICES ASSUME PoolInv, BooksInv, AdminStep PROVE HeldKept \/ PaysRewards
  OBVIOUS
<1>1. CASE UNCHANGED ammVars
  BY <1>1, IdleHeld DEF ammVars
<1> QED
  BY <1>1, ClaimFeesHeld
  DEF AdminStep, PaysRewards, SetProtocolFeeFraction, Kill, Unkill, SetRewardsConfig,
      AdjustTotalAccumulatedReward

LEMMA EnvHeld == PoolInv /\ BooksInv /\ EnvStep => HeldKept
<1> SUFFICES ASSUME PoolInv, BooksInv, EnvStep PROVE HeldKept
  OBVIOUS
<1>1. CASE UNCHANGED ammVars
  BY <1>1, IdleHeld DEF ammVars
<1>2. CASE SyncReserves
  BY <1>2, IdleHeld, RewardHeld DEF SyncReserves
<1>3. CASE BackfillPlane
  BY <1>3, IdleHeld DEF BackfillPlane
<1> QED
  BY <1>1, <1>2, <1>3, GiftHeld DEF EnvStep, ChangeLock, NextLedger

LEMMA StepHeld == PoolInv /\ BooksInv /\ [Next]_vars => HeldKept \/ PaysRewards
<1> SUFFICES ASSUME PoolInv, BooksInv, [Next]_vars PROVE HeldKept \/ PaysRewards
  OBVIOUS
<1>1. CASE UNCHANGED vars
  BY <1>1, IdleHeld DEF vars
<1> QED
  BY <1>1, UserHeld, RewardsCallHeld, AdminHeld, EnvHeld DEF Next

-----------------------------------------------------------------------------
(* What was promised                                                       *)

PromisedNow == Promised(rw, ledger, totalShares)

LEMMA FundedIs ==
    ASSUME PoolInv, BooksInv
    PROVE  /\ PromisedNow \in Int
           /\ Funded <=> PromisedNow + TokensOwed <= bal[Pool][RewardToken]
<1>1. /\ totalShares \in Nat /\ ledger \in Nat
      /\ RewardsOK(rw, shares, totalShares, ledger)
  BY DEF PoolInv, PoolTypes, BooksInv
<1>2. PromisedNow \in Int
  BY <1>1, PromisedType DEF PromisedNow
<1> QED
  BY <1>2 DEF Funded, PromisedNow, Promised, TokensOwed

LEMMA FundedIsNext ==
    (PoolInv /\ BooksInv)' =>
      (/\ PromisedNow \in Int
       /\ bal[Pool][RewardToken] \in Nat /\ TokensOwed \in Nat
       /\ Funded <=> PromisedNow + TokensOwed <= bal[Pool][RewardToken])'
<1>1. PoolInv /\ BooksInv =>
        /\ PromisedNow \in Int
        /\ bal[Pool][RewardToken] \in Nat /\ TokensOwed \in Nat
        /\ Funded <=> PromisedNow + TokensOwed <= bal[Pool][RewardToken]
  BY FundedIs, RewardHeld
<1> QED
  BY <1>1, PTL

LEMMA PromisedBrought ==
    ASSUME PoolInv, PoolInv', BooksInv, BooksInv', RewardsBrought
    PROVE  PromisedNow' = PromisedNow
<1>1. /\ totalShares \in Nat /\ ledger \in Nat /\ totalShares' \in Nat
      /\ RewardsOK(rw, shares, totalShares, ledger)
      /\ RewardsOK(rw', shares', totalShares', ledger) /\ ledger' = ledger
  BY DEF PoolInv, PoolTypes, BooksInv, RewardsBrought
<1> DEFINE p == UpdatePool(rw, ledger, totalShares)
<1>2. SameClock(rw', p) /\ UpToDate(rw', ledger)
  BY DEF RewardsBrought, Brought
<1>3. p.claimed \in Nat /\ p.claimed - p.claimed = 0
  <2>1. p \in RewardState
    BY <1>1, UpdatePoolClock
  <2> HIDE DEF p
  <2> QED
    BY <2>1 DEF RewardState
<1>4. rw'.tps = p.tps /\ rw'.expiredAt = p.expiredAt /\ rw'.acc = p.acc
      /\ rw'.claimed = p.claimed
  BY <1>2 DEF SameClock
<1>5. Promised(rw', ledger, totalShares')
        = Promised(rw, ledger, totalShares) + (p.claimed - rw'.claimed)
  BY <1>1, <1>2, <1>4, PromisedStays
<1>6. PromisedNow \in Int
  BY FundedIs
<1> HIDE DEF p
<1> QED
  BY <1>1, <1>3, <1>4, <1>5, <1>6 DEF PromisedNow

\* A claim pays what it takes off the promise, and nothing else.
LEMMA PromisedClaimed ==
    ASSUME PoolInv, PoolInv', BooksInv, BooksInv', NEW u \in Users, Claim(u)
    PROVE  \E paid \in Nat :
              /\ PromisedNow' = PromisedNow - paid
              /\ bal'[Pool][RewardToken] = bal[Pool][RewardToken] - paid
              /\ TokensOwed' = TokensOwed
<1> DEFINE due == Checkpoint(rw, u, totalShares, shares[u])
           paid == due.user[u].toClaim
           p == UpdatePool(rw, ledger, totalShares)
<1>1. /\ bal' = Move(bal, Pool, u, RewardToken, paid)
      /\ rw' = PayUser(due, u)
      /\ ledger' = ledger /\ totalShares' = totalShares /\ reserve' = reserve /\ fee' = fee
  BY DEF Claim, envVars
<1>2. /\ totalShares \in Nat /\ ledger \in Nat
      /\ RewardsOK(rw, shares, totalShares, ledger)
      /\ RewardsOK(rw', shares', totalShares, ledger)
      /\ shares[u] \in Nat /\ (rw.wb[u] = Unset => shares[u] = 0)
  BY <1>1 DEF PoolInv, PoolTypes, BooksInv, RewardsOK, ShareHolders
<1>3. /\ Brought(due, rw, ledger, totalShares)
      /\ RewardsOK(due, shares, totalShares, ledger)
  BY <1>2, CheckpointBrought
<1>4. SameClock(due, p) /\ UpToDate(due, ledger)
  BY <1>3 DEF Brought
<1> HIDE DEF due
<1>5. paid \in Nat /\ due \in RewardState
  BY <1>3 DEF RewardsOK, RewardState, UserReward
<1>6. /\ rw'.tps = due.tps /\ rw'.expiredAt = due.expiredAt /\ rw'.acc = due.acc
      /\ rw'.lastTime = due.lastTime /\ rw'.claimed = due.claimed + paid
  BY <1>1, <1>5, PayUserDue
<1>7. /\ rw'.tps = p.tps /\ rw'.expiredAt = p.expiredAt /\ rw'.acc = p.acc
      /\ rw'.claimed = p.claimed + paid
  BY <1>4, <1>6 DEF SameClock
<1>8. UpToDate(rw', ledger)
  BY <1>4, <1>6 DEF UpToDate, SnapshotTime
<1>9. Promised(rw', ledger, totalShares)
        = Promised(rw, ledger, totalShares) + (p.claimed - rw'.claimed)
  BY <1>2, <1>7, <1>8, PromisedStays
<1>10. p.claimed \in Nat
  <2>1. p \in RewardState
    BY <1>2, UpdatePoolClock
  <2> HIDE DEF p
  <2> QED
    BY <2>1 DEF RewardState
<1>11. PromisedNow \in Int
  BY FundedIs
<1>12. bal'[Pool][RewardToken] = bal[Pool][RewardToken] - paid
  BY <1>1, RewardHeld, MoveFacts
<1>13. TokensOwed' = TokensOwed
  BY <1>1 DEF TokensOwed
<1> HIDE DEF p, paid
<1>14. PromisedNow' = PromisedNow - paid
  BY <1>1, <1>5, <1>7, <1>9, <1>10, <1>11 DEF PromisedNow
<1> QED
  BY <1>5, <1>12, <1>13, <1>14

\* Setting the configuration that is there already.
LEMMA PromisedConfig ==
    ASSUME PoolInv, PoolInv', BooksInv, BooksInv', NEW caller, NEW e, NEW tps,
           SetRewardsConfig(caller, e, tps),
           rw'.tps = rw.tps, rw'.expiredAt = rw.expiredAt
    PROVE  PromisedNow' = PromisedNow
<1> DEFINE p == UpdatePool(rw, ledger, totalShares)
<1>1. /\ totalShares \in Nat /\ ledger \in Nat
      /\ RewardsOK(rw, shares, totalShares, ledger)
      /\ RewardsOK(rw', shares', totalShares, ledger)
      /\ rw' = SetRewardConfig(rw, ledger, totalShares, e, tps)
      /\ totalShares' = totalShares /\ ledger' = ledger
  BY DEF SetRewardsConfig, PoolInv, PoolTypes, BooksInv, ammVars, envVars
<1>2. CASE rw' = rw
  BY <1>1, <1>2 DEF PromisedNow
<1>3. CASE rw' # rw
  <2>1. /\ rw'.acc = p.acc /\ rw'.claimed = p.claimed
        /\ rw'.expiredAt \in Nat => UpToDate(rw', ledger)
    BY <1>1, <1>3, ConfigUpToDate
  <2>2. rw'.expiredAt \in Nat
    BY <1>1 DEF RewardsOK, RewardState
  <2>3. p.tps = rw.tps /\ p.expiredAt = rw.expiredAt /\ p \in RewardState
    BY <1>1, UpdatePoolClock
  <2>4. Promised(rw', ledger, totalShares)
          = Promised(rw, ledger, totalShares) + (p.claimed - rw'.claimed)
    BY <1>1, <2>1, <2>2, <2>3, PromisedStays
  <2>5. PromisedNow \in Int /\ p.claimed \in Nat
    <3> HIDE DEF p
    <3> QED
      BY <2>3, FundedIs DEF RewardState
  <2> HIDE DEF p
  <2> QED
    BY <1>1, <2>1, <2>4, <2>5 DEF PromisedNow
<1> QED
  BY <1>2, <1>3

\* get_unused_reward leaves what was promised, and the reserve.
LEMMA ReturnKeepsFunded ==
    ASSUME NoFeeInReward, FeeFree, PoolInv, PoolInv', BooksInv, BooksInv',
           NEW caller, ReturnUnusedReward(caller), Funded
    PROVE  Funded'
<1> DEFINE p == UpdatePool(rw, ledger, totalShares)
           h == bal[Pool][RewardToken]
           kept == IF RewardToken \in PoolTokens THEN reserve[RewardToken] ELSE 0
<1>1. /\ rw' = p /\ bal' = Move(bal, Pool, Outside, RewardToken, UnusedReward(p))
      /\ UNCHANGED <<totalShares, ledger, reserve, fee>>
  BY DEF ReturnUnusedReward, envVars
<1>2. RewardsBrought
  BY <1>1, PoolRewards
<1>3. PromisedNow' = PromisedNow /\ PromisedNow \in Int
  BY <1>2, PromisedBrought, FundedIs
<1>4. UnusedReward(p) = MaxOf(0, h - (PromisedNow + kept))
  BY DEF UnusedReward, PromisedNow, Promised
<1>5. TokensOwed = kept /\ TokensOwed' = kept
  <2>1. CASE RewardToken \in PoolTokens
    <3>1. fee[RewardToken] = 0 /\ reserve[RewardToken] \in Nat
      BY <2>1 DEF NoFeeInReward, FeeFree, Nothing, PoolInv, PoolTypes
    <3> QED
      BY <1>1, <2>1, <3>1 DEF TokensOwed
  <2>2. CASE RewardToken \notin PoolTokens
    BY <2>2 DEF TokensOwed
  <2> QED
    BY <2>1, <2>2
<1>6. h \in Nat /\ kept \in Nat
  BY <1>5, RewardHeld
<1>7. bal'[Pool][RewardToken] = h - UnusedReward(p)
  BY <1>1, RewardHeld, MoveFacts
<1>8. PromisedNow + kept <= h
  BY <1>5, FundedIs
<1>9. Funded' <=> PromisedNow' + TokensOwed' <= bal'[Pool][RewardToken]
  BY FundedIsNext
<1> HIDE DEF p, h, kept
<1> QED
  BY <1>3, <1>4, <1>5, <1>6, <1>7, <1>8, <1>9 DEF MaxOf

LEMMA ClaimKeepsFunded ==
    ASSUME PoolInv, PoolInv', BooksInv, BooksInv', NEW u \in Users, Claim(u), Funded
    PROVE  Funded'
<1>1. PICK paid \in Nat :
         /\ PromisedNow' = PromisedNow - paid
         /\ bal'[Pool][RewardToken] = bal[Pool][RewardToken] - paid
         /\ TokensOwed' = TokensOwed
  BY PromisedClaimed
<1>2. /\ PromisedNow \in Int /\ PromisedNow + TokensOwed <= bal[Pool][RewardToken]
      /\ TokensOwed \in Nat /\ bal[Pool][RewardToken] \in Nat
  BY FundedIs, RewardHeld
<1>3. Funded' <=> PromisedNow' + TokensOwed' <= bal'[Pool][RewardToken]
  BY FundedIsNext
<1> QED
  BY <1>1, <1>2, <1>3

\* A promise that does not grow, in a balance that follows what is owed.
LEMMA HeldKeepsFunded ==
    ASSUME PoolInv, PoolInv', BooksInv, BooksInv', HeldKept,
           PromisedNow' <= PromisedNow, Funded
    PROVE  Funded'
<1>1. /\ PromisedNow \in Int /\ PromisedNow + TokensOwed <= bal[Pool][RewardToken]
      /\ TokensOwed \in Nat /\ bal[Pool][RewardToken] \in Nat
  BY FundedIs, RewardHeld
<1>2. Funded' <=> PromisedNow' + TokensOwed' <= bal'[Pool][RewardToken]
  BY FundedIsNext
<1>3. PromisedNow' \in Int /\ TokensOwed' \in Nat /\ bal'[Pool][RewardToken] \in Nat
  BY FundedIsNext
<1> QED
  BY <1>1, <1>2, <1>3 DEF HeldKept

LEMMA FundedStep ==
    ASSUME NoFeeInReward, FeeFree, PoolInv, PoolInv', BooksInv, BooksInv', [Next]_vars,
           Funded, rw'.tps = rw.tps, rw'.expiredAt = rw.expiredAt,
           ~\E c \in Callers, d \in Diffs : AdjustTotalAccumulatedReward(c, d)
    PROVE  Funded'
<1>1. CASE PaysRewards
  BY <1>1, ClaimKeepsFunded, ReturnKeepsFunded DEF PaysRewards
<1>2. CASE HeldKept
  <2>1. PromisedNow \in Int /\ PromisedNow' \in Int
    BY FundedIs, FundedIsNext
  <2>2. CASE RewardsBrought
    BY <1>2, <2>1, <2>2, PromisedBrought, HeldKeepsFunded
  <2>3. CASE RewardsIdle
    <3>1. PromisedNow' = PromisedNow
      BY <2>3 DEF RewardsIdle, PromisedNow
    <3> QED
      BY <1>2, <2>1, <3>1, HeldKeepsFunded
  <2>4. CASE NextLedger
    <3>1. /\ totalShares \in Nat /\ ledger \in Nat
          /\ RewardsOK(rw, shares, totalShares, ledger)
      BY DEF PoolInv, PoolTypes, BooksInv
    <3>2. PromisedNow' = Promised(rw, ledger + 1, totalShares)
      BY <2>4 DEF NextLedger, ammVars, PromisedNow
    <3>3. PromisedNow' <= PromisedNow
      BY <3>1, <3>2, LaterPromised DEF PromisedNow
    <3> QED
      BY <1>2, <3>3, HeldKeepsFunded
  <2>5. ASSUME NEW u \in Users, Claim(u) PROVE Funded'
    BY <2>5, ClaimKeepsFunded
  <2>6. ASSUME NEW caller, NEW e, NEW tps, SetRewardsConfig(caller, e, tps) PROVE Funded'
    BY <1>2, <2>1, <2>6, PromisedConfig, HeldKeepsFunded
  <2>7. RewardsCases
    BY StepRewards
  <2> QED
    BY <2>2, <2>3, <2>4, <2>5, <2>6, <2>7 DEF RewardsCases
<1> QED
  BY <1>1, <1>2, StepHeld

\* A pool that holds the rewards it promised, beside its reserve and its
\* protocol fee, keeps them until they are claimed: every call moves the
\* promise (get_total_configured_reward less what was claimed) and the balance
\* together, a claim paying exactly what leaves the books, the passing of time
\* only turns what is to be generated into what was, and return_unused_reward
\* stops at the promise.
THEOREM FundedAlwaysStays ==
    ASSUME NoFeeInReward
    PROVE  Spec => FundedStays
<1>1. (PoolInv /\ BooksInv /\ FeeFree) /\ (PoolInv /\ BooksInv)' /\ [Next]_vars =>
        [/\ Funded
         /\ rw.tps' = rw.tps /\ rw.expiredAt' = rw.expiredAt
         /\ ~\E c \in Callers, d \in Diffs : AdjustTotalAccumulatedReward(c, d)
         => Funded']_vars
  BY FundedStep
<1> QED
  BY BooksInvariant, FeeFreeInvariant, <1>1, PTL DEF Spec, FundedStays
=============================================================================
