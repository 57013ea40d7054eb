--------------------------- MODULE RewardsProofs ---------------------------
(***************************************************************************)
(* The operators of RewardsManager keep the books of the rewards, whatever *)
(* pool applies them: the working supply stays the sum of the working      *)
(* balances, nobody gets ahead of the pool, and what all users together    *)
(* can claim stays within what was generated.  One lemma per operator; the *)
(* pools' proofs cite them.                                                *)
(***************************************************************************)
EXTENDS RewardsManager, Arithmetic

-----------------------------------------------------------------------------
(* The state of the rewards                                                *)

Working(r) == [u \in Users |-> Stored(r.wb[u])]

Balanced(r) == Stored(r.ws) = SumFunctionOnSet(Working(r), Users)

\* The rewards, next to the shares, the total of shares and the now: a
\* supply or a balance that was never stored stands for no shares at all.
RewardsOK(r, sh, total, now) ==
    /\ r \in RewardState
    /\ r.lastTime <= now
    /\ \A u \in Users : r.user[u].lastCum <= r.cum
    /\ r.ws = Unset => total = 0
    /\ \A u \in Users : r.wb[u] = Unset => sh[u] = 0
    /\ Balanced(r)

\* What only the working balances differ in.
SameBut(q, r) ==
    /\ q.tps = r.tps /\ q.expiredAt = r.expiredAt
    /\ q.acc = r.acc /\ q.claimed = r.claimed
    /\ q.lastTime = r.lastTime /\ q.cum = r.cum
    /\ q.on = r.on /\ q.excluded = r.excluded /\ q.user = r.user

LEMMA WorkingType ==
    ASSUME NEW r \in RewardState
    PROVE  /\ Working(r) \in [Users -> Nat]
           /\ Working(r) \in [Users -> Int]
BY DEF Working, RewardState, Stored, Unset

LEMMA InitWorkingFacts ==
    ASSUME NEW r \in RewardState, Balanced(r), NEW u \in Users,
           NEW total \in Nat, r.ws = Unset => total = 0,
           NEW n \in Nat, r.wb[u] = Unset => n = 0
    PROVE  /\ InitWorking(r, u, total, n) \in RewardState
           /\ Balanced(InitWorking(r, u, total, n))
           /\ InitWorking(r, u, total, n).ws \in Nat
           /\ InitWorking(r, u, total, n).wb[u] \in Nat
           /\ \A v \in Users : v # u => InitWorking(r, u, total, n).wb[v] = r.wb[v]
           /\ Working(InitWorking(r, u, total, n)) = Working(r)
           /\ SameBut(InitWorking(r, u, total, n), r)
<1> DEFINE p == InitWorkingBalance(r, u, n)
           q == InitWorkingSupply(p, total)
<1>1. q = InitWorking(r, u, total, n)
  BY DEF InitWorking
<1>2. /\ p \in RewardState /\ p.wb[u] \in Nat /\ p.ws = r.ws
      /\ \A v \in Users : v # u => p.wb[v] = r.wb[v]
      /\ Stored(p.wb[u]) = Stored(r.wb[u])
      /\ SameBut(p, r)
  BY DEF InitWorkingBalance, RewardState, Unset, Stored, SameBut
<1> HIDE DEF p
<1>3. /\ q \in RewardState /\ q.ws \in Nat /\ q.wb = p.wb
      /\ Stored(q.ws) = Stored(p.ws)
      /\ SameBut(q, p)
  BY <1>2 DEF InitWorkingSupply, RewardState, Unset, Stored, SameBut
<1> HIDE DEF q
<1>4. Working(q) = Working(r)
  BY <1>2, <1>3 DEF Working
<1>5. Balanced(q)
  BY <1>2, <1>3, <1>4 DEF Balanced
<1>6. SameBut(q, r)
  BY <1>2, <1>3 DEF SameBut
<1> QED
  BY <1>1, <1>2, <1>3, <1>4, <1>5, <1>6

LEMMA EffectiveBalanceType ==
    ASSUME NEW lock \in [Users -> Nat], NEW locked \in Nat, NEW r \in RewardState,
           NEW u \in Users, NEW total \in Nat, NEW n \in Nat
    PROVE  EffectiveBalance(r, lock, locked, u, n, total) \in Nat
<1> DEFINE share == IF r.on[u] THEN n ELSE 0
           part == (lock[u] * total) \div locked
<1>1. share \in Nat
  OBVIOUS
<1>2. lock[u] \in Nat
  OBVIOUS
<1>3. locked > 0 => part \in Nat
  <2>1. lock[u] * total \in Nat
    BY <1>2, MulNat
  <2> QED
    BY <1>2, <2>1, DivFacts
<1>4. EffectiveBalance(r, lock, locked, u, n, total)
        = AtMost(IF locked > 0 THEN share + (3 * part) \div 2 ELSE share,
                 (share * 5) \div 2)
  BY DEF EffectiveBalance
<1> HIDE DEF share, part
<1>5. (share * 5) \div 2 \in Nat
  BY <1>1
<1>6. locked > 0 => share + (3 * part) \div 2 \in Nat
  BY <1>1, <1>3
<1> QED
  BY <1>1, <1>4, <1>5, <1>6 DEF AtMost

\* The supply is never less than the balance it is corrected by, so that the
\* subtraction in update_working_balance cannot underflow.
LEMMA UpdateWorkingFacts ==
    ASSUME NEW lock \in [Users -> Nat], NEW locked \in Nat,
           NEW r \in RewardState, Balanced(r), NEW u \in Users,
           NEW total \in Nat, r.ws = Unset => total = 0,
           NEW n \in Nat, r.wb[u] = Unset => n = 0
    PROVE  LET q == UpdateWorkingBalance(r, lock, locked, u, total, n)
           IN /\ q \in RewardState /\ Balanced(q)
              /\ q.ws \in Nat /\ q.wb[u] \in Nat
              /\ \A v \in Users : v # u => q.wb[v] = r.wb[v]
              /\ SameBut(q, r)
<1> DEFINE i == InitWorking(r, u, total, n)
           new == EffectiveBalance(r, lock, locked, u, n, total)
           supply == i.ws + new - i.wb[u]
           q == [i EXCEPT !.ws = supply, !.wb[u] = new]
<1>1. /\ i \in RewardState /\ Balanced(i)
      /\ i.ws \in Nat /\ i.wb[u] \in Nat
      /\ \A v \in Users : v # u => i.wb[v] = r.wb[v]
      /\ SameBut(i, r)
  BY InitWorkingFacts
<1>2. UpdateWorkingBalance(r, lock, locked, u, total, n) = q
  BY DEF UpdateWorkingBalance
<1> HIDE DEF i
<1>3. new \in Nat
  BY <1>1, EffectiveBalanceType
<1> HIDE DEF new
<1>4. i.wb[u] <= i.ws
  <2>1. Working(i)[u] = i.wb[u] /\ Stored(i.ws) = i.ws
    BY <1>1 DEF Working, Stored, Unset
  <2>2. Working(i)[u] <= SumFunctionOnSet(Working(i), Users)
    BY <1>1, WorkingType, SumAtLeast, UsersAssumption
  <2> QED
    BY <1>1, <2>1, <2>2 DEF Balanced
<1>5. /\ q.ws = i.ws + new - i.wb[u]
      /\ q.wb = [i.wb EXCEPT ![u] = new]
      /\ q \in RewardState
      /\ SameBut(q, i)
  <2>1. supply \in Nat
    BY <1>1, <1>3, <1>4
  <2> HIDE DEF supply
  <2>2. q.ws = supply /\ q.wb = [i.wb EXCEPT ![u] = new] /\ SameBut(q, i)
    BY <1>1 DEF RewardState, SameBut
  <2>3. q \in RewardState
    BY <1>1, <1>3, <2>1 DEF RewardState
  <2> QED
    BY <2>2, <2>3 DEF supply
<1> HIDE DEF q
<1>6. q.ws \in Nat
  BY <1>1, <1>3, <1>4, <1>5
<1>7. /\ q.wb[u] = new
      /\ \A v \in Users : v # u => q.wb[v] = i.wb[v]
  BY <1>1, <1>5 DEF RewardState
<1>8. Balanced(q)
  <2>1. /\ Working(i)[u] = i.wb[u] /\ Working(q)[u] = new
        /\ \A v \in Users \ {u} : Working(i)[v] = Working(q)[v]
    BY <1>1, <1>3, <1>7 DEF Working, Stored, Unset
  <2>2. SumFunctionOnSet(Working(q), Users)
          = SumFunctionOnSet(Working(i), Users) + Working(q)[u] - Working(i)[u]
    BY <1>1, <1>5, <2>1, WorkingType, SumChange, UsersAssumption
  <2>3. Stored(q.ws) = q.ws /\ Stored(i.ws) = i.ws
    BY <1>1, <1>6 DEF Stored, Unset
  <2> QED
    BY <1>1, <1>5, <2>1, <2>2, <2>3 DEF Balanced
<1>9. SameBut(q, r) /\ \A v \in Users : v # u => q.wb[v] = r.wb[v]
  BY <1>1, <1>5, <1>7 DEF SameBut
<1> QED
  BY <1>2, <1>3, <1>5, <1>6, <1>7, <1>8, <1>9

\* What a snapshot leaves alone.
SameBooks(q, r) == q.ws = r.ws /\ q.wb = r.wb

LEMMA YieldFacts ==
    ASSUME NEW r \in RewardState, NEW t \in Nat, r.lastTime <= t, NEW supply \in Nat
    PROVE  /\ Yield(r, t, supply) \in RewardState
           /\ Yield(r, t, supply).lastTime = t
           /\ r.cum <= Yield(r, t, supply).cum
           /\ Yield(r, t, supply).user = r.user
           /\ Yield(r, t, supply).expiredAt = r.expiredAt
           /\ SameBooks(Yield(r, t, supply), r)
<1> DEFINE generated == (t - r.lastTime) * r.tps
           step == (RewardPrecision * generated) \div supply
<1>1. r.lastTime \in Nat /\ r.tps \in Nat /\ r.cum \in Nat /\ r.acc \in Nat
  BY DEF RewardState
<1>2. generated \in Nat
  <2>1. t - r.lastTime \in Nat
    BY <1>1
  <2> QED
    BY <1>1, <2>1, MulNat
<1>3. Yield(r, t, supply) =
        IF supply = 0 THEN [r EXCEPT !.lastTime = t]
        ELSE [r EXCEPT !.lastTime = t, !.acc = @ + generated, !.cum = @ + step]
  BY DEF Yield
<1> HIDE DEF generated
<1>4. supply # 0 => step \in Nat
  <2>1. RewardPrecision * generated \in Nat
    BY <1>2, RewardPrecisionAssumption, MulNat
  <2> QED
    BY <2>1, DivFacts
<1> HIDE DEF step
<1>5. r.acc + generated \in Nat /\ (supply # 0 => r.cum + step \in Nat /\ r.cum <= r.cum + step)
  BY <1>1, <1>2, <1>4
<1>6. CASE supply = 0
  BY <1>1, <1>3, <1>6 DEF RewardState, SameBooks
<1>7. CASE supply # 0
  BY <1>3, <1>5, <1>7 DEF RewardState, SameBooks
<1> QED
  BY <1>6, <1>7

LEMMA UpdateRewardsFacts ==
    ASSUME NEW r \in RewardState, NEW now \in Nat, r.lastTime <= now, NEW supply \in Nat
    PROVE  LET q == UpdateRewardsData(r, now, supply)
           IN /\ q \in RewardState /\ q.lastTime <= now /\ r.cum <= q.cum
              /\ q.user = r.user /\ SameBooks(q, r)
<1>1. r.lastTime \in Nat /\ r.expiredAt \in Nat /\ r.cum \in Nat
  BY DEF RewardState
<1>2. CASE now <= r.expiredAt
  BY <1>1, <1>2, YieldFacts DEF UpdateRewardsData
<1>3. CASE now > r.expiredAt /\ r.lastTime < r.expiredAt
  <2>1. UpdateRewardsData(r, now, supply) = Yield(r, r.expiredAt, supply)
    BY <1>1, <1>3 DEF UpdateRewardsData
  <2> QED
    BY <1>1, <1>3, <2>1, YieldFacts
<1>4. CASE now > r.expiredAt /\ ~(r.lastTime < r.expiredAt)
  BY <1>1, <1>4 DEF UpdateRewardsData, SameBooks
<1> QED
  BY <1>1, <1>2, <1>3, <1>4

\* The user is never ahead of the pool.
LEMMA UpdateUserFacts ==
    ASSUME NEW r \in RewardState, \A v \in Users : r.user[v].lastCum <= r.cum,
           NEW u \in Users, NEW balance \in Nat
    PROVE  LET q == UpdateUserReward(r, u, balance)
           IN /\ q \in RewardState /\ q.lastTime = r.lastTime
              /\ \A v \in Users : q.user[v].lastCum <= q.cum
              /\ SameBooks(q, r)
<1> DEFINE d == r.user[u]
           due == d.toClaim + IF balance = 0 THEN 0 ELSE NewUserReward(r, u, balance)
<1>1. /\ d \in UserReward /\ d.lastCum \in Nat /\ d.toClaim \in Nat
      /\ r.cum \in Nat /\ r.acc \in Nat /\ d.lastCum <= r.cum
  BY DEF RewardState, UserReward
<1>2. due \in Nat
  <2>1. (r.cum - d.lastCum) * balance \in Nat
    <3>1. r.cum - d.lastCum \in Nat
      BY <1>1
    <3> QED
      BY <3>1, MulNat
  <2>2. NewUserReward(r, u, balance) \in Nat
    BY <2>1, RewardPrecisionAssumption, DivFacts DEF NewUserReward
  <2> QED
    BY <1>1, <2>2
<1> HIDE DEF due
<1>3. ASSUME NEW n \in Nat
      PROVE  /\ CreateUserData(r, u, n) \in RewardState
             /\ CreateUserData(r, u, n).lastTime = r.lastTime
             /\ \A v \in Users :
                  CreateUserData(r, u, n).user[v].lastCum <= CreateUserData(r, u, n).cum
             /\ SameBooks(CreateUserData(r, u, n), r)
  <2> DEFINE e == [seen |-> TRUE, lastCum |-> r.cum, poolAcc |-> r.acc, toClaim |-> n]
             f == [r.user EXCEPT ![u] = e]
  <2>1. e \in UserReward /\ e.lastCum = r.cum
    BY <1>1 DEF UserReward
  <2> HIDE DEF e
  <2>2. f \in [Users -> UserReward] /\ \A v \in Users : f[v].lastCum <= r.cum
    BY <1>1, <2>1 DEF RewardState
  <2> HIDE DEF f
  <2>3. CreateUserData(r, u, n) = [r EXCEPT !.user = f]
    BY DEF CreateUserData, f, e, RewardState
  <2> QED
    BY <2>2, <2>3 DEF RewardState, SameBooks
<1>4. UpdateUserReward(r, u, balance)
        = IF ~d.seen THEN CreateUserData(r, u, 0)
          ELSE IF d.poolAcc = r.acc THEN r
          ELSE CreateUserData(r, u, due)
  BY DEF UpdateUserReward, due
<1> QED
  BY <1>2, <1>3, <1>4 DEF SameBooks

-----------------------------------------------------------------------------
(* What the users can claim is covered                                     *)

\* What a user has coming at the scale of the reward-per-share values, before
\* any rounding, for a working balance w[u].
Pots(r, w) ==
    [u \in Users |-> RewardPrecision * r.user[u].toClaim
        + IF r.user[u].seen THEN (r.cum - r.user[u].lastCum) * w[u] ELSE 0]

\* A user whose accumulated total is the pool's has seen every value of the
\* blocks: the comparison in update_user_reward never hides a reward.
NothingHidden(r) ==
    \A u \in Users :
        IF r.user[u].seen
        THEN /\ r.user[u].poolAcc <= r.acc
             /\ r.user[u].poolAcc = r.acc => r.user[u].lastCum = r.cum
        ELSE r.user[u].toClaim = 0

CoveredBy(r, w) ==
    /\ NothingHidden(r)
    /\ RewardPrecision * r.claimed + SumFunctionOnSet(Pots(r, w), Users)
         <= RewardPrecision * r.acc

Covered(r) == CoveredBy(r, Working(r))

CaughtUp(r, u) == r.user[u].seen /\ r.user[u].lastCum = r.cum

LEMMA PotsType ==
    ASSUME NEW r \in RewardState, \A v \in Users : r.user[v].lastCum <= r.cum,
           NEW w \in [Users -> Nat]
    PROVE  /\ Pots(r, w) \in [Users -> Nat]
           /\ Pots(r, w) \in [Users -> Int]
           /\ SumFunctionOnSet(Pots(r, w), Users) \in Nat
<1>1. ASSUME NEW u \in Users
      PROVE  RewardPrecision * r.user[u].toClaim
               + (IF r.user[u].seen THEN (r.cum - r.user[u].lastCum) * w[u] ELSE 0) \in Nat
  <2>1. /\ r.user[u].toClaim \in Nat /\ r.user[u].lastCum \in Nat /\ r.cum \in Nat
        /\ r.user[u].lastCum <= r.cum /\ RewardPrecision \in Nat
    BY RewardPrecisionAssumption DEF RewardState, UserReward
  <2>2. r.cum - r.user[u].lastCum \in Nat
    BY <2>1
  <2>3. (r.cum - r.user[u].lastCum) * w[u] \in Nat /\ RewardPrecision * r.user[u].toClaim \in Nat
    BY <2>1, <2>2, MulNat
  <2> QED
    BY <2>3
<1>2. Pots(r, w) \in [Users -> Nat]
  BY <1>1 DEF Pots
<1>3. Pots(r, w) \in [Users -> Int]
  BY <1>2
<1>4. SumFunctionOnSet(Pots(r, w), Users) \in Nat
  BY <1>2, <1>3, SumNat, UsersAssumption
<1> QED
  BY <1>2, <1>3, <1>4

\* What only the settings differ in.
SameAccounts(q, r) ==
    q.acc = r.acc /\ q.claimed = r.claimed /\ q.cum = r.cum /\ q.user = r.user

LEMMA SameCovered ==
    ASSUME NEW q, NEW r, SameAccounts(q, r), NEW w, CoveredBy(r, w)
    PROVE  CoveredBy(q, w)
<1>1. Pots(q, w) = Pots(r, w)
  BY DEF Pots, SameAccounts
<1>2. NothingHidden(q)
  BY DEF NothingHidden, SameAccounts, CoveredBy
<1> QED
  BY <1>1, <1>2 DEF SameAccounts, CoveredBy

\* The working balance of a user who has caught up may change.
LEMMA CaughtUpCovered ==
    ASSUME NEW r \in RewardState, NEW u \in Users, CaughtUp(r, u),
           NEW w \in [Users -> Nat], NEW x \in [Users -> Nat],
           \A v \in Users : v # u => x[v] = w[v],
           CoveredBy(r, w)
    PROVE  CoveredBy(r, x)
<1>1. r.cum \in Nat
  BY DEF RewardState
<1>2. ASSUME NEW v \in Users
      PROVE  (IF r.user[v].seen THEN (r.cum - r.user[v].lastCum) * x[v] ELSE 0)
               = (IF r.user[v].seen THEN (r.cum - r.user[v].lastCum) * w[v] ELSE 0)
  <2>1. CASE v = u
    <3>1. r.cum - r.user[u].lastCum = 0
      BY <1>1 DEF CaughtUp
    <3>2. 0 * x[u] = 0 /\ 0 * w[u] = 0
      OBVIOUS
    <3> QED
      BY <2>1, <3>1, <3>2
  <2>2. CASE v # u
    BY <2>2
  <2> QED
    BY <2>1, <2>2
<1>3. Pots(r, x) = Pots(r, w)
  BY <1>2, Zenon DEF Pots
<1> QED
  BY <1>3 DEF CoveredBy

\* A snapshot spreads at most what it adds to the total, as the quotient by the
\* supply is rounded down and the balances sum up to no more than the supply.
LEMMA YieldCovers ==
    ASSUME NEW r \in RewardState, NEW t \in Nat, r.lastTime <= t, NEW supply \in Nat,
           \A v \in Users : r.user[v].lastCum <= r.cum,
           NEW w \in [Users -> Nat], SumFunctionOnSet(w, Users) <= supply,
           CoveredBy(r, w)
    PROVE  CoveredBy(Yield(r, t, supply), w)
<1> DEFINE generated == (t - r.lastTime) * r.tps
           step == (RewardPrecision * generated) \div supply
           q == Yield(r, t, supply)
           sum == SumFunctionOnSet(w, Users)
<1>1. /\ r.lastTime \in Nat /\ r.tps \in Nat /\ r.cum \in Nat /\ r.acc \in Nat
      /\ r.claimed \in Nat /\ RewardPrecision \in Nat
      /\ \A v \in Users : r.user[v].lastCum \in Nat /\ r.user[v].poolAcc \in Nat
  BY RewardPrecisionAssumption DEF RewardState, UserReward
<1>2. generated \in Nat
  <2>1. t - r.lastTime \in Nat
    BY <1>1
  <2> QED
    BY <1>1, <2>1, MulNat
<1>3. q = IF supply = 0 THEN [r EXCEPT !.lastTime = t]
          ELSE [r EXCEPT !.lastTime = t, !.acc = @ + generated, !.cum = @ + step]
  BY DEF Yield
<1>4. q \in RewardState /\ q.user = r.user /\ r.cum <= q.cum
  BY YieldFacts
<1> HIDE DEF q
<1>5. CASE supply = 0
  <2>1. SameAccounts(q, r)
    BY <1>3, <1>5 DEF SameAccounts, RewardState
  <2> QED
    BY <2>1, SameCovered DEF q
<1>6. CASE supply # 0
  <2>1. /\ q.acc = r.acc + generated /\ q.cum = r.cum + step
        /\ q.user = r.user /\ q.claimed = r.claimed
    BY <1>3, <1>6 DEF RewardState
  <2>2. step \in Nat /\ step * supply <= RewardPrecision * generated
    <3>1. RewardPrecision * generated \in Nat
      BY <1>1, <1>2, MulNat
    <3> QED
      BY <1>6, <3>1, DivFacts
  <2>3. generated = 0 => step = 0
    <3>1. generated = 0 => step * supply <= 0
      BY <1>1, <2>2
    <3> HIDE DEF generated, step
    <3> QED
      BY <1>6, <2>2, <3>1
  <2> HIDE DEF generated, step
  <2>4. NothingHidden(q)
    <3> SUFFICES ASSUME NEW u \in Users
                 PROVE  IF q.user[u].seen
                        THEN /\ q.user[u].poolAcc <= q.acc
                             /\ q.user[u].poolAcc = q.acc => q.user[u].lastCum = q.cum
                        ELSE q.user[u].toClaim = 0
      BY DEF NothingHidden
    <3>1. IF r.user[u].seen
          THEN /\ r.user[u].poolAcc <= r.acc
               /\ r.user[u].poolAcc = r.acc => r.user[u].lastCum = r.cum
          ELSE r.user[u].toClaim = 0
      BY DEF CoveredBy, NothingHidden
    <3>2. r.user[u].poolAcc \in Nat /\ r.user[u].lastCum \in Nat
      BY <1>1
    <3> QED
      BY <1>1, <1>2, <2>1, <2>2, <2>3, <3>1, <3>2
  <2>5. ASSUME NEW u \in Users PROVE Pots(q, w)[u] <= Pots(r, w)[u] + step * w[u]
    <3>1. (q.cum - r.user[u].lastCum) * w[u] = (r.cum - r.user[u].lastCum) * w[u] + step * w[u]
      BY <1>1, <2>1, <2>2
    <3>2. step * w[u] \in Nat /\ (r.cum - r.user[u].lastCum) * w[u] \in Int
          /\ RewardPrecision * r.user[u].toClaim \in Int
      <4>1. r.user[u].toClaim \in Nat /\ r.cum - r.user[u].lastCum \in Int
        BY <1>1 DEF RewardState, UserReward
      <4> QED
        BY <1>1, <2>2, <4>1, MulNat
    <3>3. Pots(q, w)[u] = RewardPrecision * r.user[u].toClaim
            + IF r.user[u].seen THEN (q.cum - r.user[u].lastCum) * w[u] ELSE 0
      BY <2>1 DEF Pots
    <3>4. Pots(r, w)[u] = RewardPrecision * r.user[u].toClaim
            + IF r.user[u].seen THEN (r.cum - r.user[u].lastCum) * w[u] ELSE 0
      BY DEF Pots
    <3> QED
      BY <3>1, <3>2, <3>3, <3>4
  <2>6. SumFunctionOnSet(Pots(q, w), Users) <= SumFunctionOnSet(Pots(r, w), Users) + step * sum
    <3>1. \A v \in Users : q.user[v].lastCum <= q.cum
      BY <1>1, <2>1, <2>2
    <3>2. Pots(q, w) \in [Users -> Int] /\ Pots(r, w) \in [Users -> Int] /\ w \in [Users -> Int]
      BY <1>4, <3>1, PotsType
    <3> QED
      BY <2>2, <2>5, <3>2, SumGrowth, UsersAssumption
  <2>7. step * sum <= step * supply
    <3>1. sum \in Nat
      <4>1. w \in [Users -> Int]
        OBVIOUS
      <4> QED BY <4>1, SumNat, UsersAssumption
    <3> HIDE DEF sum
    <3> QED
      BY <2>2, <3>1, MulMono DEF sum
  <2>8. RewardPrecision * q.acc = RewardPrecision * r.acc + RewardPrecision * generated
    BY <1>1, <1>2, <2>1
  <2>9. RewardPrecision * q.claimed + SumFunctionOnSet(Pots(q, w), Users) <= RewardPrecision * q.acc
    <3> DEFINE a == SumFunctionOnSet(Pots(r, w), Users)
               b == SumFunctionOnSet(Pots(q, w), Users)
               c == RewardPrecision * r.claimed
               d == RewardPrecision * r.acc
               e == RewardPrecision * generated
               f == step * sum
               g == step * supply
    <3>1. /\ a \in Int /\ b \in Int
      <4>1. \A v \in Users : q.user[v].lastCum <= q.cum
        BY <1>1, <2>1, <2>2
      <4> QED
        BY <1>4, <4>1, PotsType
    <3>2. c \in Int /\ d \in Int /\ e \in Int /\ g \in Int /\ f \in Int
      <4>1. sum \in Int
        <5>1. w \in [Users -> Int]
          OBVIOUS
        <5> QED BY <5>1, SumInt, UsersAssumption
      <4> HIDE DEF sum
      <4> QED
        BY <1>1, <1>2, <2>2, <4>1
    <3>3. c + a <= d /\ b <= a + f /\ f <= g /\ g <= e
      BY <2>2, <2>6, <2>7 DEF CoveredBy
    <3>4. RewardPrecision * q.claimed = c /\ RewardPrecision * q.acc = d + e
      BY <2>1, <2>8
    <3> HIDE DEF a, b, c, d, e, f, g
    <3>5. c + b <= d + e
      BY <3>1, <3>2, <3>3
    <3> QED
      BY <3>4, <3>5 DEF b
  <2> QED
    BY <2>4, <2>9 DEF CoveredBy, q
<1> QED
  BY <1>5, <1>6

LEMMA UpdateRewardsCovers ==
    ASSUME NEW r \in RewardState, NEW now \in Nat, r.lastTime <= now, NEW supply \in Nat,
           \A v \in Users : r.user[v].lastCum <= r.cum,
           NEW w \in [Users -> Nat], SumFunctionOnSet(w, Users) <= supply,
           CoveredBy(r, w)
    PROVE  CoveredBy(UpdateRewardsData(r, now, supply), w)
<1>1. r.lastTime \in Nat /\ r.expiredAt \in Nat
  BY DEF RewardState
<1>2. CASE now <= r.expiredAt
  BY <1>2, YieldCovers DEF UpdateRewardsData
<1>3. CASE now > r.expiredAt /\ r.lastTime < r.expiredAt
  <2>1. UpdateRewardsData(r, now, supply) = Yield(r, r.expiredAt, supply)
    BY <1>1, <1>3 DEF UpdateRewardsData
  <2> QED
    BY <1>1, <1>3, <2>1, YieldCovers
<1>4. CASE now > r.expiredAt /\ ~(r.lastTime < r.expiredAt)
  BY <1>1, <1>4 DEF UpdateRewardsData
<1> QED
  BY <1>1, <1>2, <1>3, <1>4

\* A user's checkpoint moves his pot to what he can claim, rounded down.
LEMMA UpdateUserCovers ==
    ASSUME NEW r \in RewardState, \A v \in Users : r.user[v].lastCum <= r.cum,
           NEW u \in Users, NEW w \in [Users -> Nat], CoveredBy(r, w)
    PROVE  /\ CoveredBy(UpdateUserReward(r, u, w[u]), w)
           /\ CaughtUp(UpdateUserReward(r, u, w[u]), u)
<1> DEFINE d == r.user[u]
           extra == IF w[u] = 0 THEN 0 ELSE NewUserReward(r, u, w[u])
           n == IF d.seen THEN d.toClaim + extra ELSE 0
           q == CreateUserData(r, u, n)
<1>1. /\ d.lastCum \in Nat /\ d.toClaim \in Nat /\ d.poolAcc \in Nat
      /\ r.cum \in Nat /\ r.acc \in Nat /\ d.lastCum <= r.cum
      /\ RewardPrecision \in Nat \ {0} /\ w[u] \in Nat /\ r.claimed \in Nat
  BY RewardPrecisionAssumption DEF RewardState, UserReward
<1>2. NothingHidden(r)
  BY DEF CoveredBy
<1>3. UpdateUserReward(r, u, w[u]) = IF d.seen /\ d.poolAcc = r.acc THEN r ELSE q
  BY DEF UpdateUserReward
<1>4. CASE d.seen /\ d.poolAcc = r.acc
  <2>1. CaughtUp(r, u)
    BY <1>2, <1>4 DEF CaughtUp, NothingHidden
  <2> QED
    BY <1>3, <1>4, <2>1
<1>5. CASE ~(d.seen /\ d.poolAcc = r.acc)
  <2> DEFINE due == (r.cum - d.lastCum) * w[u]
  <2>1. due \in Nat
    <3>1. r.cum - d.lastCum \in Nat
      BY <1>1
    <3> QED
      BY <1>1, <3>1, MulNat
  <2>2. extra \in Nat /\ RewardPrecision * extra <= due
    <3>1. due \div RewardPrecision \in Nat /\ (due \div RewardPrecision) * RewardPrecision <= due
      <4> HIDE DEF due
      <4> QED BY <1>1, <2>1, DivFacts
    <3>2. extra = 0 \/ extra = due \div RewardPrecision
      BY DEF NewUserReward
    <3> HIDE DEF due, extra
    <3> QED
      BY <1>1, <2>1, <3>1, <3>2
  <2> HIDE DEF extra
  <2>3. n \in Nat
    BY <1>1, <2>2
  <2>4. /\ q.acc = r.acc /\ q.cum = r.cum /\ q.claimed = r.claimed
        /\ q.user[u] = [seen |-> TRUE, lastCum |-> r.cum, poolAcc |-> r.acc, toClaim |-> n]
        /\ \A v \in Users : v # u => q.user[v] = r.user[v]
    BY DEF CreateUserData, RewardState
  <2>5. q \in RewardState /\ \A v \in Users : q.user[v].lastCum <= q.cum
    BY <1>3, <1>5, UpdateUserFacts
  <2> HIDE DEF q
  <2>6. CaughtUp(q, u)
    BY <2>4 DEF CaughtUp
  <2>7. NothingHidden(q)
    <3> SUFFICES ASSUME NEW v \in Users
                 PROVE  IF q.user[v].seen
                        THEN /\ q.user[v].poolAcc <= q.acc
                             /\ q.user[v].poolAcc = q.acc => q.user[v].lastCum = q.cum
                        ELSE q.user[v].toClaim = 0
      BY DEF NothingHidden
    <3>1. CASE v = u
      BY <1>1, <2>4, <3>1
    <3>2. CASE v # u
      BY <1>2, <2>4, <3>2 DEF NothingHidden
    <3> QED
      BY <3>1, <3>2
  <2>8. Pots(q, w)[u] <= Pots(r, w)[u]
    <3>1. Pots(q, w)[u] = RewardPrecision * n
      <4>1. (q.cum - q.user[u].lastCum) * w[u] = 0
        BY <1>1, <2>4
      <4>2. RewardPrecision * n \in Nat
        BY <1>1, <2>3, MulNat
      <4> HIDE DEF n
      <4> QED
        BY <2>4, <4>1, <4>2 DEF Pots
    <3>2. Pots(r, w)[u] = RewardPrecision * d.toClaim + IF d.seen THEN due ELSE 0
      BY DEF Pots
    <3>3. CASE d.seen
      <4>1. RewardPrecision * n = RewardPrecision * d.toClaim + RewardPrecision * extra
        BY <1>1, <2>2, <3>3
      <4>2. RewardPrecision * d.toClaim \in Int /\ RewardPrecision * extra \in Int
        BY <1>1, <2>2
      <4> HIDE DEF due, n
      <4> QED
        BY <2>1, <2>2, <3>1, <3>2, <3>3, <4>1, <4>2
    <3>4. CASE ~d.seen
      <4>1. n = 0 /\ d.toClaim = 0 /\ RewardPrecision * 0 = 0
        BY <1>1, <1>2, <3>4 DEF NothingHidden
      <4> QED
        BY <3>1, <3>2, <3>4, <4>1
    <3> QED
      BY <3>3, <3>4
  <2>9. SumFunctionOnSet(Pots(q, w), Users) <= SumFunctionOnSet(Pots(r, w), Users)
    <3>1. Pots(q, w) \in [Users -> Int] /\ Pots(r, w) \in [Users -> Int]
          /\ SumFunctionOnSet(Pots(r, w), Users) \in Nat
      BY <2>5, PotsType
    <3>2. \A v \in Users \ {u} : Pots(r, w)[v] = Pots(q, w)[v]
      BY <2>4 DEF Pots
    <3>3. SumFunctionOnSet(Pots(q, w), Users)
            = SumFunctionOnSet(Pots(r, w), Users) + Pots(q, w)[u] - Pots(r, w)[u]
      BY <3>1, <3>2, SumChange, UsersAssumption
    <3>4. Pots(q, w)[u] \in Int /\ Pots(r, w)[u] \in Int
      BY <3>1
    <3> QED
      BY <2>8, <3>1, <3>3, <3>4
  <2>10. CoveredBy(q, w)
    <3> DEFINE a == SumFunctionOnSet(Pots(r, w), Users)
               b == SumFunctionOnSet(Pots(q, w), Users)
               c == RewardPrecision * r.claimed
               e == RewardPrecision * r.acc
    <3>1. a \in Int /\ b \in Int /\ c \in Int /\ e \in Int
      BY <1>1, <2>5, PotsType
    <3>2. c + a <= e /\ b <= a
      BY <2>9 DEF CoveredBy
    <3> HIDE DEF a, b, c, e
    <3>3. c + b <= e
      BY <3>1, <3>2
    <3> QED
      BY <2>4, <2>7, <3>3 DEF CoveredBy, b, c, e
  <2> QED
    BY <1>3, <1>5, <2>6, <2>10 DEF q
<1> QED
  BY <1>4, <1>5

-----------------------------------------------------------------------------
(* The operations of the library keep the books                            *)

\* Everything is stored for u, and nothing that was stored is lost.
KnownFor(q, r, u) ==
    /\ q.ws # Unset /\ q.wb[u] # Unset
    /\ \A v \in Users : v # u => q.wb[v] = r.wb[v]

\* With everything stored for u, his shares and the total may change.
LEMMA SharesMoveOK ==
    ASSUME NEW q, NEW r, NEW sh, NEW ts, NEW now, RewardsOK(q, sh, ts, now),
           NEW u \in Users, KnownFor(q, r, u),
           NEW new, \A v \in Users : v # u => new[v] = sh[v], NEW total
    PROVE  RewardsOK(q, new, total, now)
BY DEF RewardsOK, KnownFor

LEMMA CheckpointFacts ==
    ASSUME NEW lock \in [Users -> Nat], NEW locked \in Nat, NEW now \in Nat,
           NEW r, NEW sh, NEW ts, RewardsOK(r, sh, ts, now),
           NEW u \in Users, NEW total \in Nat, NEW n \in Nat,
           r.ws = Unset => total = 0, r.wb[u] = Unset => n = 0
    PROVE  /\ RewardsOK(CheckpointUser(r, lock, locked, now, u, total, n), sh, ts, now)
           /\ KnownFor(CheckpointUser(r, lock, locked, now, u, total, n), r, u)
           /\ Covered(r) => /\ Covered(CheckpointUser(r, lock, locked, now, u, total, n))
                            /\ CaughtUp(CheckpointUser(r, lock, locked, now, u, total, n), u)
<1> DEFINE prev == InitWorking(r, u, total, n)
           next == UpdateWorkingBalance(r, lock, locked, u, total, n)
           mid  == UpdateRewardsData(next, now, prev.ws)
           q    == UpdateUserReward(mid, u, prev.wb[u])
<1>1. /\ r \in RewardState /\ Balanced(r) /\ r.lastTime <= now
      /\ \A v \in Users : r.user[v].lastCum <= r.cum
      /\ \A v \in Users : r.wb[v] = Unset => sh[v] = 0
  BY DEF RewardsOK
<1>2. /\ prev \in RewardState /\ prev.ws \in Nat /\ prev.wb[u] \in Nat
      /\ Balanced(prev) /\ Working(prev) = Working(r)
  BY <1>1, InitWorkingFacts
<1>3. /\ next \in RewardState /\ Balanced(next)
      /\ next.ws \in Nat /\ next.wb[u] \in Nat
      /\ \A v \in Users : v # u => next.wb[v] = r.wb[v]
      /\ SameBut(next, r)
  BY <1>1, UpdateWorkingFacts
<1>4. CheckpointUser(r, lock, locked, now, u, total, n) = q
  BY DEF CheckpointUser
<1> HIDE DEF prev, next
<1>5. /\ mid \in RewardState /\ mid.lastTime <= now /\ next.cum <= mid.cum
      /\ mid.user = next.user /\ SameBooks(mid, next)
  BY <1>1, <1>2, <1>3, UpdateRewardsFacts DEF SameBut
<1> HIDE DEF mid
<1>6. \A v \in Users : mid.user[v].lastCum <= mid.cum
  <2> SUFFICES ASSUME NEW v \in Users PROVE mid.user[v].lastCum <= mid.cum
    OBVIOUS
  <2>1. mid.user[v].lastCum = r.user[v].lastCum /\ r.user[v].lastCum <= r.cum /\ r.cum <= mid.cum
    BY <1>1, <1>3, <1>5 DEF SameBut
  <2>2. r.user[v].lastCum \in Nat /\ r.cum \in Nat /\ mid.cum \in Nat
    BY <1>1, <1>5 DEF RewardState, UserReward
  <2> QED
    BY <2>1, <2>2
<1>7. /\ q \in RewardState /\ q.lastTime = mid.lastTime
      /\ \A v \in Users : q.user[v].lastCum <= q.cum
      /\ SameBooks(q, mid)
  BY <1>2, <1>5, <1>6, UpdateUserFacts
<1> HIDE DEF q
<1>8. q.ws = next.ws /\ q.wb = next.wb
  BY <1>5, <1>7 DEF SameBooks
<1>9. KnownFor(q, r, u)
  BY <1>3, <1>8 DEF KnownFor, Unset
<1>10. Balanced(q)
  BY <1>3, <1>8 DEF Balanced, Working
<1>11. RewardsOK(q, sh, ts, now)
  BY <1>1, <1>5, <1>7, <1>9, <1>10 DEF RewardsOK, KnownFor
<1>12. ASSUME Covered(r) PROVE Covered(q) /\ CaughtUp(q, u)
  <2> DEFINE w == Working(r)
  <2>1. w \in [Users -> Nat] /\ Working(q) \in [Users -> Nat]
    BY <1>1, <1>7, WorkingType
  <2>2. SumFunctionOnSet(w, Users) = prev.ws /\ w[u] = prev.wb[u]
    BY <1>2 DEF Balanced, Stored, Working, Unset
  <2>3. CoveredBy(next, w)
    BY <1>3, <1>12, SameCovered DEF SameAccounts, SameBut, Covered
  <2>4. /\ next.lastTime <= now
        /\ \A v \in Users : next.user[v].lastCum <= next.cum
    BY <1>1, <1>3 DEF SameBut
  <2>5. \A v \in Users : v # u => Working(q)[v] = w[v]
    BY <1>3, <1>8 DEF Working
  <2> HIDE DEF w
  <2>6. CoveredBy(mid, w)
    BY <1>2, <1>3, <2>1, <2>2, <2>3, <2>4, UpdateRewardsCovers DEF mid
  <2>7. CoveredBy(q, w) /\ CaughtUp(q, u)
    BY <1>5, <1>6, <2>1, <2>2, <2>6, UpdateUserCovers DEF q
  <2>8. CoveredBy(q, Working(q))
    BY <1>7, <2>1, <2>5, <2>7, CaughtUpCovered
  <2> QED
    BY <2>7, <2>8 DEF Covered
<1> QED
  BY <1>4, <1>9, <1>11, <1>12

\* A deposit or a withdrawal stores the working balance of the shares it leaves.
LEMMA NewWorkingFacts ==
    ASSUME NEW lock \in [Users -> Nat], NEW locked \in Nat, NEW now \in Nat,
           NEW r, NEW sh, NEW ts, RewardsOK(r, sh, ts, now),
           NEW u \in Users, NEW total \in Nat, NEW n \in Nat,
           r.ws # Unset, r.wb[u] # Unset
    PROVE  /\ RewardsOK(UpdateWorkingBalance(r, lock, locked, u, total, n), sh, ts, now)
           /\ KnownFor(UpdateWorkingBalance(r, lock, locked, u, total, n), r, u)
           /\ Covered(r) /\ CaughtUp(r, u)
                => Covered(UpdateWorkingBalance(r, lock, locked, u, total, n))
<1> DEFINE q == UpdateWorkingBalance(r, lock, locked, u, total, n)
<1>1. r \in RewardState /\ Balanced(r)
  BY DEF RewardsOK
<1>2. /\ q \in RewardState /\ Balanced(q)
      /\ q.ws \in Nat /\ q.wb[u] \in Nat
      /\ \A v \in Users : v # u => q.wb[v] = r.wb[v]
      /\ SameBut(q, r)
  BY <1>1, UpdateWorkingFacts
<1>3. UpdateWorkingBalance(r, lock, locked, u, total, n) = q
  OBVIOUS
<1> HIDE DEF q
<1>4. KnownFor(q, r, u)
  BY <1>2 DEF KnownFor, Unset
<1>5. RewardsOK(q, sh, ts, now)
  BY <1>2, <1>4 DEF RewardsOK, KnownFor, SameBut
<1>6. ASSUME Covered(r), CaughtUp(r, u) PROVE Covered(q)
  <2>1. CoveredBy(q, Working(r)) /\ CaughtUp(q, u)
    BY <1>2, <1>6, SameCovered DEF SameAccounts, SameBut, Covered, CaughtUp
  <2>2. Working(r) \in [Users -> Nat] /\ Working(q) \in [Users -> Nat]
    BY <1>1, <1>2, WorkingType
  <2>3. \A v \in Users : v # u => Working(q)[v] = Working(r)[v]
    BY <1>2 DEF Working
  <2>4. CoveredBy(q, Working(q))
    BY <1>2, <2>1, <2>2, <2>3, CaughtUpCovered
  <2> QED
    BY <2>4 DEF Covered
<1> QED
  BY <1>3, <1>4, <1>5, <1>6

LEMMA UpdatePoolFacts ==
    ASSUME NEW now \in Nat, NEW r, NEW sh, NEW ts \in Nat, RewardsOK(r, sh, ts, now)
    PROVE  /\ RewardsOK(UpdatePool(r, now, ts), sh, ts, now)
           /\ Covered(r) => Covered(UpdatePool(r, now, ts))
<1> DEFINE i == InitWorkingSupply(r, ts)
           q == UpdateRewardsData(i, now, i.ws)
<1>1. r \in RewardState /\ Balanced(r) /\ (r.ws = Unset => ts = 0)
  BY DEF RewardsOK
<1>2. /\ i \in RewardState /\ i.ws \in Nat /\ i.wb = r.wb
      /\ Stored(i.ws) = Stored(r.ws)
      /\ SameBut(i, r)
  BY <1>1 DEF InitWorkingSupply, RewardState, Unset, Stored, SameBut
<1>3. UpdatePool(r, now, ts) = q
  BY DEF UpdatePool
<1> HIDE DEF i
<1>4. i.lastTime <= now
  BY <1>2 DEF RewardsOK, SameBut
<1>5. /\ q \in RewardState /\ q.lastTime <= now /\ i.cum <= q.cum
      /\ q.user = i.user /\ SameBooks(q, i)
  BY <1>2, <1>4, UpdateRewardsFacts
<1> HIDE DEF q
<1>6. Balanced(q)
  BY <1>1, <1>2, <1>5 DEF Balanced, Working, SameBooks
<1>7. \A v \in Users : q.user[v].lastCum <= q.cum
  <2> SUFFICES ASSUME NEW v \in Users PROVE q.user[v].lastCum <= q.cum
    OBVIOUS
  <2>1. q.user[v].lastCum = r.user[v].lastCum /\ r.user[v].lastCum <= r.cum /\ r.cum <= q.cum
    BY <1>2, <1>5 DEF SameBut, RewardsOK
  <2>2. r.user[v].lastCum \in Nat /\ r.cum \in Nat /\ q.cum \in Nat
    BY <1>1, <1>5 DEF RewardState, UserReward
  <2> QED
    BY <2>1, <2>2
<1>8. q.ws # Unset /\ \A v \in Users : q.wb[v] = Unset => sh[v] = 0
  BY <1>2, <1>5 DEF SameBooks, Unset, RewardsOK
<1>9. ASSUME Covered(r) PROVE Covered(q)
  <2> DEFINE w == Working(r)
  <2>1. w \in [Users -> Nat] /\ Working(q) = w /\ Working(i) = w
    BY <1>1, <1>2, <1>5, WorkingType DEF Working, SameBooks
  <2>2. SumFunctionOnSet(w, Users) = i.ws
    BY <1>1, <1>2 DEF Balanced, Stored, Unset
  <2>3. CoveredBy(i, w)
    BY <1>2, <1>9, SameCovered DEF SameAccounts, SameBut, Covered
  <2>4. \A v \in Users : i.user[v].lastCum <= i.cum
    BY <1>2 DEF RewardsOK, SameBut
  <2> HIDE DEF w
  <2>5. CoveredBy(q, w)
    BY <1>2, <1>4, <2>1, <2>2, <2>3, <2>4, UpdateRewardsCovers DEF q
  <2> QED
    BY <2>1, <2>5 DEF Covered
<1> QED
  BY <1>3, <1>5, <1>6, <1>7, <1>8, <1>9 DEF RewardsOK

\* A change of anything else in the record.
LEMMA SettingsStep ==
    ASSUME NEW r, NEW sh, NEW ts, NEW now, RewardsOK(r, sh, ts, now),
           NEW q \in RewardState, q.lastTime <= now, q.cum = r.cum, SameBooks(q, r),
           \A v \in Users : q.user[v].lastCum = r.user[v].lastCum
    PROVE  /\ RewardsOK(q, sh, ts, now)
           /\ SameAccounts(q, r) /\ Covered(r) => Covered(q)
<1>1. Balanced(q)
  BY DEF RewardsOK, Balanced, Working, SameBooks
<1>2. Working(q) = Working(r)
  BY DEF Working, SameBooks
<1>3. SameAccounts(q, r) /\ Covered(r) => Covered(q)
  BY <1>2, SameCovered DEF Covered
<1> QED
  BY <1>1, <1>3 DEF RewardsOK, SameBooks

LEMMA SetRewardConfigFacts ==
    ASSUME NEW now \in Nat, NEW r, NEW sh, NEW ts \in Nat, RewardsOK(r, sh, ts, now),
           NEW e \in Nat, NEW tps \in Nat
    PROVE  /\ RewardsOK(SetRewardConfig(r, now, ts, e, tps), sh, ts, now)
           /\ Covered(r) => Covered(SetRewardConfig(r, now, ts, e, tps))
<1> DEFINE p == UpdatePool(r, now, ts)
           end == IF tps = 0 THEN now ELSE e
           q == [p EXCEPT !.lastTime = now, !.tps = tps, !.expiredAt = end]
<1>1. RewardsOK(p, sh, ts, now) /\ (Covered(r) => Covered(p))
  BY UpdatePoolFacts
<1>2. end \in Nat
  OBVIOUS
<1>3. SetRewardConfig(r, now, ts, e, tps) = IF tps = 0 /\ r.expiredAt < now THEN r ELSE q
  BY DEF SetRewardConfig
<1> HIDE DEF p, end
<1>4. /\ q \in RewardState /\ q.lastTime = now /\ q.cum = p.cum
      /\ SameBooks(q, p) /\ q.user = p.user /\ SameAccounts(q, p)
  BY <1>1, <1>2 DEF RewardsOK, RewardState, SameBooks, SameAccounts
<1> HIDE DEF q
<1>5. RewardsOK(q, sh, ts, now) /\ (Covered(r) => Covered(q))
  BY <1>1, <1>4, SettingsStep
<1> QED
  BY <1>3, <1>5

LEMMA PayUserFacts ==
    ASSUME NEW r, NEW sh, NEW ts, NEW now, RewardsOK(r, sh, ts, now), NEW u \in Users
    PROVE  /\ RewardsOK(PayUser(r, u), sh, ts, now) /\ r.user[u].toClaim \in Nat
           /\ Covered(r) => Covered(PayUser(r, u))
<1> DEFINE f == [r.user EXCEPT ![u].toClaim = 0]
           n == r.claimed + r.user[u].toClaim
<1>1. r \in RewardState /\ r.user[u].toClaim \in Nat /\ n \in Nat
  BY DEF RewardsOK, RewardState, UserReward
<1>2. /\ f \in [Users -> UserReward]
      /\ \A v \in Users : f[v].lastCum = r.user[v].lastCum /\ f[v].seen = r.user[v].seen
                          /\ f[v].poolAcc = r.user[v].poolAcc
      /\ f[u].toClaim = 0 /\ \A v \in Users : v # u => f[v] = r.user[v]
  BY <1>1 DEF RewardState, UserReward
<1>3. PayUser(r, u) = [r EXCEPT !.claimed = n, !.user = f]
  BY <1>1 DEF PayUser, RewardState
<1> HIDE DEF f
<1> DEFINE q == [r EXCEPT !.claimed = n, !.user = f]
<1>4. /\ q \in RewardState /\ q.lastTime = r.lastTime /\ q.cum = r.cum
      /\ SameBooks(q, r) /\ q.user = f /\ q.acc = r.acc /\ q.claimed = n
  BY <1>1, <1>2 DEF RewardState, SameBooks
<1> HIDE DEF q
<1>5. RewardsOK(q, sh, ts, now)
  <2>1. q.lastTime <= now
    BY <1>4 DEF RewardsOK
  <2> QED
    BY <1>2, <1>4, <2>1, SettingsStep
<1>6. ASSUME Covered(r) PROVE Covered(q)
  <2> DEFINE w == Working(r)
             c == r.user[u].toClaim
  <2>1. w \in [Users -> Nat] /\ Working(q) = w
    BY <1>4, WorkingType DEF Working, SameBooks, RewardsOK
  <2> HIDE DEF w
  <2>2. NothingHidden(q)
    BY <1>2, <1>4, <1>6 DEF NothingHidden, Covered, CoveredBy
  <2>3. /\ Pots(r, w) \in [Users -> Int] /\ Pots(q, w) \in [Users -> Int]
        /\ SumFunctionOnSet(Pots(r, w), Users) \in Nat
    BY <1>1, <1>4, <1>5, <2>1, PotsType DEF RewardsOK
  <2>4. Pots(q, w)[u] = Pots(r, w)[u] - RewardPrecision * c
    <3> DEFINE x == IF r.user[u].seen THEN (r.cum - r.user[u].lastCum) * w[u] ELSE 0
    <3>1. Pots(q, w)[u] = RewardPrecision * 0 + x /\ Pots(r, w)[u] = RewardPrecision * c + x
      BY <1>2, <1>4 DEF Pots
    <3>2. Pots(r, w)[u] \in Int
      BY <2>3
    <3>3. RewardPrecision * c \in Int /\ RewardPrecision * 0 = 0
      BY <1>1, RewardPrecisionAssumption
    <3>4. x \in Int
      <4>1. r.cum - r.user[u].lastCum \in Int /\ w[u] \in Int
        BY <1>1, <2>1 DEF RewardState, UserReward
      <4> QED
        BY <4>1
    <3> HIDE DEF x, c
    <3> QED
      BY <3>1, <3>2, <3>3, <3>4
  <2>5. \A v \in Users \ {u} : Pots(r, w)[v] = Pots(q, w)[v]
    BY <1>2, <1>4 DEF Pots
  <2>6. SumFunctionOnSet(Pots(q, w), Users)
          = SumFunctionOnSet(Pots(r, w), Users) + Pots(q, w)[u] - Pots(r, w)[u]
    BY <2>3, <2>5, SumChange, UsersAssumption
  <2>7. RewardPrecision * q.claimed = RewardPrecision * r.claimed + RewardPrecision * c
    BY <1>1, <1>4, RewardPrecisionAssumption DEF RewardState
  <2>8. RewardPrecision * q.claimed + SumFunctionOnSet(Pots(q, w), Users)
          = RewardPrecision * r.claimed + SumFunctionOnSet(Pots(r, w), Users)
    <3>1. /\ RewardPrecision * r.claimed \in Int /\ RewardPrecision * c \in Int
          /\ Pots(r, w)[u] \in Int /\ Pots(q, w)[u] \in Int
      BY <1>1, <2>3, RewardPrecisionAssumption DEF RewardState
    <3> HIDE DEF c
    <3> QED
      BY <2>3, <2>4, <2>6, <2>7, <3>1
  <2> QED
    BY <1>4, <1>6, <2>1, <2>2, <2>8 DEF Covered, CoveredBy, w
<1> QED
  BY <1>1, <1>3, <1>5, <1>6 DEF q

LEMMA SetUserRewardsStateFacts ==
    ASSUME NEW r, NEW sh, NEW ts, NEW now, RewardsOK(r, sh, ts, now),
           NEW u \in Users, NEW n \in Nat, NEW value \in BOOLEAN
    PROVE  /\ RewardsOK(SetUserRewardsState(r, u, n, value), sh, ts, now)
           /\ SameBooks(SetUserRewardsState(r, u, n, value), r)
           /\ Covered(r) => Covered(SetUserRewardsState(r, u, n, value))
<1> DEFINE x == IF ~value THEN r.excluded + n
                ELSE IF r.excluded > n THEN r.excluded - n ELSE 0
           q == [r EXCEPT !.on[u] = value, !.excluded = x]
<1>1. r \in RewardState /\ r.excluded \in Nat
  BY DEF RewardsOK, RewardState
<1>2. x \in Nat
  BY <1>1
<1>3. SetUserRewardsState(r, u, n, value) = IF r.on[u] = value THEN r ELSE q
  BY DEF SetUserRewardsState
<1> HIDE DEF x
<1>4. /\ q \in RewardState /\ q.lastTime = r.lastTime /\ q.cum = r.cum
      /\ SameBooks(q, r) /\ q.user = r.user /\ SameAccounts(q, r)
  BY <1>1, <1>2 DEF RewardState, SameBooks, SameAccounts
<1> HIDE DEF q
<1>5. RewardsOK(q, sh, ts, now) /\ (Covered(r) => Covered(q))
  <2>1. q.lastTime <= now
    BY <1>4 DEF RewardsOK
  <2> QED
    BY <1>4, <2>1, SettingsStep
<1> QED
  BY <1>3, <1>4, <1>5 DEF SameBooks

LEMMA AdjustFacts ==
    ASSUME NEW now \in Nat, NEW r, NEW sh, NEW ts \in Nat, RewardsOK(r, sh, ts, now),
           NEW diff \in Int, UpdatePool(r, now, ts).acc + diff \in Nat
    PROVE  /\ RewardsOK(AdjustAccumulated(r, now, ts, diff), sh, ts, now)
           /\ Covered(r) /\ diff >= 0 => Covered(AdjustAccumulated(r, now, ts, diff))
<1> DEFINE p == UpdatePool(r, now, ts)
           n == p.acc + diff
           q == [p EXCEPT !.acc = n]
<1>1. RewardsOK(p, sh, ts, now) /\ (Covered(r) => Covered(p))
  BY UpdatePoolFacts
<1>2. n \in Nat /\ AdjustAccumulated(r, now, ts, diff) = q
  BY DEF AdjustAccumulated
<1> HIDE DEF p
<1>3. /\ q \in RewardState /\ q.lastTime = p.lastTime /\ q.cum = p.cum
      /\ SameBooks(q, p) /\ q.user = p.user /\ q.acc = n /\ q.claimed = p.claimed
  BY <1>1, <1>2 DEF RewardsOK, RewardState, SameBooks
<1> HIDE DEF q
<1>4. RewardsOK(q, sh, ts, now)
  <2>1. q.lastTime <= now
    BY <1>1, <1>3 DEF RewardsOK
  <2> QED
    BY <1>1, <1>3, <2>1, SettingsStep
<1>5. ASSUME Covered(r), diff >= 0 PROVE Covered(q)
  <2> DEFINE w == Working(p)
             a == SumFunctionOnSet(Pots(p, w), Users)
  <2>1. w \in [Users -> Nat] /\ Working(q) = w
    BY <1>1, <1>3, WorkingType DEF Working, SameBooks, RewardsOK
  <2> HIDE DEF w
  <2>2. /\ p.acc \in Nat /\ p.claimed \in Nat /\ RewardPrecision \in Nat
        /\ \A v \in Users : p.user[v].poolAcc \in Nat
    BY <1>1, RewardPrecisionAssumption DEF RewardsOK, RewardState, UserReward
  <2>3. CoveredBy(p, w)
    BY <1>1, <1>5 DEF Covered, w
  <2>4. NothingHidden(q)
    <3> SUFFICES ASSUME NEW v \in Users
                 PROVE  IF q.user[v].seen
                        THEN /\ q.user[v].poolAcc <= q.acc
                             /\ q.user[v].poolAcc = q.acc => q.user[v].lastCum = q.cum
                        ELSE q.user[v].toClaim = 0
      BY DEF NothingHidden
    <3>1. IF p.user[v].seen
          THEN /\ p.user[v].poolAcc <= p.acc
               /\ p.user[v].poolAcc = p.acc => p.user[v].lastCum = p.cum
          ELSE p.user[v].toClaim = 0
      BY <2>3 DEF CoveredBy, NothingHidden
    <3>2. p.user[v].poolAcc \in Nat
      BY <2>2
    <3> QED
      BY <1>3, <1>5, <2>2, <3>1, <3>2
  <2>5. Pots(q, w) = Pots(p, w)
    BY <1>3 DEF Pots
  <2>6. RewardPrecision * q.acc = RewardPrecision * p.acc + RewardPrecision * diff
        /\ RewardPrecision * diff >= 0
    BY <1>3, <1>5, <2>2
  <2>7. a \in Nat
    BY <1>1, <2>1, PotsType DEF RewardsOK
  <2>8. RewardPrecision * q.claimed + a <= RewardPrecision * q.acc
    <3>1. RewardPrecision * p.claimed + a <= RewardPrecision * p.acc
      BY <2>3 DEF CoveredBy
    <3>2. /\ RewardPrecision * p.claimed \in Int /\ RewardPrecision * p.acc \in Int
          /\ RewardPrecision * diff \in Int
      BY <2>2
    <3> HIDE DEF a
    <3> QED
      BY <1>3, <2>6, <2>7, <3>1, <3>2
  <2> QED
    BY <2>1, <2>4, <2>5, <2>8 DEF Covered, CoveredBy
<1> QED
  BY <1>2, <1>4, <1>5

-----------------------------------------------------------------------------
(* Up to date                                                              *)

\* The time of the last snapshot once the rewards are brought up to now, and
\* what they generate until then.
SnapshotTime(r, now) ==
    IF now <= r.expiredAt THEN now
    ELSE IF r.lastTime < r.expiredAt THEN r.expiredAt
    ELSE r.lastTime

Generated(r, now) == (SnapshotTime(r, now) - r.lastTime) * r.tps

Spread(generated, supply) ==
    IF supply = 0 THEN 0 ELSE (RewardPrecision * generated) \div supply

\* What no call changes in the books of a user, or in a working balance.
SameClock(q, r) ==
    /\ q.tps = r.tps /\ q.expiredAt = r.expiredAt
    /\ q.acc = r.acc /\ q.claimed = r.claimed
    /\ q.lastTime = r.lastTime /\ q.cum = r.cum

UpToDate(r, now) == SnapshotTime(r, now) = r.lastTime

LEMMA GeneratedType ==
    ASSUME NEW r \in RewardState, NEW now \in Nat, r.lastTime <= now
    PROVE  /\ SnapshotTime(r, now) \in Nat /\ r.lastTime <= SnapshotTime(r, now)
           /\ Generated(r, now) \in Nat
<1>1. r.lastTime \in Nat /\ r.expiredAt \in Nat /\ r.tps \in Nat
  BY DEF RewardState
<1>2. SnapshotTime(r, now) \in Nat /\ r.lastTime <= SnapshotTime(r, now)
  BY <1>1 DEF SnapshotTime
<1>3. SnapshotTime(r, now) - r.lastTime \in Nat
  BY <1>1, <1>2
<1> QED
  BY <1>1, <1>2, <1>3, MulNat DEF Generated

LEMMA SpreadFacts ==
    ASSUME NEW x \in Nat, NEW supply \in Nat
    PROVE  /\ Spread(x, supply) \in Nat
           /\ Spread(0, supply) = 0
           /\ \A y \in Nat : x <= y => Spread(x, supply) <= Spread(y, supply)
<1>1. RewardPrecision \in Nat /\ RewardPrecision * x \in Nat /\ RewardPrecision * 0 = 0
  BY RewardPrecisionAssumption, MulNat
<1>2. CASE supply = 0
  BY <1>2 DEF Spread
<1>3. CASE supply # 0
  <2>1. /\ (RewardPrecision * x) \div supply \in Nat
        /\ ((RewardPrecision * x) \div supply) * supply <= RewardPrecision * x
    BY <1>1, <1>3, DivFacts
  <2>2. ASSUME NEW y \in Nat, x <= y
        PROVE  (RewardPrecision * x) \div supply <= (RewardPrecision * y) \div supply
    <3> DEFINE k == (RewardPrecision * x) \div supply
    <3>1. RewardPrecision * y \in Nat /\ RewardPrecision * x <= RewardPrecision * y
      BY <1>1, <2>2, MulNat, MulMono
    <3>2. k \in Nat /\ k * supply <= RewardPrecision * x /\ k * supply \in Nat
      BY <2>1, MulNat
    <3> HIDE DEF k
    <3>3. k * supply <= RewardPrecision * y
      BY <1>1, <3>1, <3>2
    <3> QED
      BY <1>3, <3>1, <3>2, <3>3, QuotientAtLeast DEF k
  <2>3. 0 \div supply = 0
    BY <1>3
  <2> QED
    BY <1>1, <1>3, <2>1, <2>2, <2>3 DEF Spread
<1> QED
  BY <1>2, <1>3

\* update_rewards_data, whichever of its three cases it takes.
LEMMA UpdateClock ==
    ASSUME NEW r \in RewardState, NEW now \in Nat, r.lastTime <= now, NEW supply \in Nat
    PROVE  LET q == UpdateRewardsData(r, now, supply)
           IN /\ q.tps = r.tps /\ q.expiredAt = r.expiredAt /\ q.claimed = r.claimed
              /\ q.user = r.user /\ SameBooks(q, r)
              /\ supply = 0 => q.acc = r.acc /\ q.cum = r.cum
              /\ supply # 0 => q.acc = r.acc + Generated(r, now)
              /\ supply # 0 => q.cum = r.cum + Spread(Generated(r, now), supply)
              /\ q.lastTime = SnapshotTime(r, now)
<1> DEFINE T == SnapshotTime(r, now)
           g == (T - r.lastTime) * r.tps
           q == UpdateRewardsData(r, now, supply)
<1>1. /\ r.lastTime \in Nat /\ r.expiredAt \in Nat /\ r.tps \in Nat
      /\ r.acc \in Nat /\ r.cum \in Nat
  BY DEF RewardState
<1>2. CASE q = Yield(r, T, supply)
  <2>1. q = IF supply = 0 THEN [r EXCEPT !.lastTime = T]
            ELSE [r EXCEPT !.lastTime = T, !.acc = @ + g,
                           !.cum = @ + (RewardPrecision * g) \div supply]
    BY <1>2 DEF Yield
  <2>2. g = Generated(r, now)
    BY DEF Generated
  <2> HIDE DEF g, T, q
  <2>3. /\ q.tps = r.tps /\ q.expiredAt = r.expiredAt /\ q.claimed = r.claimed
        /\ q.user = r.user /\ SameBooks(q, r)
        /\ supply = 0 => q.acc = r.acc /\ q.cum = r.cum
        /\ supply # 0 => q.acc = r.acc + g
        /\ supply # 0 => q.cum = r.cum + (RewardPrecision * g) \div supply
        /\ q.lastTime = T
    BY <2>1 DEF RewardState, SameBooks
  <2> QED
    BY <2>2, <2>3 DEF T, q, Spread
<1>3. CASE q = r /\ T = r.lastTime
  <2>1. T - r.lastTime = 0
    BY <1>1, <1>3
  <2>2. Generated(r, now) = 0
    BY <1>1, <2>1 DEF Generated
  <2>3. Spread(0, supply) = 0
    BY SpreadFacts
  <2> QED
    BY <1>1, <1>3, <2>2, <2>3 DEF SameBooks
<1>4. q = Yield(r, T, supply) \/ (q = r /\ T = r.lastTime)
  BY <1>1 DEF UpdateRewardsData, SnapshotTime
<1> QED
  BY <1>2, <1>3, <1>4

\* It only looks at the supply and at what SameClock compares.
LEMMA SnapshotsAgree ==
    ASSUME NEW r \in RewardState, NEW q \in RewardState, SameClock(q, r),
           NEW now \in Nat, r.lastTime <= now, NEW supply \in Nat
    PROVE  SameClock(UpdateRewardsData(q, now, supply), UpdateRewardsData(r, now, supply))
<1>1. /\ SnapshotTime(q, now) = SnapshotTime(r, now) /\ Generated(q, now) = Generated(r, now)
      /\ q.lastTime <= now
  BY DEF SameClock, SnapshotTime, Generated
<1> QED
  BY <1>1, UpdateClock DEF SameClock

LEMMA UpdateMakesUpToDate ==
    ASSUME NEW r \in RewardState, NEW now \in Nat, r.lastTime <= now, NEW supply \in Nat
    PROVE  UpToDate(UpdateRewardsData(r, now, supply), now)
<1> DEFINE q == UpdateRewardsData(r, now, supply)
<1>1. q.expiredAt = r.expiredAt /\ q.lastTime = SnapshotTime(r, now)
  BY UpdateClock
<1>2. r.lastTime \in Nat /\ r.expiredAt \in Nat
  BY DEF RewardState
<1> QED
  BY <1>1, <1>2 DEF UpToDate, SnapshotTime

LEMMA UpToDateStays ==
    ASSUME NEW r \in RewardState, NEW now \in Nat, r.lastTime <= now, NEW supply \in Nat,
           UpToDate(r, now)
    PROVE  SameClock(UpdateRewardsData(r, now, supply), r)
<1>1. r.lastTime \in Nat /\ r.tps \in Nat /\ r.acc \in Nat /\ r.cum \in Nat
  BY DEF RewardState
<1>2. SnapshotTime(r, now) - r.lastTime = 0
  BY <1>1 DEF UpToDate
<1>3. Generated(r, now) = 0
  BY <1>1, <1>2 DEF Generated
<1>4. Spread(0, supply) = 0
  BY SpreadFacts
<1> QED
  BY <1>1, <1>3, <1>4, UpdateClock DEF SameClock, UpToDate

-----------------------------------------------------------------------------
(* What a user has coming                                                  *)

\* The reward of the blocks a user has not seen, for his working balance.
Unseen(r, u) ==
    IF r.user[u].seen
    THEN ((r.cum - r.user[u].lastCum) * Working(r)[u]) \div RewardPrecision
    ELSE 0

Due(r, u) == r.user[u].toClaim + Unseen(r, u)

LEMMA DueType ==
    ASSUME NEW r \in RewardState, NEW u \in Users, r.user[u].lastCum <= r.cum
    PROVE  /\ Unseen(r, u) \in Nat /\ Due(r, u) \in Nat
           /\ r.user[u].toClaim \in Nat /\ r.user[u].toClaim <= Due(r, u)
           /\ r.user[u].lastCum = r.cum => Due(r, u) = r.user[u].toClaim
<1> DEFINE w == Working(r)[u]
           blocks == r.cum - r.user[u].lastCum
<1>1. /\ r.user[u].toClaim \in Nat /\ w \in Nat /\ blocks \in Nat
      /\ r.cum \in Nat /\ r.user[u].lastCum \in Nat
  BY WorkingType DEF RewardState, UserReward
<1>2. Unseen(r, u) = IF r.user[u].seen THEN (blocks * w) \div RewardPrecision ELSE 0
  BY DEF Unseen
<1>3. r.user[u].lastCum = r.cum => blocks = 0
  BY <1>1
<1> HIDE DEF w, blocks
<1>4. (blocks * w) \div RewardPrecision \in Nat
  BY <1>1, MulNat, DivFacts, RewardPrecisionAssumption
<1>5. blocks = 0 => (blocks * w) \div RewardPrecision = 0
  <2>1. 0 \div RewardPrecision = 0
    BY RewardPrecisionAssumption
  <2> QED
    BY <1>1, <2>1
<1> QED
  BY <1>1, <1>2, <1>3, <1>4, <1>5 DEF Due

\* Where no reward is hidden, the comparison in update_user_reward decides
\* nothing: a user can claim what he has coming.
LEMMA ClaimableIsDue ==
    ASSUME NEW r \in RewardState, NothingHidden(r), NEW u \in Users,
           r.user[u].lastCum <= r.cum
    PROVE  Claimable(r, u) = Due(r, u)
<1>1. /\ r.user[u].toClaim \in Nat /\ r.wb[u] \in Nat \cup {Unset}
      /\ r.cum \in Nat /\ r.user[u].lastCum \in Nat
      /\ RewardPrecision \in Nat \ {0}
  BY RewardPrecisionAssumption DEF RewardState, UserReward
<1>2. CASE r.user[u].seen /\ r.user[u].poolAcc # r.acc /\ r.wb[u] # Unset
  <2>1. Working(r)[u] = r.wb[u]
    BY <1>2 DEF Working, Stored
  <2> QED
    BY <1>2, <2>1 DEF Claimable, NewUserReward, Due, Unseen
<1>3. CASE ~r.user[u].seen
  BY <1>1, <1>3 DEF Claimable, Due, Unseen
<1>4. CASE r.user[u].poolAcc = r.acc /\ r.user[u].seen
  <2>1. r.user[u].lastCum = r.cum
    BY <1>4 DEF NothingHidden
  <2> QED
    BY <1>4, <2>1, DueType DEF Claimable
<1>5. CASE r.wb[u] = Unset /\ r.user[u].seen
  <2>1. Working(r)[u] = 0
    BY <1>5 DEF Working, Stored
  <2>2. (r.cum - r.user[u].lastCum) * 0 = 0 /\ 0 \div RewardPrecision = 0
    BY <1>1
  <2>3. Unseen(r, u) = 0
    BY <2>1, <2>2 DEF Unseen
  <2> QED
    BY <1>1, <1>5, <2>3 DEF Claimable, Due
<1> QED
  BY <1>2, <1>3, <1>4, <1>5

\* It grows with the reward-per-share values.
LEMMA DueGrows ==
    ASSUME NEW r \in RewardState, NEW q \in RewardState, NEW u \in Users,
           r.user[u].lastCum <= r.cum, r.cum <= q.cum,
           q.user[u] = r.user[u], Working(q)[u] = Working(r)[u]
    PROVE  Due(r, u) <= Due(q, u)
<1> DEFINE w == Working(r)[u]
           a == r.cum - r.user[u].lastCum
           b == q.cum - r.user[u].lastCum
           k == (a * w) \div RewardPrecision
<1>1. /\ r.user[u].toClaim \in Nat /\ w \in Nat /\ a \in Nat /\ b \in Nat /\ a <= b
      /\ RewardPrecision \in Nat \ {0}
  BY WorkingType, RewardPrecisionAssumption DEF RewardState, UserReward
<1>2. /\ Due(r, u) = r.user[u].toClaim + (IF r.user[u].seen THEN k ELSE 0)
      /\ Due(q, u) = r.user[u].toClaim
           + (IF r.user[u].seen THEN (b * w) \div RewardPrecision ELSE 0)
  BY DEF Due, Unseen
<1> HIDE DEF w, a, b
<1>3. a * w \in Nat /\ b * w \in Nat /\ a * w <= b * w
  BY <1>1, MulNat, MulMono
<1>4. k \in Nat /\ k * RewardPrecision <= a * w
  BY <1>1, <1>3, DivFacts
<1> HIDE DEF k
<1>5. k * RewardPrecision <= b * w
  <2>1. k * RewardPrecision \in Nat
    BY <1>1, <1>4, MulNat
  <2> QED
    BY <1>3, <1>4, <2>1
<1>6. k <= (b * w) \div RewardPrecision /\ (b * w) \div RewardPrecision \in Nat
  BY <1>1, <1>3, <1>4, <1>5, QuotientAtLeast, DivFacts
<1> QED
  BY <1>1, <1>2, <1>4, <1>6

\* q is r brought up to now, with the accounts of some users settled and their
\* working balances changed; nobody has less coming than before.
Brought(q, r, now, ts) ==
    /\ SameClock(q, UpdatePool(r, now, ts))
    /\ UpToDate(q, now)
    /\ Covered(r) => /\ Covered(q)
                     /\ \A u \in Users : Due(UpdatePool(r, now, ts), u) <= Due(q, u)

\* The state of the rewards once they are brought up to now.
LEMMA UpdatePoolClock ==
    ASSUME NEW now \in Nat, NEW r, NEW sh, NEW ts \in Nat, RewardsOK(r, sh, ts, now)
    PROVE  LET p == UpdatePool(r, now, ts)
           IN /\ p \in RewardState /\ p.lastTime <= now /\ UpToDate(p, now)
              /\ p.user = r.user /\ Working(p) = Working(r)
              /\ \A u \in Users : p.user[u].lastCum <= p.cum
              /\ p.tps = r.tps /\ p.expiredAt = r.expiredAt /\ p.claimed = r.claimed
              /\ r.cum <= p.cum
              /\ SameClock(p, UpdateRewardsData(r, now, Stored(r.ws)))
<1> DEFINE i == InitWorkingSupply(r, ts)
           p == UpdateRewardsData(i, now, i.ws)
<1>1. r \in RewardState /\ (r.ws = Unset => ts = 0) /\ r.lastTime <= now
  BY DEF RewardsOK
<1>2. /\ i \in RewardState /\ i.ws \in Nat /\ i.ws = Stored(r.ws)
      /\ SameBut(i, r) /\ SameClock(i, r) /\ i.wb = r.wb /\ i.lastTime <= now
  BY <1>1 DEF InitWorkingSupply, RewardState, Unset, Stored, SameBut, SameClock
<1>3. UpdatePool(r, now, ts) = p
  BY DEF UpdatePool
<1> HIDE DEF i
<1>4. RewardsOK(p, sh, ts, now)
  BY <1>3, UpdatePoolFacts
<1>5. /\ p.user = i.user /\ SameBooks(p, i) /\ i.cum <= p.cum
      /\ p.tps = i.tps /\ p.expiredAt = i.expiredAt /\ p.claimed = i.claimed
  BY <1>2, UpdateRewardsFacts, UpdateClock
<1>6. UpToDate(p, now)
  BY <1>2, UpdateMakesUpToDate
<1>7. SameClock(p, UpdateRewardsData(r, now, Stored(r.ws)))
  BY <1>1, <1>2, SnapshotsAgree
<1> HIDE DEF p
<1>8. Working(p) = Working(r)
  BY <1>2, <1>5 DEF Working, SameBooks
<1> QED
  BY <1>2, <1>3, <1>4, <1>5, <1>6, <1>7, <1>8 DEF RewardsOK, SameBut

\* What is up to date stays as it is.
LEMMA UpToDatePool ==
    ASSUME NEW now \in Nat, NEW r, NEW sh, NEW ts \in Nat, RewardsOK(r, sh, ts, now),
           UpToDate(r, now)
    PROVE  /\ SameClock(UpdatePool(r, now, ts), r)
           /\ \A u \in Users : Due(UpdatePool(r, now, ts), u) = Due(r, u)
<1> DEFINE p == UpdatePool(r, now, ts)
           q == UpdateRewardsData(r, now, Stored(r.ws))
<1>1. r \in RewardState /\ r.lastTime <= now /\ Stored(r.ws) \in Nat
  BY DEF RewardsOK, RewardState, Stored, Unset
<1>2. SameClock(p, q) /\ p.user = r.user /\ Working(p) = Working(r)
  BY UpdatePoolClock
<1>3. SameClock(q, r)
  BY <1>1, UpToDateStays
<1> HIDE DEF p, q
<1>4. SameClock(p, r)
  BY <1>2, <1>3 DEF SameClock
<1>5. \A u \in Users : Due(p, u) = Due(r, u)
  BY <1>2, <1>4 DEF SameClock, Due, Unseen
<1> QED
  BY <1>4, <1>5 DEF p

LEMMA PoolIsBrought ==
    ASSUME NEW now \in Nat, NEW r, NEW sh, NEW ts \in Nat, RewardsOK(r, sh, ts, now)
    PROVE  Brought(UpdatePool(r, now, ts), r, now, ts)
<1> DEFINE p == UpdatePool(r, now, ts)
<1>1. /\ p \in RewardState /\ UpToDate(p, now)
      /\ \A u \in Users : p.user[u].lastCum <= p.cum
      /\ Covered(r) => Covered(p)
  BY UpdatePoolClock, UpdatePoolFacts
<1> HIDE DEF p
<1>2. \A u \in Users : Due(p, u) <= Due(p, u)
  BY <1>1, DueType
<1> QED
  BY <1>1, <1>2 DEF p, Brought, SameClock

LEMMA BroughtTrans ==
    ASSUME NEW now \in Nat, NEW ts \in Nat, NEW sh,
           NEW r, RewardsOK(r, sh, ts, now), NEW q, RewardsOK(q, sh, ts, now),
           NEW s, RewardsOK(s, sh, ts, now),
           Brought(q, r, now, ts), Brought(s, q, now, ts)
    PROVE  Brought(s, r, now, ts)
<1> DEFINE p == UpdatePool(r, now, ts)
           k == UpdatePool(q, now, ts)
<1>1. SameClock(k, q) /\ \A u \in Users : Due(k, u) = Due(q, u)
  BY UpToDatePool DEF Brought
<1>2. /\ SameClock(q, p)
      /\ Covered(r) => Covered(q) /\ \A u \in Users : Due(p, u) <= Due(q, u)
      /\ SameClock(s, k) /\ UpToDate(s, now)
      /\ Covered(q) => Covered(s) /\ \A u \in Users : Due(k, u) <= Due(s, u)
  BY DEF Brought
<1>3. /\ p \in RewardState /\ \A u \in Users : p.user[u].lastCum <= p.cum
      /\ q \in RewardState /\ \A u \in Users : q.user[u].lastCum <= q.cum
      /\ s \in RewardState /\ \A u \in Users : s.user[u].lastCum <= s.cum
  BY UpdatePoolClock DEF RewardsOK
<1> HIDE DEF p, k
<1>4. SameClock(s, p)
  BY <1>1, <1>2 DEF SameClock
<1>5. ASSUME Covered(r), NEW u \in Users PROVE Due(p, u) <= Due(s, u)
  <2>1. Due(p, u) \in Nat /\ Due(q, u) \in Nat /\ Due(s, u) \in Nat
    BY <1>3, DueType
  <2>2. Due(p, u) <= Due(q, u) /\ Due(q, u) <= Due(s, u)
    BY <1>1, <1>2, <1>5
  <2> QED
    BY <2>1, <2>2
<1> QED
  BY <1>2, <1>4, <1>5 DEF Brought, p

\* checkpoint_user: the user is paid what he had coming, everybody else still
\* has it coming.
LEMMA CheckpointBrings ==
    ASSUME NEW lock \in [Users -> Nat], NEW locked \in Nat, NEW now \in Nat,
           NEW r, NEW sh, NEW ts \in Nat, RewardsOK(r, sh, ts, now),
           NEW u \in Users, NEW n \in Nat, r.wb[u] = Unset => n = 0
    PROVE  LET q == CheckpointUser(r, lock, locked, now, u, ts, n)
           IN /\ Brought(q, r, now, ts)
              /\ Covered(r) => Due(UpdatePool(r, now, ts), u) = q.user[u].toClaim
              /\ \A v \in Users : v # u => q.user[v] = r.user[v]
<1> DEFINE prev == InitWorking(r, u, ts, n)
           next == UpdateWorkingBalance(r, lock, locked, u, ts, n)
           mid  == UpdateRewardsData(next, now, prev.ws)
           q    == UpdateUserReward(mid, u, prev.wb[u])
           p    == UpdatePool(r, now, ts)
           d    == r.user[u]
<1>1. /\ r \in RewardState /\ Balanced(r) /\ r.lastTime <= now
      /\ r.ws = Unset => ts = 0
  BY DEF RewardsOK
<1>2. /\ prev \in RewardState /\ prev.ws \in Nat /\ prev.wb[u] \in Nat
      /\ Balanced(prev) /\ Working(prev) = Working(r)
  BY <1>1, InitWorkingFacts
<1>3. /\ next \in RewardState
      /\ \A v \in Users : v # u => next.wb[v] = r.wb[v]
      /\ SameBut(next, r) /\ SameClock(next, r)
  <2>1. /\ next \in RewardState /\ SameBut(next, r)
        /\ \A v \in Users : v # u => next.wb[v] = r.wb[v]
    BY <1>1, UpdateWorkingFacts
  <2> HIDE DEF next
  <2> QED
    BY <2>1 DEF SameBut, SameClock
<1>4. CheckpointUser(r, lock, locked, now, u, ts, n) = q
  BY DEF CheckpointUser
<1>5. RewardsOK(q, sh, ts, now) /\ (Covered(r) => Covered(q) /\ CaughtUp(q, u))
  BY <1>1, <1>4, CheckpointFacts
<1>6. prev.ws = Stored(r.ws) /\ prev.wb[u] = Working(r)[u]
  <2>1. Stored(prev.ws) = prev.ws /\ Working(prev)[u] = prev.wb[u]
    BY <1>2 DEF Stored, Working, Unset
  <2>2. Stored(prev.ws) = Stored(r.ws)
    BY <1>1, <1>2 DEF Balanced
  <2> QED
    BY <1>2, <2>1, <2>2
<1> HIDE DEF prev, next
<1>7. /\ mid \in RewardState /\ mid.user = r.user /\ SameBooks(mid, next)
      /\ UpToDate(mid, now)
  <2>1. next.lastTime <= now
    BY <1>1, <1>3 DEF SameClock
  <2> QED
    BY <1>2, <1>3, <2>1, UpdateRewardsFacts, UpdateMakesUpToDate DEF SameBut
<1>8. SameClock(mid, p) /\ p.user = r.user /\ Working(p) = Working(r)
      /\ p \in RewardState /\ \A v \in Users : p.user[v].lastCum <= p.cum
  <2> DEFINE m == UpdateRewardsData(r, now, Stored(r.ws))
  <2>1. SameClock(mid, m)
    BY <1>1, <1>2, <1>3, <1>6, SnapshotsAgree
  <2>2. /\ SameClock(p, m) /\ p.user = r.user /\ Working(p) = Working(r)
        /\ p \in RewardState /\ \A v \in Users : p.user[v].lastCum <= p.cum
    BY UpdatePoolClock
  <2> HIDE DEF m, mid, p
  <2> QED
    BY <2>1, <2>2 DEF SameClock
<1>9. Covered(r) => NothingHidden(p)
  BY <1>1, UpdatePoolFacts DEF Covered, CoveredBy
<1> HIDE DEF mid, p
<1> DEFINE due == d.toClaim + IF prev.wb[u] = 0 THEN 0 ELSE NewUserReward(mid, u, prev.wb[u])
<1>10. q = IF ~d.seen THEN CreateUserData(mid, u, 0)
           ELSE IF d.poolAcc = mid.acc THEN mid
           ELSE CreateUserData(mid, u, due)
  BY <1>7 DEF UpdateUserReward
<1>11. ASSUME NEW x
       PROVE  /\ SameClock(CreateUserData(mid, u, x), mid)
              /\ SameBooks(CreateUserData(mid, u, x), mid)
              /\ CreateUserData(mid, u, x).user[u].toClaim = x
              /\ \A v \in Users : v # u => CreateUserData(mid, u, x).user[v] = mid.user[v]
  BY <1>7 DEF CreateUserData, SameClock, SameBooks, RewardState
<1>12. /\ SameClock(q, mid) /\ SameBooks(q, mid)
       /\ \A v \in Users : v # u => q.user[v] = r.user[v]
       /\ q.user[u].toClaim = IF ~d.seen THEN 0
                              ELSE IF d.poolAcc = mid.acc THEN d.toClaim ELSE due
  <2> HIDE DEF q, due
  <2>1. CASE ~d.seen
    BY <1>7, <1>10, <1>11, <2>1
  <2>2. CASE d.seen /\ d.poolAcc = mid.acc
    BY <1>7, <1>10, <2>2 DEF SameClock, SameBooks
  <2>3. CASE d.seen /\ d.poolAcc # mid.acc
    BY <1>7, <1>10, <1>11, <2>3
  <2> QED
    BY <2>1, <2>2, <2>3
<1> HIDE DEF q
<1>13. ASSUME Covered(r) PROVE Due(p, u) = q.user[u].toClaim
  <2>1. d = p.user[u] /\ mid.acc = p.acc /\ mid.cum = p.cum /\ d.toClaim \in Nat
    BY <1>1, <1>8 DEF SameClock, RewardState, UserReward
  <2>2. CASE ~d.seen
    <3>1. d.toClaim = 0
      BY <1>9, <1>13, <2>1, <2>2 DEF NothingHidden
    <3> QED
      BY <1>12, <2>1, <2>2, <3>1 DEF Due, Unseen
  <2>3. CASE d.seen /\ d.poolAcc = mid.acc
    <3>1. p.user[u].lastCum = p.cum
      BY <1>9, <1>13, <2>1, <2>3 DEF NothingHidden
    <3> QED
      BY <1>8, <1>12, <2>1, <2>3, <3>1, DueType
  <2>4. CASE d.seen /\ d.poolAcc # mid.acc
    <3> DEFINE w == Working(r)[u]
               k == ((p.cum - d.lastCum) * w) \div RewardPrecision
    <3>1. Due(p, u) = d.toClaim + k
      BY <1>8, <2>1, <2>4 DEF Due, Unseen
    <3>2. q.user[u].toClaim = d.toClaim + IF w = 0 THEN 0 ELSE k
      BY <1>6, <1>7, <1>12, <2>1, <2>4 DEF NewUserReward
    <3>3. w = 0 => k = 0
      <4>1. p.cum - d.lastCum \in Int
        BY <1>8, <2>1 DEF RewardState, UserReward
      <4>2. (p.cum - d.lastCum) * 0 = 0 /\ 0 \div RewardPrecision = 0
        BY <4>1, RewardPrecisionAssumption
      <4> QED
        BY <4>2
    <3> QED
      BY <2>1, <3>1, <3>2, <3>3
  <2> QED
    BY <2>2, <2>3, <2>4
<1>14. SameClock(q, p) /\ UpToDate(q, now)
  BY <1>7, <1>8, <1>12 DEF SameClock, UpToDate, SnapshotTime
<1>15. ASSUME Covered(r), NEW v \in Users PROVE Due(p, v) <= Due(q, v)
  <2>1. q \in RewardState /\ q.user[v].lastCum <= q.cum
    BY <1>5 DEF RewardsOK
  <2>2. CASE v = u
    BY <1>13, <1>15, <2>1, <2>2, DueType
  <2>3. CASE v # u
    <3>1. Working(q)[v] = Working(p)[v]
      BY <1>3, <1>7, <1>8, <1>12, <2>3 DEF Working, SameBooks
    <3>2. q.user[v] = p.user[v] /\ q.cum = p.cum
      BY <1>8, <1>12, <1>14, <2>3 DEF SameClock
    <3>3. Due(q, v) = Due(p, v)
      BY <3>1, <3>2 DEF Due, Unseen
    <3>4. Due(q, v) \in Nat
      BY <2>1, DueType
    <3> QED
      BY <3>3, <3>4
  <2> QED
    BY <2>2, <2>3
<1>16. Brought(q, r, now, ts)
  BY <1>5, <1>14, <1>15 DEF Brought, p
<1> QED
  BY <1>4, <1>12, <1>13, <1>16 DEF p

\* A deposit or a withdrawal stores the working balance of a user whose account
\* is settled.
LEMMA NewWorkingBrings ==
    ASSUME NEW lock \in [Users -> Nat], NEW locked \in Nat, NEW now \in Nat,
           NEW b, NEW sh, NEW ts \in Nat, RewardsOK(b, sh, ts, now),
           NEW r, RewardsOK(r, sh, ts, now), Brought(r, b, now, ts),
           NEW u \in Users, NEW total \in Nat, NEW n \in Nat,
           r.ws # Unset, r.wb[u] # Unset, Covered(b) => CaughtUp(r, u)
    PROVE  Brought(UpdateWorkingBalance(r, lock, locked, u, total, n), b, now, ts)
<1> DEFINE q == UpdateWorkingBalance(r, lock, locked, u, total, n)
           p == UpdatePool(b, now, ts)
<1>1. r \in RewardState /\ Balanced(r)
  BY DEF RewardsOK
<1>2. /\ q \in RewardState /\ Balanced(q)
      /\ q.ws \in Nat /\ q.wb[u] \in Nat
      /\ \A v \in Users : v # u => q.wb[v] = r.wb[v]
      /\ SameBut(q, r)
  BY <1>1, UpdateWorkingFacts
<1>3. Covered(r) /\ CaughtUp(r, u) => Covered(q)
  BY NewWorkingFacts
<1>4. /\ SameClock(r, p) /\ UpToDate(r, now)
      /\ Covered(b) => Covered(r) /\ \A v \in Users : Due(p, v) <= Due(r, v)
  BY DEF Brought
<1> HIDE DEF q, p
<1>5. SameClock(q, p) /\ UpToDate(q, now)
  BY <1>2, <1>4 DEF SameBut, SameClock, UpToDate, SnapshotTime
<1>6. ASSUME Covered(b), NEW v \in Users PROVE Due(q, v) = Due(r, v)
  <2>1. /\ q.user[v] = r.user[v] /\ q.cum = r.cum
        /\ r.user[v].lastCum <= r.cum
    BY <1>2 DEF SameBut, RewardsOK
  <2>2. CASE v = u
    <3>1. r.user[v].lastCum = r.cum
      BY <1>6, <2>2 DEF CaughtUp
    <3> QED
      BY <1>1, <1>2, <2>1, <3>1, DueType
  <2>3. CASE v # u
    <3>1. Working(q)[v] = Working(r)[v]
      BY <1>2, <2>3 DEF Working
    <3> QED
      BY <2>1, <3>1 DEF Due, Unseen
  <2> QED
    BY <2>2, <2>3
<1> QED
  BY <1>3, <1>4, <1>5, <1>6 DEF Brought, q, p

\* What InitWorking stores, and the opt-out switches, change nothing of it.
LEMMA SettledBrings ==
    ASSUME NEW now \in Nat, NEW r, NEW sh, NEW ts \in Nat, RewardsOK(r, sh, ts, now),
           NEW i, RewardsOK(i, sh, ts, now), SameClock(i, r), i.user = r.user,
           Working(i) = Working(r), Stored(i.ws) = Stored(r.ws)
    PROVE  \A q : Brought(q, i, now, ts) /\ (Covered(r) => Covered(i)) => Brought(q, r, now, ts)
<1> DEFINE p == UpdatePool(r, now, ts)
           k == UpdatePool(i, now, ts)
           m == UpdateRewardsData(r, now, Stored(r.ws))
           j == UpdateRewardsData(i, now, Stored(i.ws))
<1>1. /\ SameClock(p, m) /\ p.user = r.user /\ Working(p) = Working(r)
      /\ SameClock(k, j) /\ k.user = i.user /\ Working(k) = Working(i)
  BY UpdatePoolClock
<1>2. SameClock(j, m)
  <2>1. /\ r \in RewardState /\ i \in RewardState /\ r.lastTime <= now
        /\ Stored(r.ws) \in Nat
    BY DEF RewardsOK, RewardState, Stored, Unset
  <2> QED
    BY <2>1, SnapshotsAgree
<1> HIDE DEF p, k, m, j
<1>3. SameClock(k, p) /\ k.user = p.user /\ Working(k) = Working(p)
  BY <1>1, <1>2 DEF SameClock
<1>4. \A u \in Users : Due(k, u) = Due(p, u)
  BY <1>3 DEF Due, Unseen, SameClock
<1>5. ASSUME NEW q, Brought(q, i, now, ts), Covered(r) => Covered(i)
      PROVE  Brought(q, r, now, ts)
  <2>1. /\ SameClock(q, k) /\ UpToDate(q, now)
        /\ Covered(i) => Covered(q) /\ \A u \in Users : Due(k, u) <= Due(q, u)
    BY <1>5 DEF Brought, k
  <2>2. SameClock(q, p)
    BY <1>3, <2>1 DEF SameClock
  <2> QED
    BY <1>4, <1>5, <2>1, <2>2 DEF Brought, p
<1> QED
  BY <1>5

\* Time only adds to the reward-per-share values.
LEMMA LaterFacts ==
    ASSUME NEW now \in Nat, NEW r, NEW sh, NEW ts \in Nat, RewardsOK(r, sh, ts, now)
    PROVE  /\ UpdatePool(r, now, ts).cum <= UpdatePool(r, now + 1, ts).cum
           /\ \A u \in Users :
                Due(UpdatePool(r, now, ts), u) <= Due(UpdatePool(r, now + 1, ts), u)
<1> DEFINE p == UpdatePool(r, now, ts)
           q == UpdatePool(r, now + 1, ts)
           s == Stored(r.ws)
           T == SnapshotTime(r, now)
           S == SnapshotTime(r, now + 1)
<1>1. /\ r \in RewardState /\ r.lastTime <= now /\ s \in Nat
      /\ r.lastTime \in Nat /\ r.expiredAt \in Nat /\ r.tps \in Nat /\ r.cum \in Nat
      /\ now + 1 \in Nat /\ r.lastTime <= now + 1
  BY DEF RewardsOK, RewardState, Stored, Unset
<1>2. RewardsOK(r, sh, ts, now + 1)
  BY <1>1 DEF RewardsOK
<1>3. /\ p \in RewardState /\ p.user = r.user /\ Working(p) = Working(r)
      /\ \A u \in Users : p.user[u].lastCum <= p.cum
      /\ SameClock(p, UpdateRewardsData(r, now, s))
      /\ q \in RewardState /\ q.user = r.user /\ Working(q) = Working(r)
      /\ SameClock(q, UpdateRewardsData(r, now + 1, s))
  BY <1>1, <1>2, UpdatePoolClock
<1> HIDE DEF p, q, s
<1>4. Generated(r, now) <= Generated(r, now + 1)
  <2>1. /\ T \in Nat /\ S \in Nat /\ r.lastTime <= T /\ r.lastTime <= S
    BY <1>1, GeneratedType
  <2>2. T <= S
    BY <1>1 DEF SnapshotTime
  <2> HIDE DEF T, S
  <2>3. T - r.lastTime \in Nat /\ S - r.lastTime \in Nat /\ T - r.lastTime <= S - r.lastTime
    BY <1>1, <2>1, <2>2
  <2>4. (T - r.lastTime) * r.tps <= (S - r.lastTime) * r.tps
    BY <1>1, <2>3, MulMono
  <2> QED
    BY <2>4 DEF Generated, T, S
<1>5. Generated(r, now) \in Nat /\ Generated(r, now + 1) \in Nat
  BY <1>1, GeneratedType
<1>6. /\ Spread(Generated(r, now), s) <= Spread(Generated(r, now + 1), s)
      /\ Spread(Generated(r, now), s) \in Nat /\ Spread(Generated(r, now + 1), s) \in Nat
  BY <1>1, <1>4, <1>5, SpreadFacts
<1>7. p.cum <= q.cum
  BY <1>1, <1>3, <1>6, UpdateClock DEF SameClock
<1>8. \A u \in Users : Due(p, u) <= Due(q, u)
  BY <1>3, <1>7, DueGrows
<1> QED
  BY <1>7, <1>8 DEF p, q

\* What a claim leaves of everybody's rewards.
LEMMA PayUserDue ==
    ASSUME NEW r \in RewardState, NEW u \in Users
    PROVE  LET q == PayUser(r, u)
           IN /\ q.tps = r.tps /\ q.expiredAt = r.expiredAt /\ q.acc = r.acc
              /\ q.lastTime = r.lastTime /\ q.cum = r.cum
              /\ q.claimed = r.claimed + r.user[u].toClaim
              /\ \A v \in Users : v # u => Due(q, v) = Due(r, v)
<1> DEFINE f == [r.user EXCEPT ![u].toClaim = 0]
           n == r.claimed + r.user[u].toClaim
           q == [r EXCEPT !.claimed = n, !.user = f]
<1>1. PayUser(r, u) = q
  BY DEF PayUser, RewardState
<1>2. /\ q.tps = r.tps /\ q.expiredAt = r.expiredAt /\ q.acc = r.acc
      /\ q.lastTime = r.lastTime /\ q.cum = r.cum /\ q.claimed = n
      /\ q.wb = r.wb /\ q.user = f
  BY DEF RewardState
<1>3. \A v \in Users : v # u => f[v] = r.user[v]
  BY DEF RewardState
<1> HIDE DEF f, q
<1>4. \A v \in Users : v # u => Due(q, v) = Due(r, v)
  BY <1>2, <1>3 DEF Due, Unseen, Working
<1> QED
  BY <1>1, <1>2, <1>4

\* What a call leaves of a user's rewards is at least as much once the next
\* one brings them up to date.
LEMMA DueAtPool ==
    ASSUME NEW now \in Nat, NEW r, NEW sh, NEW ts \in Nat, RewardsOK(r, sh, ts, now),
           NEW u \in Users
    PROVE  /\ Due(r, u) \in Nat /\ Due(UpdatePool(r, now, ts), u) \in Nat
           /\ Due(r, u) <= Due(UpdatePool(r, now, ts), u)
           /\ Covered(r) => Claimable(UpdatePool(r, now, ts), u)
                              = Due(UpdatePool(r, now, ts), u)
<1> DEFINE p == UpdatePool(r, now, ts)
<1>1. /\ p \in RewardState /\ p.user = r.user /\ Working(p) = Working(r)
      /\ p.user[u].lastCum <= p.cum /\ r.cum <= p.cum
      /\ r \in RewardState /\ r.user[u].lastCum <= r.cum
  BY UpdatePoolClock DEF RewardsOK
<1>2. Covered(r) => NothingHidden(p)
  BY UpdatePoolFacts DEF Covered, CoveredBy
<1> HIDE DEF p
<1>3. Due(r, u) \in Nat /\ Due(p, u) \in Nat /\ Due(r, u) <= Due(p, u)
  BY <1>1, DueType, DueGrows
<1>4. Covered(r) => Claimable(p, u) = Due(p, u)
  BY <1>1, <1>2, ClaimableIsDue
<1> QED
  BY <1>3, <1>4 DEF p

\* SetRewardConfig and AdjustAccumulated leave what everybody has coming.
LEMMA SettingsKeepDue ==
    ASSUME NEW now \in Nat, NEW r, NEW sh, NEW ts \in Nat, RewardsOK(r, sh, ts, now),
           NEW u \in Users
    PROVE  /\ \A e, tps : \/ SetRewardConfig(r, now, ts, e, tps) = r
                          \/ Due(SetRewardConfig(r, now, ts, e, tps), u)
                               = Due(UpdatePool(r, now, ts), u)
           /\ \A diff : Due(AdjustAccumulated(r, now, ts, diff), u)
                          = Due(UpdatePool(r, now, ts), u)
<1> DEFINE p == UpdatePool(r, now, ts)
<1>1. p \in RewardState
  BY UpdatePoolClock
<1>2. /\ \A e, tps : SetRewardConfig(r, now, ts, e, tps)
            = IF tps = 0 /\ r.expiredAt < now THEN r
              ELSE [p EXCEPT !.lastTime = now, !.tps = tps,
                             !.expiredAt = IF tps = 0 THEN now ELSE e]
      /\ \A diff : AdjustAccumulated(r, now, ts, diff) = [p EXCEPT !.acc = @ + diff]
  BY DEF SetRewardConfig, AdjustAccumulated
<1> HIDE DEF p
<1>3. ASSUME NEW q, q.user = p.user, q.cum = p.cum, q.wb = p.wb PROVE Due(q, u) = Due(p, u)
  BY <1>3 DEF Due, Unseen, Working
<1>4. ASSUME NEW e, NEW tps, SetRewardConfig(r, now, ts, e, tps) # r
      PROVE  Due(SetRewardConfig(r, now, ts, e, tps), u) = Due(p, u)
  <2> DEFINE end == IF tps = 0 THEN now ELSE e
             q == [p EXCEPT !.lastTime = now, !.tps = tps, !.expiredAt = end]
  <2>1. SetRewardConfig(r, now, ts, e, tps) = q
    BY <1>2, <1>4
  <2> HIDE DEF end
  <2>2. q.user = p.user /\ q.cum = p.cum /\ q.wb = p.wb
    BY <1>1 DEF RewardState
  <2> HIDE DEF q
  <2> QED
    BY <1>3, <2>1, <2>2
<1>5. ASSUME NEW diff PROVE Due(AdjustAccumulated(r, now, ts, diff), u) = Due(p, u)
  <2> DEFINE n == p.acc + diff
             q == [p EXCEPT !.acc = n]
  <2>1. AdjustAccumulated(r, now, ts, diff) = q
    BY <1>2
  <2> HIDE DEF n
  <2>2. q.user = p.user /\ q.cum = p.cum /\ q.wb = p.wb
    BY <1>1 DEF RewardState
  <2> HIDE DEF q
  <2> QED
    BY <1>3, <2>1, <2>2
<1> QED
  BY <1>4, <1>5 DEF p

-----------------------------------------------------------------------------
(* What the pool has promised                                              *)

\* What was generated, and what the configuration will still generate, without
\* what was claimed of it.
Promised(r, now, ts) ==
    TotalConfigured(UpdatePool(r, now, ts), now) - UpdatePool(r, now, ts).claimed

LEMMA PromisedType ==
    ASSUME NEW now \in Nat, NEW r, NEW sh, NEW ts \in Nat, RewardsOK(r, sh, ts, now)
    PROVE  Promised(r, now, ts) \in Int
<1> DEFINE p == UpdatePool(r, now, ts)
<1>1. p \in RewardState
  BY UpdatePoolClock
<1> HIDE DEF p
<1>2. p.acc \in Int /\ p.claimed \in Int /\ p.tps \in Int /\ p.expiredAt \in Int
  BY <1>1 DEF RewardState
<1>3. (p.expiredAt - now) * p.tps \in Int
  BY <1>2
<1> QED
  BY <1>2, <1>3 DEF Promised, TotalConfigured, p

\* A state that is up to date has promised what the state it came from had,
\* but for what was claimed in between.
LEMMA PromisedStays ==
    ASSUME NEW now \in Nat, NEW r, NEW rsh, NEW ts \in Nat, RewardsOK(r, rsh, ts, now),
           NEW q, NEW sh, NEW total \in Nat, RewardsOK(q, sh, total, now),
           UpToDate(q, now),
           q.tps = UpdatePool(r, now, ts).tps,
           q.expiredAt = UpdatePool(r, now, ts).expiredAt,
           q.acc = UpdatePool(r, now, ts).acc
    PROVE  Promised(q, now, total)
             = Promised(r, now, ts) + (UpdatePool(r, now, ts).claimed - q.claimed)
<1> DEFINE p == UpdatePool(r, now, ts)
           k == UpdatePool(q, now, total)
           a == TotalConfigured(p, now)
<1>1. SameClock(k, q)
  BY UpToDatePool
<1>2. p \in RewardState /\ p.claimed \in Int /\ q.claimed \in Int
  <2>1. p \in RewardState
    BY UpdatePoolClock
  <2> HIDE DEF p
  <2> QED
    BY <2>1 DEF RewardsOK, RewardState
<1>3. Promised(r, now, ts) = a - p.claimed
  BY DEF Promised
<1>4. Promised(q, now, total) = TotalConfigured(k, now) - k.claimed
  BY DEF Promised
<1> HIDE DEF p, k
<1>5. TotalConfigured(k, now) = a /\ k.claimed = q.claimed
  BY <1>1 DEF SameClock, TotalConfigured, p
<1>6. a \in Int
  <2>1. p.acc \in Int /\ p.tps \in Int /\ p.expiredAt \in Int
    BY <1>2 DEF RewardState
  <2>2. (p.expiredAt - now) * p.tps \in Int
    BY <2>1
  <2> QED
    BY <2>1, <2>2 DEF TotalConfigured
<1> HIDE DEF a
<1> QED
  BY <1>2, <1>3, <1>4, <1>5, <1>6 DEF p

\* Time turns what will be generated into what was, or, while nobody has
\* shares, lets it pass.
LEMMA LaterPromised ==
    ASSUME NEW now \in Nat, NEW r, NEW sh, NEW ts \in Nat, RewardsOK(r, sh, ts, now)
    PROVE  Promised(r, now + 1, ts) <= Promised(r, now, ts)
<1> DEFINE p == UpdatePool(r, now, ts)
           q == UpdatePool(r, now + 1, ts)
           s == Stored(r.ws)
           a == SnapshotTime(r, now) - r.lastTime
           b == SnapshotTime(r, now + 1) - r.lastTime
           c == IF r.expiredAt <= now THEN 0 ELSE r.expiredAt - now
           d == IF r.expiredAt <= now + 1 THEN 0 ELSE r.expiredAt - (now + 1)
<1>1. /\ r \in RewardState /\ r.lastTime <= now /\ s \in Nat /\ now + 1 \in Nat
      /\ r.lastTime \in Nat /\ r.expiredAt \in Nat /\ r.tps \in Nat /\ r.acc \in Nat
      /\ r.claimed \in Nat /\ r.lastTime <= now + 1
  BY DEF RewardsOK, RewardState, Stored, Unset
<1>2. RewardsOK(r, sh, ts, now + 1)
  BY <1>1 DEF RewardsOK
<1>3. /\ SameClock(p, UpdateRewardsData(r, now, s))
      /\ p.tps = r.tps /\ p.expiredAt = r.expiredAt /\ p.claimed = r.claimed
      /\ SameClock(q, UpdateRewardsData(r, now + 1, s))
      /\ q.tps = r.tps /\ q.expiredAt = r.expiredAt /\ q.claimed = r.claimed
  BY <1>1, <1>2, UpdatePoolClock
<1>4. /\ a \in Nat /\ b \in Nat /\ c \in Nat /\ d \in Nat
      /\ b + d <= a + c /\ d <= c
  BY <1>1 DEF SnapshotTime
<1>5. Generated(r, now) = a * r.tps /\ Generated(r, now + 1) = b * r.tps
  BY DEF Generated
<1>6. /\ Promised(r, now, ts)
           = (p.acc + (IF r.expiredAt <= now THEN 0 ELSE (r.expiredAt - now) * r.tps))
               - r.claimed
      /\ Promised(r, now + 1, ts)
           = (q.acc + (IF r.expiredAt <= now + 1 THEN 0
                       ELSE (r.expiredAt - (now + 1)) * r.tps))
               - r.claimed
  BY <1>3 DEF Promised, TotalConfigured
<1>7. /\ (IF r.expiredAt <= now THEN 0 ELSE (r.expiredAt - now) * r.tps) = c * r.tps
      /\ (IF r.expiredAt <= now + 1 THEN 0 ELSE (r.expiredAt - (now + 1)) * r.tps) = d * r.tps
  BY <1>1
<1>8. /\ s = 0 => p.acc = r.acc /\ q.acc = r.acc
      /\ s # 0 => p.acc = r.acc + a * r.tps /\ q.acc = r.acc + b * r.tps
  BY <1>1, <1>3, <1>5, UpdateClock DEF SameClock
<1> HIDE DEF p, q, s, a, b, c, d
<1>9. /\ a * r.tps \in Nat /\ b * r.tps \in Nat /\ c * r.tps \in Nat /\ d * r.tps \in Nat
      /\ d * r.tps <= c * r.tps
  BY <1>1, <1>4, MulNat, MulMono
<1>10. b * r.tps + d * r.tps <= a * r.tps + c * r.tps
  <2>1. b + d \in Nat /\ a + c \in Nat /\ (b + d) * r.tps <= (a + c) * r.tps
    BY <1>1, <1>4, MulMono
  <2>2. /\ (b + d) * r.tps = b * r.tps + d * r.tps
        /\ (a + c) * r.tps = a * r.tps + c * r.tps
    BY <1>1, <1>4
  <2> QED
    BY <2>1, <2>2
<1>11. CASE s = 0
  BY <1>1, <1>6, <1>7, <1>8, <1>9, <1>11
<1>12. CASE s # 0
  BY <1>1, <1>6, <1>7, <1>8, <1>9, <1>10, <1>12
<1> QED
  BY <1>11, <1>12

\* A configuration that changes nothing of the current one promises nothing
\* more.
LEMMA ConfigUpToDate ==
    ASSUME NEW now \in Nat, NEW r, NEW sh, NEW ts \in Nat, RewardsOK(r, sh, ts, now),
           NEW e, NEW tps
    PROVE  LET q == SetRewardConfig(r, now, ts, e, tps)
           IN \/ q = r
              \/ /\ q.acc = UpdatePool(r, now, ts).acc
                 /\ q.claimed = UpdatePool(r, now, ts).claimed
                 /\ q.lastTime = now /\ (q.expiredAt \in Nat => UpToDate(q, now))
<1> DEFINE p == UpdatePool(r, now, ts)
           end == IF tps = 0 THEN now ELSE e
           q == [p EXCEPT !.lastTime = now, !.tps = tps, !.expiredAt = end]
<1>1. p \in RewardState
  BY UpdatePoolClock
<1>2. SetRewardConfig(r, now, ts, e, tps) = IF tps = 0 /\ r.expiredAt < now THEN r ELSE q
  BY DEF SetRewardConfig
<1> HIDE DEF p, end
<1>3. q.acc = p.acc /\ q.claimed = p.claimed /\ q.lastTime = now
  BY <1>1 DEF RewardState
<1> HIDE DEF q
<1>4. q.expiredAt \in Nat => UpToDate(q, now)
  BY <1>3 DEF UpToDate, SnapshotTime
<1> QED
  BY <1>2, <1>3, <1>4 DEF p
=============================================================================
