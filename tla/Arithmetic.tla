----------------------------- MODULE Arithmetic -----------------------------
(***************************************************************************)
(* Arithmetic that the proofs about the contracts share: products and      *)
(* rounded quotients, as in the formulas of the pools, and sums over       *)
(* finite sets, for their books (balances, shares, rewards of all users).  *)
(*                                                                         *)
(* The induction theorems of the library take the predicate as a           *)
(* parameter.  Here induction is stated about sets instead: a set of       *)
(* natural numbers has a least element, and a family of finite sets that   *)
(* is closed under adding an element holds them all.  A property is then   *)
(* the set of what satisfies it.                                           *)
(***************************************************************************)
EXTENDS Integers, FiniteSets, Functions, FiniteSetTheorems, WellFoundedInduction, TLAPS

-----------------------------------------------------------------------------
(* Products and quotients                                                  *)

\* Products of natural numbers.
LEMMA MulNat ==
    ASSUME NEW a \in Nat, NEW b \in Nat
    PROVE  a * b \in Nat
OBVIOUS

\* A product grows with its factors.
LEMMA MulMono ==
    ASSUME NEW a \in Nat, NEW b \in Nat, NEW c \in Nat, NEW d \in Nat, a <= c, b <= d
    PROVE  a * b <= c * d
<1>1. a * b <= c * b
  OBVIOUS
<1>2. c * b <= c * d
  OBVIOUS
<1> QED
  BY <1>1, <1>2

\* A common positive factor cancels.
LEMMA MulCancel ==
    ASSUME NEW a \in Nat, NEW b \in Nat, NEW c \in Nat \ {0}, c * a <= c * b
    PROVE  a <= b
OBVIOUS

\* The product of two products, regrouped.
LEMMA MulRegroup ==
    ASSUME NEW a \in Nat, NEW b \in Nat, NEW c \in Nat, NEW d \in Nat
    PROVE  (a * b) * (c * d) = (a * c) * (b * d)
OBVIOUS

\* Division rounded down.
LEMMA DivFacts ==
    ASSUME NEW x \in Nat, NEW y \in Nat \ {0}
    PROVE  /\ x \div y \in Nat
           /\ (x \div y) * y <= x
           /\ x < (x \div y + 1) * y
OBVIOUS

\* Division rounded up, as CeilDiv does.
LEMMA CeilFacts ==
    ASSUME NEW x \in Nat, NEW y \in Nat \ {0}
    PROVE  /\ (x + y - 1) \div y \in Nat
           /\ ((x + y - 1) \div y) * y >= x
<1> DEFINE q == (x + y - 1) \div y
<1>1. x + y - 1 \in Nat
  OBVIOUS
<1>2. q \in Nat /\ x + y - 1 < (q + 1) * y
  BY <1>1, DivFacts
<1>3. (q + 1) * y = q * y + y
  BY <1>2
<1> QED
  BY <1>2, <1>3

\* What fits d times in x is at most the quotient.
LEMMA QuotientAtLeast ==
    ASSUME NEW x \in Nat, NEW d \in Nat \ {0}, NEW y \in Nat, y * d <= x
    PROVE  y <= x \div d
<1> DEFINE q == x \div d
<1>1. q \in Nat /\ x < (q + 1) * d
  BY DivFacts
<1> HIDE DEF q
<1>2. CASE y >= q + 1
  <2>1. (q + 1) * d <= y * d
    BY <1>1, <1>2, MulMono
  <2>2. y * d \in Nat /\ (q + 1) * d \in Nat
    BY <1>1, MulNat
  <2> QED
    BY <1>1, <2>1, <2>2
<1> QED
  BY <1>1, <1>2 DEF q

\* A quotient goes up by one or stays.
LEMMA DivNext ==
    ASSUME NEW a \in Nat, NEW c \in Nat \ {0}
    PROVE  (a + 1) \div c = a \div c \/ (a + 1) \div c = (a \div c) + 1
<1> DEFINE q == a \div c
           r == (a + 1) \div c
<1>1. q \in Nat /\ q * c <= a /\ a < (q + 1) * c
  BY DivFacts
<1>2. r \in Nat /\ r * c <= a + 1 /\ a + 1 < (r + 1) * c
  BY DivFacts
<1> HIDE DEF q, r
<1>3. CASE r < q
  <2>1. (r + 1) * c <= q * c /\ (r + 1) * c \in Nat /\ q * c \in Nat
    BY <1>1, <1>2, <1>3, MulMono, MulNat
  <2> QED
    BY <1>1, <1>2, <2>1
<1>4. CASE r > q + 1
  <2>1. (q + 2) * c <= r * c /\ r * c \in Nat /\ (q + 2) * c = (q + 1) * c + c
    BY <1>1, <1>2, <1>4, MulMono, MulNat
  <2>2. (q + 1) * c \in Nat
    BY <1>1, MulNat
  <2> QED
    BY <1>1, <1>2, <2>1, <2>2
<1> QED
  BY <1>1, <1>2, <1>3, <1>4 DEF q, r

\* A larger number has no smaller quotient.
LEMMA DivMono ==
    ASSUME NEW a \in Nat, NEW b \in Nat, a <= b, NEW c \in Nat \ {0}
    PROVE  a \div c <= b \div c
<1> DEFINE q == a \div c
<1>1. q \in Nat /\ q * c <= a
  BY DivFacts
<1> HIDE DEF q
<1>2. q * c \in Nat
  BY <1>1, MulNat
<1>3. q <= b \div c
  BY <1>1, <1>2, QuotientAtLeast
<1> QED
  BY <1>3 DEF q

\* The quotient of a number between two multiples.
LEMMA DivIs ==
    ASSUME NEW a \in Nat, NEW c \in Nat \ {0}, NEW q \in Nat, q * c <= a, a < (q + 1) * c
    PROVE  a \div c = q
<1> DEFINE r == a \div c
<1>1. r \in Nat /\ r * c <= a /\ a < (r + 1) * c
  BY DivFacts
<1> HIDE DEF r
<1>2. CASE r < q
  <2>1. (r + 1) * c <= q * c /\ (r + 1) * c \in Nat /\ q * c \in Nat
    BY <1>1, <1>2, MulMono, MulNat
  <2> QED
    BY <1>1, <2>1
<1>3. CASE r > q
  <2>1. (q + 1) * c <= r * c /\ (q + 1) * c \in Nat /\ r * c \in Nat
    BY <1>1, <1>3, MulMono, MulNat
  <2> QED
    BY <1>1, <2>1
<1> QED
  BY <1>1, <1>2, <1>3 DEF r

\* Quotient and rest.
LEMMA ModFacts ==
    ASSUME NEW a \in Nat, NEW c \in Nat \ {0}
    PROVE  a % c \in 0..(c - 1) /\ a = (a \div c) * c + (a % c)
OBVIOUS

\* Dividing by a product is dividing twice; what is left of the first quotient
\* is the place among the cells of a page.
LEMMA DivTwice ==
    ASSUME NEW b \in Nat, NEW c \in Nat \ {0}, NEW p \in Nat \ {0}
    PROVE  /\ b \div (c * p) = (b \div c) \div p
           /\ (b % (c * p)) \div c = (b \div c) % p
<1> DEFINE q == b \div c
           s == q \div p
           t == q % p
           r == b % c
           cp == c * p
<1>1. cp \in Nat \ {0}
  OBVIOUS
<1>2. q \in Nat /\ s \in Nat /\ t \in 0..(p - 1) /\ r \in 0..(c - 1)
      /\ q = s * p + t /\ b = q * c + r
  <2>1. q \in Nat /\ r \in 0..(c - 1) /\ b = q * c + r
    BY DivFacts, ModFacts
  <2> HIDE DEF q, r
  <2>2. s \in Nat /\ t \in 0..(p - 1) /\ q = s * p + t
    BY <2>1, DivFacts, ModFacts
  <2> QED
    BY <2>1, <2>2
<1>3. b \div cp \in Nat /\ b % cp \in 0..(cp - 1) /\ b = (b \div cp) * cp + (b % cp)
  BY <1>1, DivFacts, ModFacts
<1> HIDE DEF q, s, t, r
<1>4. t * c + r \in Nat /\ t * c + r < cp /\ t * c \in Nat
  <2>1. t * c <= (p - 1) * c /\ t * c \in Nat /\ (p - 1) * c = p * c - c
    BY <1>2, MulMono, MulNat
  <2>2. p * c \in Nat /\ cp = p * c
    OBVIOUS
  <2> QED
    BY <1>2, <2>1, <2>2
<1>5. b = s * cp + (t * c + r)
  <2>1. (s * p + t) * c = (s * p) * c + t * c /\ (s * p) * c = s * cp
    BY <1>2
  <2> HIDE DEF cp
  <2>2. s * cp \in Nat
    BY <1>1, <1>2, MulNat
  <2> QED
    BY <1>2, <1>4, <2>1, <2>2
<1> HIDE DEF cp
<1>6. b \div cp = s
  <2>1. s * cp \in Nat /\ (s + 1) * cp = s * cp + cp
    BY <1>1, <1>2, MulNat
  <2>2. s * cp <= b /\ b < (s + 1) * cp
    BY <1>1, <1>4, <1>5, <2>1
  <2> QED
    BY <1>1, <1>2, <2>2, DivIs
<1>7. b % cp = t * c + r
  <2>1. s * cp \in Nat
    BY <1>1, <1>2, MulNat
  <2> DEFINE m == b % cp
             n == t * c + r
             k == s * cp
  <2>2. b = k + m
    BY <1>3, <1>6
  <2>3. k \in Nat /\ m \in Nat /\ n \in Nat /\ b = k + n
    BY <1>1, <1>3, <1>4, <1>5, <2>1
  <2> HIDE DEF m, n, k
  <2>4. m = n
    BY <2>2, <2>3
  <2> QED
    BY <2>4 DEF m, n
<1>8. (t * c + r) \div c = t
  <2>1. (t + 1) * c = t * c + c
    BY <1>2
  <2>2. t * c <= t * c + r /\ t * c + r < (t + 1) * c
    BY <1>2, <1>4, <2>1
  <2> QED
    BY <1>2, <1>4, <2>2, DivIs
<1> QED
  BY <1>6, <1>7, <1>8 DEF cp, q, s, t

\* A part of x, in units of 1 / y, is at most x.
LEMMA PartAtMost ==
    ASSUME NEW x \in Nat, NEW y \in Nat \ {0}, NEW part \in 0..y
    PROVE  /\ (x * part) \div y \in Nat
           /\ (x * part) \div y <= x
<1>1. x * part \in Nat /\ x * part <= x * y
  OBVIOUS
<1>2. (x * part) \div y \in Nat /\ ((x * part) \div y) * y <= x * y
  BY <1>1, DivFacts
<1> QED
  BY <1>2

-----------------------------------------------------------------------------
(* Swaps                                                                   *)

\* Selling x into reserves a and b for what amount_out gives keeps a * b.
LEMMA AmountOutKeepsProduct ==
    ASSUME NEW a \in Nat \ {0}, NEW b \in Nat, NEW x \in Nat
    PROVE  LET out == (x * b) \div (a + x)
           IN /\ out \in 0..b
              /\ a * b <= (a + x) * (b - out)
<1> DEFINE out == (x * b) \div (a + x)
<1>1. x * b \in Nat /\ a + x \in Nat \ {0}
  OBVIOUS
<1>2. out \in Nat /\ out * (a + x) <= x * b
  BY <1>1, DivFacts
<1> HIDE DEF out
<1>3. x * b <= (a + x) * b
  OBVIOUS
<1>4. out <= b
  <2>1. (a + x) * out <= (a + x) * b
    BY <1>2, <1>3
  <2> QED
    BY <2>1, <1>1, <1>2, MulCancel
<1>5. (a + x) * (b - out) = a * b + x * b - out * (a + x)
  BY <1>2
<1>6. a * b <= (a + x) * (b - out)
  BY <1>2, <1>5
<1> QED
  BY <1>2, <1>4, <1>6 DEF out

\* So does buying out for what amount_in asks, before the fee.
LEMMA AmountInKeepsProduct ==
    ASSUME NEW a \in Nat, NEW b \in Nat, NEW out \in Nat, out < b, NEW x \in Nat,
           x * (b - out) >= a * out
    PROVE  a * b <= (a + x) * (b - out)
<1>1. (a + x) * (b - out) = a * b - a * out + x * (b - out)
  OBVIOUS
<1> QED
  BY <1>1

\* The check of the swaps, in units of 1 / m, holds if the input x counts in it
\* for at least the w that the price was computed for.
LEMMA CheckPasses ==
    ASSUME NEW m \in Nat \ {0}, NEW a \in Nat, NEW b \in Nat, NEW x \in Nat, NEW r \in Nat,
           NEW w \in Nat, NEW y \in 0..b,
           m * w <= r * x, a * b <= (a + w) * (b - y)
    PROVE  (m * a + r * x) * (m * (b - y)) >= (m * a) * (m * b)
<1>1. m * (a + w) \in Nat /\ m * a + r * x \in Nat /\ m * (b - y) \in Nat
  BY MulNat
<1>2. m * (a + w) <= m * a + r * x
  OBVIOUS
<1>3. (m * (a + w)) * (m * (b - y)) <= (m * a + r * x) * (m * (b - y))
  BY <1>1, <1>2, MulMono
<1>4. /\ m * m \in Nat /\ a * b \in Nat /\ (a + w) * (b - y) \in Nat
      /\ (m * a) * (m * b) = (m * m) * (a * b)
      /\ (m * (a + w)) * (m * (b - y)) = (m * m) * ((a + w) * (b - y))
  BY MulNat, MulRegroup
<1>5. (m * m) * (a * b) <= (m * m) * ((a + w) * (b - y))
  BY <1>4, MulMono
<1>6. (m * a) * (m * b) \in Nat /\ (m * a + r * x) * (m * (b - y)) \in Nat
      /\ (m * (a + w)) * (m * (b - y)) \in Nat
  BY <1>1, MulNat
<1> QED
  BY <1>3, <1>4, <1>5, <1>6

-----------------------------------------------------------------------------
(* Shares                                                                  *)

\* Totals of shares t before and u after, where u is at most in proportion to
\* each of the reserves: the value of a share does not fall.
LEMMA ProportionKeepsValue ==
    ASSUME NEW a \in Nat, NEW b \in Nat, NEW c \in Nat, NEW d \in Nat,
           NEW t \in Nat, NEW u \in Nat,
           u * a <= c * t, u * b <= d * t
    PROVE  (a * b) * (u * u) <= (c * d) * (t * t)
<1>1. (u * a) * (u * b) <= (c * t) * (d * t)
  BY MulMono
<1>2. (u * a) * (u * b) = (a * b) * (u * u)
  OBVIOUS
<1>3. (c * t) * (d * t) = (c * d) * (t * t)
  OBVIOUS
<1> QED
  BY <1>1, <1>2, <1>3

\* If the product p backed t shares, and q is worth at least as much per share
\* for u shares, then q backs them.
LEMMA ValueKeepsBacking ==
    ASSUME NEW p \in Nat \ {0}, NEW q \in Nat, NEW t \in Nat, NEW u \in Nat,
           t * t <= p, p * (u * u) <= q * (t * t)
    PROVE  u * u <= q
<1>1. q * (t * t) <= q * p
  OBVIOUS
<1>2. p * (u * u) <= p * q
  BY <1>1
<1> QED
  BY <1>2, MulCancel

\* Withdrawing n of t shares takes at most its proportion of a reserve r.
LEMMA WithdrawalIsProportional ==
    ASSUME NEW r \in Nat, NEW t \in Nat \ {0}, NEW n \in 0..t
    PROVE  LET out == (r * n) \div t
           IN /\ out \in 0..r
              /\ (t - n) * r <= (r - out) * t
              /\ n = t => out = r
<1> DEFINE out == (r * n) \div t
<1>1. out \in Nat /\ out <= r
  BY PartAtMost
<1>2. out * t <= r * n
  BY DivFacts
<1>3. n = t => out = r
  OBVIOUS
<1> HIDE DEF out
<1>4. (t - n) * r = t * r - r * n
  OBVIOUS
<1>5. (r - out) * t = t * r - out * t
  BY <1>1
<1> QED
  BY <1>1, <1>2, <1>3, <1>4, <1>5 DEF out

-----------------------------------------------------------------------------
(* Induction                                                               *)

LEMMA LeastElement ==
    ASSUME NEW T \in SUBSET Nat, T # {}
    PROVE  \E x \in T : \A y \in T : x <= y
<1> DEFINE R == OpToRel(<, Nat)
<1>1. IsWellFoundedOn(R, Nat)
  BY NatLessThanWellFounded
<1>2. \A x, y \in Nat : <<y, x>> \in R <=> y < x
  BY DEF OpToRel
<1> HIDE DEF R
<1>3. PICK x \in T : \A y \in T : ~ (<<y, x>> \in R)
  BY <1>1, WFMin, Zenon
<1>4. \A y \in T : ~(y < x)
  BY <1>2, <1>3, Zenon
<1> QED
  BY <1>3, <1>4

\* A set with 0 that is closed under successor is Nat.
LEMMA NatSetInduction ==
    ASSUME NEW T \in SUBSET Nat, 0 \in T, \A n \in T : n + 1 \in T
    PROVE  T = Nat
<1> SUFFICES ASSUME Nat \ T # {} PROVE FALSE
  OBVIOUS
<1>1. PICK x \in Nat \ T : \A y \in Nat \ T : x <= y
  BY LeastElement
<1>2. x # 0 /\ x - 1 \in Nat
  BY <1>1
<1>3. x - 1 \in T
  BY <1>1, <1>2
<1> QED
  BY <1>1, <1>3

\* A family of finite sets has a member that leaves it with every element it
\* loses: the smallest counterexample of a property of sets.
LEMMA SmallestSet ==
    ASSUME NEW S, IsFiniteSet(S), NEW F \in SUBSET (SUBSET S), F # {}
    PROVE  \E s \in F : \A x \in s : s \ {x} \notin F
<1> DEFINE Sizes == {Cardinality(s) : s \in F}
<1>1. \A s \in SUBSET S : IsFiniteSet(s) /\ Cardinality(s) \in Nat
  BY FS_Subset, FS_CardinalityType
<1>2. Sizes \in SUBSET Nat /\ Sizes # {}
  BY <1>1
<1>3. PICK n \in Sizes : \A k \in Sizes : n <= k
  <2> HIDE DEF Sizes
  <2> QED BY <1>2, LeastElement
<1>4. PICK s \in F : n = Cardinality(s)
  BY <1>3
<1>5. ASSUME NEW x \in s, s \ {x} \in F PROVE FALSE
  <2>1. Cardinality(s \ {x}) = Cardinality(s) - 1 /\ Cardinality(s) \in Nat
    BY <1>1, <1>4, <1>5, FS_RemoveElement
  <2>2. Cardinality(s \ {x}) \in Sizes
    BY <1>5
  <2>3. n <= Cardinality(s \ {x})
    <3> HIDE DEF Sizes
    <3> QED BY <1>3, <2>2
  <2> QED
    BY <2>1, <2>3, <1>4
<1> QED
  BY <1>4, <1>5

-----------------------------------------------------------------------------
(* Unfolding the definition                                                *)

\* The element the library's fold takes next.
Next1(s) == CHOOSE x \in s : TRUE

\* h is the fold of fun over the subsets of S.
IsSum(h, fun, S) ==
    h = [s \in SUBSET S |-> IF s = {} THEN 0 ELSE fun[Next1(s)] + h[s \ {Next1(s)}]]

LEMMA Next1In ==
    ASSUME NEW s, s # {}
    PROVE  Next1(s) \in s
BY DEF Next1

LEMMA IsSumExists ==
    ASSUME NEW D, NEW fun \in [D -> Int], NEW S \in SUBSET D, IsFiniteSet(S)
    PROVE  \E h \in [SUBSET S -> Int] : IsSum(h, fun, S)
<1> DEFINE UpTo(h, n) ==
             \A s \in SUBSET S : Cardinality(s) <= n =>
                h[s] = IF s = {} THEN 0 ELSE fun[Next1(s)] + h[s \ {Next1(s)}]
<1> DEFINE T == {n \in Nat : \E h \in [SUBSET S -> Int] : UpTo(h, n)}
<1>1. \A s \in SUBSET S : IsFiniteSet(s) /\ Cardinality(s) \in Nat
  BY FS_Subset, FS_CardinalityType
<1>2. \A s \in SUBSET S : Cardinality(s) = 0 => s = {}
  BY <1>1, FS_EmptySet
<1>3. 0 \in T
  <2> DEFINE h0 == [s \in SUBSET S |-> 0]
  <2>1. h0 \in [SUBSET S -> Int] /\ UpTo(h0, 0)
    BY <1>1, <1>2
  <2> QED
    BY <2>1
<1>4. ASSUME NEW n \in T PROVE n + 1 \in T
  <2>1. n \in Nat
    OBVIOUS
  <2>2. PICK h \in [SUBSET S -> Int] : UpTo(h, n)
    OBVIOUS
  <2> DEFINE k == [s \in SUBSET S |->
                     IF s = {} THEN 0 ELSE fun[Next1(s)] + h[s \ {Next1(s)}]]
  <2>3. k \in [SUBSET S -> Int]
    <3> SUFFICES ASSUME NEW s \in SUBSET S, s # {}
                 PROVE  fun[Next1(s)] + h[s \ {Next1(s)}] \in Int
      OBVIOUS
    <3>1. Next1(s) \in D /\ s \ {Next1(s)} \in SUBSET S
      BY Next1In
    <3> QED
      BY <3>1, <2>2
  <2>4. ASSUME NEW s \in SUBSET S, Cardinality(s) <= n + 1, s # {}
        PROVE  k[s] = fun[Next1(s)] + k[s \ {Next1(s)}]
    <3> DEFINE r == s \ {Next1(s)}
    <3>1. r \in SUBSET S /\ Next1(s) \in s
      BY <2>4, Next1In
    <3>2. Cardinality(r) <= n
      <4>1. Cardinality(r) = Cardinality(s) - 1
        BY <1>1, <3>1, FS_RemoveElement
      <4> QED
        BY <4>1, <2>4, <1>1, <2>1
    <3>3. h[r] = k[r]
      BY <2>2, <3>1, <3>2
    <3> QED
      BY <3>3, <2>4
  <2>5. UpTo(k, n + 1)
    BY <2>4
  <2> HIDE DEF k, UpTo
  <2>6. n + 1 \in Nat
    BY <2>1
  <2> QED
    BY <2>6, <2>3, <2>5
<1>5. T = Nat
  <2> HIDE DEF T
  <2>1. T \in SUBSET Nat
    BY DEF T
  <2> QED
    BY <1>3, <1>4, <2>1, NatSetInduction
<1>6. PICK h \in [SUBSET S -> Int] : UpTo(h, Cardinality(S))
  BY <1>1, <1>5
<1>7. \A s \in SUBSET S : Cardinality(s) <= Cardinality(S)
  BY FS_Subset
<1>8. \A s \in SUBSET S :
        h[s] = IF s = {} THEN 0 ELSE fun[Next1(s)] + h[s \ {Next1(s)}]
  BY <1>6, <1>7
<1> QED
  BY <1>6, <1>8 DEF IsSum

\* SumFunctionOnSet is such a fold.
LEMMA SumIsSum ==
    ASSUME NEW D, NEW fun \in [D -> Int], NEW S \in SUBSET D, IsFiniteSet(S)
    PROVE  \E h : IsSum(h, fun, S) /\ SumFunctionOnSet(fun, S) = h[S]
<1> DEFINE P(h) == h = [s \in SUBSET S |->
                          IF s = {} THEN 0
                          ELSE fun[CHOOSE x \in s : TRUE] + h[s \ {CHOOSE x \in s : TRUE}]]
<1> DEFINE k == CHOOSE h : P(h)
<1>1. \E h : P(h)
  <2>1. PICK h : IsSum(h, fun, S)
    BY IsSumExists
  <2>2. P(h)
    BY <2>1 DEF IsSum, Next1
  <2> HIDE DEF P
  <2> QED
    BY <2>2
<1>2. SumFunctionOnSet(fun, S) = k[S]
  BY DEF SumFunctionOnSet, FoldFunctionOnSet, MapThenFoldSet
<1>3. P(k)
  <2> HIDE DEF P
  <2> QED BY <1>1, Zenon
<1> QED
  BY <1>2, <1>3 DEF IsSum, Next1

\* Two folds agree on the sets they both know.
LEMMA IsSumUnique ==
    ASSUME NEW fun, NEW S, IsFiniteSet(S), NEW R \in SUBSET S,
           NEW h, IsSum(h, fun, S), NEW k, IsSum(k, fun, R)
    PROVE  \A s \in SUBSET R : h[s] = k[s]
<1> DEFINE F == {s \in SUBSET R : h[s] # k[s]}
<1> SUFFICES ASSUME F # {} PROVE FALSE
  OBVIOUS
<1>1. IsFiniteSet(R) /\ F \in SUBSET (SUBSET R)
  BY FS_Subset
<1>2. PICK s \in F : \A x \in s : s \ {x} \notin F
  <2> HIDE DEF F
  <2> QED BY <1>1, SmallestSet
<1>3. s # {}
  BY <1>2 DEF IsSum
<1>4. Next1(s) \in s /\ s \ {Next1(s)} \in SUBSET R
  BY <1>2, <1>3, Next1In
<1>5. h[s \ {Next1(s)}] = k[s \ {Next1(s)}]
  BY <1>2, <1>4
<1>6. s \in SUBSET R /\ s \in SUBSET S
  BY <1>2
<1>7. h[s] = fun[Next1(s)] + h[s \ {Next1(s)}]
  BY <1>3, <1>6 DEF IsSum
<1>8. k[s] = fun[Next1(s)] + k[s \ {Next1(s)}]
  BY <1>3, <1>6 DEF IsSum
<1> QED
  BY <1>2, <1>5, <1>7, <1>8

-----------------------------------------------------------------------------
(* Sums                                                                    *)

LEMMA SumEmpty ==
    ASSUME NEW D, NEW fun \in [D -> Int]
    PROVE  SumFunctionOnSet(fun, {}) = 0
<1>1. PICK h : IsSum(h, fun, {}) /\ SumFunctionOnSet(fun, {}) = h[{}]
  BY SumIsSum, FS_EmptySet
<1> QED
  BY <1>1 DEF IsSum

\* The fold takes its next element out.
LEMMA SumNext ==
    ASSUME NEW D, NEW fun \in [D -> Int], NEW S \in SUBSET D, IsFiniteSet(S), S # {}
    PROVE  SumFunctionOnSet(fun, S)
             = fun[Next1(S)] + SumFunctionOnSet(fun, S \ {Next1(S)})
<1> DEFINE R == S \ {Next1(S)}
<1>1. R \in SUBSET S /\ R \in SUBSET D /\ IsFiniteSet(R)
  BY FS_Subset
<1>2. PICK h : IsSum(h, fun, S) /\ SumFunctionOnSet(fun, S) = h[S]
  BY SumIsSum
<1>3. PICK k : IsSum(k, fun, R) /\ SumFunctionOnSet(fun, R) = k[R]
  <2> HIDE DEF R
  <2> QED BY <1>1, SumIsSum
<1>4. h[R] = k[R]
  <2> HIDE DEF R
  <2> QED BY <1>1, <1>2, <1>3, IsSumUnique
<1>5. h[S] = fun[Next1(S)] + h[R]
  BY <1>2 DEF IsSum
<1> QED
  BY <1>2, <1>3, <1>4, <1>5

LEMMA SumInt ==
    ASSUME NEW D, NEW fun \in [D -> Int], NEW S \in SUBSET D, IsFiniteSet(S)
    PROVE  SumFunctionOnSet(fun, S) \in Int
<1> DEFINE F == {s \in SUBSET S : SumFunctionOnSet(fun, s) \notin Int}
<1> SUFFICES ASSUME F # {} PROVE FALSE
  OBVIOUS
<1>1. PICK s \in F : \A x \in s : s \ {x} \notin F
  <2>1. F \in SUBSET (SUBSET S)
    OBVIOUS
  <2> HIDE DEF F
  <2> QED BY <2>1, SmallestSet
<1>2. s # {}
  BY <1>1, SumEmpty
<1>3. Next1(s) \in s /\ s \in SUBSET D /\ IsFiniteSet(s) /\ s \ {Next1(s)} \in SUBSET S
  BY <1>1, <1>2, Next1In, FS_Subset
<1>4. SumFunctionOnSet(fun, s \ {Next1(s)}) \in Int
  BY <1>1, <1>3
<1>5. fun[Next1(s)] \in Int
  BY <1>3
<1>6. SumFunctionOnSet(fun, s) = fun[Next1(s)] + SumFunctionOnSet(fun, s \ {Next1(s)})
  BY <1>2, <1>3, SumNext
<1> QED
  BY <1>1, <1>4, <1>5, <1>6

\* Any element may be taken out.
LEMMA SumRemove ==
    ASSUME NEW D, NEW fun \in [D -> Int], NEW S \in SUBSET D, IsFiniteSet(S), NEW x \in S
    PROVE  SumFunctionOnSet(fun, S) = fun[x] + SumFunctionOnSet(fun, S \ {x})
<1> DEFINE Sum(s) == SumFunctionOnSet(fun, s)
<1> DEFINE F == {s \in SUBSET S : \E y \in s : Sum(s) # fun[y] + Sum(s \ {y})}
<1> SUFFICES ASSUME F # {} PROVE FALSE
  OBVIOUS
<1>1. \A s \in SUBSET S : Sum(s) \in Int /\ (s # {} => Sum(s) = fun[Next1(s)] + Sum(s \ {Next1(s)}))
  <2> TAKE s \in SUBSET S
  <2>1. s \in SUBSET D /\ IsFiniteSet(s)
    BY FS_Subset
  <2> QED
    BY <2>1, SumInt, SumNext
<1>2. PICK s \in F : \A y \in s : s \ {y} \notin F
  <2>1. F \in SUBSET (SUBSET S)
    OBVIOUS
  <2> HIDE DEF F
  <2> QED BY <2>1, SmallestSet
<1> HIDE DEF Sum
<1>3. PICK y \in s : Sum(s) # fun[y] + Sum(s \ {y})
  BY <1>2
<1> DEFINE c == Next1(s)
<1>4. c \in s /\ s \in SUBSET S
  BY <1>2, <1>3, Next1In
<1>5. Sum(s) = fun[c] + Sum(s \ {c})
  BY <1>1, <1>4
<1>6. c # y
  BY <1>3, <1>5
<1>7. Sum(s \ {c}) = fun[y] + Sum((s \ {c}) \ {y})
  BY <1>2, <1>4, <1>6
<1>8. Sum(s \ {y}) = fun[c] + Sum((s \ {y}) \ {c})
  BY <1>2, <1>4, <1>6
<1>9. (s \ {c}) \ {y} = (s \ {y}) \ {c}
  OBVIOUS
<1>10. fun[c] \in Int /\ fun[y] \in Int /\ Sum((s \ {c}) \ {y}) \in Int
  <2>1. (s \ {c}) \ {y} \in SUBSET S
    BY <1>4
  <2> QED
    BY <2>1, <1>1, <1>4
<1>11. Sum((s \ {y}) \ {c}) = Sum((s \ {c}) \ {y})
  BY <1>9, Zenon
<1> DEFINE m == Sum((s \ {c}) \ {y})
           a == fun[c]
           b == fun[y]
<1>12. a \in Int /\ b \in Int /\ m \in Int
  BY <1>10
<1>13. Sum(s) = a + (b + m)
  BY <1>5, <1>7, Zenon
<1>14. b + Sum(s \ {y}) = b + (a + m)
  BY <1>8, <1>11, Zenon
<1> HIDE DEF m, a
<1>15. a + (b + m) = b + (a + m)
  <2> HIDE DEF b
  <2> QED BY <1>12
<1> QED
  BY <1>3, <1>13, <1>14, <1>15, Zenon

\* A sum only depends on the values it adds.
LEMMA SumSame ==
    ASSUME NEW D, NEW fun \in [D -> Int], NEW gun \in [D -> Int],
           NEW S \in SUBSET D, IsFiniteSet(S), \A x \in S : fun[x] = gun[x]
    PROVE  SumFunctionOnSet(fun, S) = SumFunctionOnSet(gun, S)
<1> DEFINE Sum(s) == SumFunctionOnSet(fun, s)
           Tum(s) == SumFunctionOnSet(gun, s)
           F == {s \in SUBSET S : Sum(s) # Tum(s)}
<1> SUFFICES ASSUME F # {} PROVE FALSE
  OBVIOUS
<1>1. PICK s \in F : \A y \in s : s \ {y} \notin F
  <2>1. F \in SUBSET (SUBSET S)
    OBVIOUS
  <2> HIDE DEF F
  <2> QED BY <2>1, SmallestSet
<1>2. s \in SUBSET D /\ IsFiniteSet(s)
  BY <1>1, FS_Subset
<1>3. s # {}
  BY <1>1, SumEmpty
<1> DEFINE c == Next1(s)
<1>4. c \in s /\ s \ {c} \in SUBSET S
  BY <1>1, <1>3, Next1In
<1>5. Sum(s) = fun[c] + Sum(s \ {c}) /\ Tum(s) = gun[c] + Tum(s \ {c})
  BY <1>2, <1>3, SumNext
<1>6. Sum(s \ {c}) = Tum(s \ {c}) /\ fun[c] = gun[c]
  BY <1>1, <1>4
<1>7. Sum(s) = Tum(s)
  <2> HIDE DEF Sum, Tum, c
  <2> QED BY <1>5, <1>6
<1> QED
  BY <1>1, <1>7

\* Changing one value changes the sum by the difference.
LEMMA SumChange ==
    ASSUME NEW D, NEW fun \in [D -> Int], NEW gun \in [D -> Int],
           NEW S \in SUBSET D, IsFiniteSet(S), NEW x \in S,
           \A y \in S \ {x} : fun[y] = gun[y]
    PROVE  SumFunctionOnSet(gun, S) = SumFunctionOnSet(fun, S) + gun[x] - fun[x]
<1> DEFINE a == SumFunctionOnSet(fun, S)
           b == SumFunctionOnSet(gun, S)
           c == SumFunctionOnSet(fun, S \ {x})
           d == SumFunctionOnSet(gun, S \ {x})
<1>1. S \ {x} \in SUBSET D /\ IsFiniteSet(S \ {x})
  BY FS_Subset
<1>2. c \in Int
  BY <1>1, SumInt
<1>3. c = d
  BY <1>1, SumSame
<1>4. a = fun[x] + c /\ b = gun[x] + d
  BY SumRemove
<1>5. fun[x] \in Int /\ gun[x] \in Int
  OBVIOUS
<1> HIDE DEF a, b, c, d
<1>6. b = a + gun[x] - fun[x]
  BY <1>2, <1>3, <1>4, <1>5
<1> QED
  BY <1>6 DEF a, b

LEMMA SumNat ==
    ASSUME NEW D, NEW fun \in [D -> Int], NEW S \in SUBSET D, IsFiniteSet(S),
           \A x \in S : fun[x] \in Nat
    PROVE  SumFunctionOnSet(fun, S) \in Nat
<1> DEFINE Sum(s) == SumFunctionOnSet(fun, s)
           F == {s \in SUBSET S : Sum(s) \notin Nat}
<1> SUFFICES ASSUME F # {} PROVE FALSE
  OBVIOUS
<1>1. PICK s \in F : \A y \in s : s \ {y} \notin F
  <2>1. F \in SUBSET (SUBSET S)
    OBVIOUS
  <2> HIDE DEF F
  <2> QED BY <2>1, SmallestSet
<1>2. s \in SUBSET D /\ IsFiniteSet(s)
  BY <1>1, FS_Subset
<1>3. s # {}
  BY <1>1, SumEmpty
<1> DEFINE c == Next1(s)
<1>4. c \in s /\ s \ {c} \in SUBSET S
  BY <1>1, <1>3, Next1In
<1>5. Sum(s) = fun[c] + Sum(s \ {c})
  BY <1>2, <1>3, SumNext
<1>6. Sum(s \ {c}) \in Nat /\ fun[c] \in Nat
  BY <1>1, <1>4
<1>7. Sum(s) \in Nat
  <2> HIDE DEF Sum, c
  <2> QED BY <1>5, <1>6
<1> QED
  BY <1>1, <1>7

\* No part is more than the whole.
LEMMA SumAtLeast ==
    ASSUME NEW D, NEW fun \in [D -> Int], NEW S \in SUBSET D, IsFiniteSet(S),
           \A x \in S : fun[x] \in Nat, NEW x \in S
    PROVE  fun[x] <= SumFunctionOnSet(fun, S)
<1> DEFINE a == SumFunctionOnSet(fun, S)
           c == SumFunctionOnSet(fun, S \ {x})
<1>1. S \ {x} \in SUBSET D /\ IsFiniteSet(S \ {x})
  BY FS_Subset
<1>2. c \in Nat
  BY <1>1, SumNat
<1>3. a = fun[x] + c
  BY SumRemove
<1>4. fun[x] \in Int
  OBVIOUS
<1> HIDE DEF a, c
<1>5. fun[x] <= a
  BY <1>2, <1>3, <1>4
<1> QED
  BY <1>5 DEF a

\* A function of natural numbers changes at one place, and with it the sum.
LEMMA SumUpdate ==
    ASSUME NEW D, IsFiniteSet(D), NEW fun \in [D -> Nat], NEW x \in D, NEW n \in Nat
    PROVE  /\ [fun EXCEPT ![x] = n] \in [D -> Nat]
           /\ SumFunctionOnSet([fun EXCEPT ![x] = n], D)
                = SumFunctionOnSet(fun, D) + n - fun[x]
           /\ SumFunctionOnSet(fun, D) \in Nat
<1> DEFINE gun == [fun EXCEPT ![x] = n]
<1>1. gun \in [D -> Nat] /\ gun[x] = n /\ \A y \in D \ {x} : fun[y] = gun[y]
  OBVIOUS
<1> HIDE DEF gun
<1>2. fun \in [D -> Int] /\ gun \in [D -> Int] /\ D \in SUBSET D
  BY <1>1
<1>3. SumFunctionOnSet(gun, D) = SumFunctionOnSet(fun, D) + gun[x] - fun[x]
  BY <1>1, <1>2, SumChange
<1>4. SumFunctionOnSet(fun, D) \in Nat
  BY <1>2, SumNat
<1> QED
  BY <1>1, <1>3, <1>4 DEF gun

LEMMA SumOfZeros ==
    ASSUME NEW D, NEW fun \in [D -> Int], IsFiniteSet(D), \A x \in D : fun[x] = 0
    PROVE  SumFunctionOnSet(fun, D) = 0
<1> DEFINE F == {s \in SUBSET D : SumFunctionOnSet(fun, s) # 0}
<1> SUFFICES ASSUME F # {} PROVE FALSE
  OBVIOUS
<1>1. PICK s \in F : \A y \in s : s \ {y} \notin F
  <2>1. F \in SUBSET (SUBSET D)
    OBVIOUS
  <2> HIDE DEF F
  <2> QED BY <2>1, SmallestSet
<1>2. IsFiniteSet(s) /\ s # {}
  BY <1>1, FS_Subset, SumEmpty
<1>3. Next1(s) \in s /\ s \ {Next1(s)} \in SUBSET D
  BY <1>1, <1>2, Next1In
<1>4. SumFunctionOnSet(fun, s) = fun[Next1(s)] + SumFunctionOnSet(fun, s \ {Next1(s)})
  BY <1>1, <1>2, SumNext
<1>5. fun[Next1(s)] = 0 /\ SumFunctionOnSet(fun, s \ {Next1(s)}) = 0
  BY <1>1, <1>3
<1> QED
  BY <1>1, <1>4, <1>5

\* Values that grow by at most c times a weight make the sum grow by at most c
\* times the sum of the weights.
LEMMA SumGrowth ==
    ASSUME NEW D, NEW fun \in [D -> Int], NEW gun \in [D -> Int], NEW w \in [D -> Int],
           NEW c \in Int, NEW S \in SUBSET D, IsFiniteSet(S),
           \A x \in S : gun[x] <= fun[x] + c * w[x]
    PROVE  SumFunctionOnSet(gun, S)
             <= SumFunctionOnSet(fun, S) + c * SumFunctionOnSet(w, S)
<1> DEFINE Sum(s) == SumFunctionOnSet(fun, s)
           Tum(s) == SumFunctionOnSet(gun, s)
           Wum(s) == SumFunctionOnSet(w, s)
           F == {s \in SUBSET S : ~(Tum(s) <= Sum(s) + c * Wum(s))}
<1> SUFFICES ASSUME F # {} PROVE FALSE
  OBVIOUS
<1>1. PICK s \in F : \A y \in s : s \ {y} \notin F
  <2>1. F \in SUBSET (SUBSET S)
    OBVIOUS
  <2> HIDE DEF F
  <2> QED BY <2>1, SmallestSet
<1>2. s \in SUBSET D /\ IsFiniteSet(s)
  BY <1>1, FS_Subset
<1>3. s # {}
  <2>1. Sum({}) = 0 /\ Tum({}) = 0 /\ Wum({}) = 0
    BY SumEmpty
  <2>2. ~(Tum(s) <= Sum(s) + c * Wum(s))
    BY <1>1
  <2>3. 0 <= 0 + c * 0
    OBVIOUS
  <2> HIDE DEF Sum, Tum, Wum, F
  <2> QED BY <2>1, <2>2, <2>3
<1> DEFINE e == Next1(s)
           r == s \ {e}
<1>4. e \in s /\ r \in SUBSET S /\ r \in SUBSET D /\ IsFiniteSet(r)
  BY <1>1, <1>2, <1>3, Next1In, FS_Subset
<1>5. Sum(s) = fun[e] + Sum(r) /\ Tum(s) = gun[e] + Tum(r) /\ Wum(s) = w[e] + Wum(r)
  BY <1>2, <1>3, SumNext
<1>6. Sum(r) \in Int /\ Tum(r) \in Int /\ Wum(r) \in Int
  <2> HIDE DEF r
  <2> QED BY <1>4, SumInt
<1>7. fun[e] \in Int /\ gun[e] \in Int /\ w[e] \in Int /\ gun[e] <= fun[e] + c * w[e]
  BY <1>1, <1>4
<1>8. Tum(r) <= Sum(r) + c * Wum(r)
  BY <1>1, <1>4
<1>9. ~(Tum(s) <= Sum(s) + c * Wum(s))
  BY <1>1
<1> HIDE DEF Sum, Tum, Wum, e, r, F
<1>10. c * (w[e] + Wum(r)) = c * w[e] + c * Wum(r)
  BY <1>6, <1>7
<1> QED
  BY <1>5, <1>6, <1>7, <1>8, <1>9, <1>10

\* What holds of every value holds of the sum.
LEMMA SumScaled ==
    ASSUME NEW D, NEW fun \in [D -> Int], NEW gun \in [D -> Int], NEW c \in Int,
           NEW S \in SUBSET D, IsFiniteSet(S), \A x \in S : c * fun[x] <= gun[x]
    PROVE  c * SumFunctionOnSet(fun, S) <= SumFunctionOnSet(gun, S)
<1> DEFINE zero == [x \in D |-> 0]
<1>1. zero \in [D -> Int] /\ \A x \in S : zero[x] = 0
  OBVIOUS
<1> HIDE DEF zero
<1>2. \A x \in S : zero[x] <= gun[x] + (-c) * fun[x]
  <2> SUFFICES ASSUME NEW x \in S PROVE 0 <= gun[x] + (-c) * fun[x]
    BY <1>1
  <2>1. gun[x] \in Int /\ fun[x] \in Int /\ c * fun[x] <= gun[x]
    OBVIOUS
  <2> QED BY <2>1
<1>3. -c \in Int
  OBVIOUS
<1>4. SumFunctionOnSet(zero, S) <= SumFunctionOnSet(gun, S) + (-c) * SumFunctionOnSet(fun, S)
  BY <1>1, <1>2, <1>3, SumGrowth
<1>5. SumFunctionOnSet(zero, S) \in Nat
  BY <1>1, SumNat
<1>6. SumFunctionOnSet(gun, S) \in Int /\ SumFunctionOnSet(fun, S) \in Int
  BY SumInt
<1> QED
  BY <1>4, <1>5, <1>6

\* Only the values that are not zero matter, whatever the functions do outside.
LEMMA SumPart ==
    ASSUME NEW D, NEW fun \in [D -> Int], NEW E, NEW gun \in [E -> Int],
           NEW S \in SUBSET E, IsFiniteSet(S), NEW T \in SUBSET S, T \in SUBSET D,
           \A x \in T : gun[x] = fun[x], \A x \in S \ T : gun[x] = 0
    PROVE  SumFunctionOnSet(gun, S) = SumFunctionOnSet(fun, T)
<1> DEFINE Sum(s) == SumFunctionOnSet(gun, s)
           Tum(s) == SumFunctionOnSet(fun, s \cap T)
           F == {s \in SUBSET S : Sum(s) # Tum(s)}
<1>1. S \cap T = T
  OBVIOUS
<1> SUFFICES ASSUME F # {} PROVE FALSE
  BY <1>1
<1>2. PICK s \in F : \A y \in s : s \ {y} \notin F
  <2>1. F \in SUBSET (SUBSET S)
    OBVIOUS
  <2> HIDE DEF F
  <2> QED BY <2>1, SmallestSet
<1>3. s \in SUBSET E /\ s \in SUBSET S /\ IsFiniteSet(s) /\ Sum(s) # Tum(s)
  BY <1>2, FS_Subset
<1>4. s # {}
  <2>1. {} \cap T = {}
    OBVIOUS
  <2>2. Sum({}) = 0 /\ Tum({}) = 0
    BY <2>1, SumEmpty
  <2> HIDE DEF Sum, Tum, F
  <2> QED BY <1>3, <2>2
<1> DEFINE e == Next1(s)
           r == s \ {e}
<1>5. e \in s /\ r \in SUBSET S
  BY <1>3, <1>4, Next1In
<1>6. Sum(s) = gun[e] + Sum(r)
  BY <1>3, <1>4, SumNext
<1>7. Sum(r) = Tum(r)
  BY <1>2, <1>5
<1>8. Tum(r) \in Int
  <2>1. r \cap T \in SUBSET D /\ IsFiniteSet(r \cap T)
    BY <1>5, FS_Subset
  <2> QED
    BY <2>1, SumInt
<1>9. CASE e \in T
  <2>1. s \cap T \in SUBSET D /\ IsFiniteSet(s \cap T) /\ e \in s \cap T
    BY <1>3, <1>5, <1>9, FS_Subset
  <2>2. (s \cap T) \ {e} = r \cap T
    OBVIOUS
  <2>3. Tum(s) = fun[e] + SumFunctionOnSet(fun, (s \cap T) \ {e})
    <3> HIDE DEF e
    <3> QED BY <2>1, SumRemove
  <2>4. Tum(s) = fun[e] + Tum(r)
    BY <2>2, <2>3
  <2> QED
    BY <1>3, <1>6, <1>7, <1>9, <2>4
<1>10. CASE e \notin T
  <2>1. s \cap T = r \cap T
    BY <1>10
  <2>2. Tum(s) = Tum(r) /\ gun[e] = 0
    BY <1>3, <1>5, <1>10, <2>1
  <2> HIDE DEF Sum, Tum, e, r, F
  <2> QED
    BY <1>3, <1>6, <1>7, <1>8, <2>2
<1> QED
  BY <1>9, <1>10

LEMMA SumPlus ==
    ASSUME NEW D, NEW fun \in [D -> Int], NEW gun \in [D -> Int], NEW w \in [D -> Int],
           NEW S \in SUBSET D, IsFiniteSet(S), \A x \in S : gun[x] = fun[x] + w[x]
    PROVE  SumFunctionOnSet(gun, S) = SumFunctionOnSet(fun, S) + SumFunctionOnSet(w, S)
<1>1. /\ SumFunctionOnSet(gun, S) \in Int /\ SumFunctionOnSet(fun, S) \in Int
      /\ SumFunctionOnSet(w, S) \in Int
  BY SumInt
<1>2. \A x \in S : gun[x] <= fun[x] + 1 * w[x] /\ fun[x] <= gun[x] + (-1) * w[x]
  <2> SUFFICES ASSUME NEW x \in S
               PROVE  gun[x] <= fun[x] + 1 * w[x] /\ fun[x] <= gun[x] + (-1) * w[x]
    OBVIOUS
  <2>1. gun[x] = fun[x] + w[x] /\ fun[x] \in Int /\ w[x] \in Int
    OBVIOUS
  <2> QED BY <2>1
<1>3. 1 \in Int /\ -1 \in Int
  OBVIOUS
<1>4. SumFunctionOnSet(gun, S) <= SumFunctionOnSet(fun, S) + 1 * SumFunctionOnSet(w, S)
  BY <1>2, <1>3, SumGrowth
<1>5. SumFunctionOnSet(fun, S) <= SumFunctionOnSet(gun, S) + (-1) * SumFunctionOnSet(w, S)
  BY <1>2, <1>3, SumGrowth
<1> QED
  BY <1>1, <1>4, <1>5

\* The sum with one element more.
LEMMA SumAdd ==
    ASSUME NEW D, NEW fun \in [D -> Int], NEW E, NEW gun \in [E -> Int],
           NEW S \in SUBSET D, IsFiniteSet(S), NEW x \in E, x \notin S,
           S \in SUBSET E, \A y \in S : gun[y] = fun[y]
    PROVE  SumFunctionOnSet(gun, S \cup {x}) = SumFunctionOnSet(fun, S) + gun[x]
<1> DEFINE R == S \cup {x}
<1>1. R \in SUBSET E /\ IsFiniteSet(R) /\ x \in R /\ R \ {x} = S
  BY FS_AddElement
<1> HIDE DEF R
<1>2. SumFunctionOnSet(gun, R) = gun[x] + SumFunctionOnSet(gun, R \ {x})
  BY <1>1, SumRemove
<1>3. SumFunctionOnSet(gun, S) = SumFunctionOnSet(fun, S)
  BY SumPart
<1>4. SumFunctionOnSet(gun, R) = gun[x] + SumFunctionOnSet(gun, S)
  BY <1>1, <1>2, Zenon
<1>5. SumFunctionOnSet(fun, S) \in Int /\ gun[x] \in Int
  BY SumInt
<1>6. SumFunctionOnSet(gun, R) = SumFunctionOnSet(fun, S) + gun[x]
  BY <1>3, <1>4, <1>5
<1> QED
  BY <1>6 DEF R

-----------------------------------------------------------------------------
(* Functions defined by recursion on a number                              *)

\* f starts with x and goes from value to value by the functions g.
Recursion(f, n, x, g) ==
    f = [i \in 0..n |-> IF i = 0 THEN x ELSE g[i][f[i - 1]]]

\* There is such an f.
LEMMA RecursionExists ==
    ASSUME NEW n \in Nat, NEW S, NEW x \in S, NEW g \in [1..n -> [S -> S]]
    PROVE  \E f \in [0..n -> S] : Recursion(f, n, x, g)
<1> DEFINE UpTo(f, k) ==
             \A i \in 0..n : i <= k => f[i] = IF i = 0 THEN x ELSE g[i][f[i - 1]]
           T == {k \in Nat : \E f \in [0..n -> S] : UpTo(f, k)}
<1>1. 0 \in T
  <2> DEFINE f == [i \in 0..n |-> x]
  <2>1. f \in [0..n -> S] /\ UpTo(f, 0)
    OBVIOUS
  <2> QED
    BY <2>1
<1>2. ASSUME NEW k \in T PROVE k + 1 \in T
  <2>1. k \in Nat /\ k + 1 \in Nat
    OBVIOUS
  <2>2. PICK f \in [0..n -> S] : UpTo(f, k)
    OBVIOUS
  <2> DEFINE h == [i \in 0..n |-> IF i = 0 THEN x ELSE g[i][f[i - 1]]]
  <2>3. \A i \in 0..n : i # 0 => i \in 1..n /\ i - 1 \in 0..n
    OBVIOUS
  <2>4. h \in [0..n -> S]
    BY <2>3
  <2>5. \A i \in 0..n : i <= k => h[i] = f[i]
    BY <2>2
  <2>6. ASSUME NEW i \in 0..n, i <= k + 1, i # 0
        PROVE  h[i] = g[i][h[i - 1]]
    BY <2>1, <2>3, <2>5, <2>6
  <2>7. UpTo(h, k + 1)
    BY <2>6
  <2> HIDE DEF h, UpTo
  <2> QED
    BY <2>1, <2>4, <2>7
<1>3. T = Nat
  <2> HIDE DEF T
  <2>1. T \in SUBSET Nat
    BY DEF T
  <2> QED
    BY <1>1, <1>2, <2>1, NatSetInduction
<1>4. PICK f \in [0..n -> S] : UpTo(f, n)
  BY <1>3
<1>5. \A i \in 0..n : f[i] = IF i = 0 THEN x ELSE g[i][f[i - 1]]
  BY <1>4
<1> QED
  BY <1>4, <1>5 DEF Recursion

\* What holds of 0 and is passed on up to n holds up to n.
LEMMA BoundedInduction ==
    ASSUME NEW n \in Nat, NEW T, 0 \in T, \A i \in 1..n : i - 1 \in T => i \in T
    PROVE  \A i \in 0..n : i \in T
<1> DEFINE U == {i \in Nat : i \in 0..n => i \in T}
<1>1. 0 \in U
  OBVIOUS
<1>2. ASSUME NEW k \in U PROVE k + 1 \in U
  <2>1. k \in Nat /\ k + 1 \in Nat
    OBVIOUS
  <2>2. ASSUME k + 1 \in 0..n PROVE k + 1 \in T
    <3>1. k \in 0..n /\ k + 1 \in 1..n /\ (k + 1) - 1 = k
      BY <2>1, <2>2
    <3> QED
      BY <3>1
  <2> QED
    BY <2>1, <2>2
<1>3. U = Nat
  <2> HIDE DEF U
  <2>1. U \in SUBSET Nat
    BY DEF U
  <2> QED
    BY <1>1, <1>2, <2>1, NatSetInduction
<1> QED
  BY <1>3

\* What holds of the first value and is passed on holds of all.
LEMMA RecursionStays ==
    ASSUME NEW n \in Nat, NEW S, NEW f, f[0] \in S,
           \A i \in 1..n : f[i - 1] \in S => f[i] \in S
    PROVE  \A i \in 0..n : f[i] \in S
<1> DEFINE T == {i \in 0..n : f[i] \in S}
<1>1. 0 \in T /\ \A i \in 1..n : i \in 0..n
  OBVIOUS
<1>2. \A i \in 1..n : i - 1 \in T => i \in T
  BY <1>1
<1>3. \A i \in 0..n : i \in T
  <2> HIDE DEF T
  <2> QED BY <1>1, <1>2, BoundedInduction
<1> QED
  BY <1>3

=============================================================================
