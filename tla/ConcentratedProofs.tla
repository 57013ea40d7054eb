------------------------- MODULE ConcentratedProofs -------------------------
(***************************************************************************)
(* The concentrated liquidity pool, for every price table, every grid of   *)
(* ticks, every set of users and every amount: the tick the pool stores is *)
(* the tick of its price, the bitmap marks exactly the ticks that live     *)
(* positions end at, the liquidity the swaps trade against is the sum of   *)
(* the positions around the current tick, the reserves and protocol fees   *)
(* it books are covered by its tokens, and the input quoted for an output  *)
(* buys that output.                                                       *)
(*                                                                         *)
(* In order: the search through the tick bitmap finds the next live tick   *)
(* (TickBitmap); a round of a swap keeps price, tick and liquidity         *)
(* together, crossing ticks as it goes (SwapLoop); a swap that pays what   *)
(* was quoted goes through the rounds of the quote; each action keeps the  *)
(* curve (CurveInv), the books of the rewards (RewardsInv) and the books   *)
(* of the tokens (BookInv); the theorems are at the end.                   *)
(***************************************************************************)
EXTENDS Concentrated, RewardsProofs

-----------------------------------------------------------------------------
(* Division of integers                                                    *)

\* Division with a remainder, of any integer.
LEMMA IntDiv ==
    ASSUME NEW x \in Int, NEW d \in Nat \ {0}
    PROVE  /\ x \div d \in Int /\ x % d \in 0..(d - 1) /\ x % d \in Nat
           /\ x = d * (x \div d) + (x % d)
OBVIOUS

\* There is one such quotient and one such remainder.
LEMMA DivUnique ==
    ASSUME NEW d \in Nat \ {0}, NEW q \in Int, NEW r \in 0..(d - 1)
    PROVE  /\ (d * q + r) \div d = q
           /\ (d * q + r) % d = r
<1> DEFINE x == d * q + r
           p == x \div d
           s == x % d
<1>0. x \in Int
  OBVIOUS
<1>1. x \in Int /\ p \in Int /\ s \in 0..(d - 1) /\ x = d * p + s
  <2> HIDE DEF x
  <2> QED BY <1>0, IntDiv
<1>2. d * p + s = d * q + r
  BY <1>1
<1>3. d * (p - q) = r - s
  BY <1>1, <1>2
<1> HIDE DEF x, p, s
<1>4. CASE p - q >= 1
  <2>1. d * (p - q) >= d
    BY <1>1, <1>4
  <2> QED
    BY <1>1, <1>3, <2>1
<1>5. CASE p - q <= -1
  <2>1. d * (p - q) <= -d
    BY <1>1, <1>5
  <2> QED
    BY <1>1, <1>3, <2>1
<1>6. p = q /\ s = r
  BY <1>1, <1>2, <1>4, <1>5
<1> QED
  BY <1>6 DEF p, s, x

LEMMA DivMonotone ==
    ASSUME NEW x \in Int, NEW y \in Int, x <= y, NEW d \in Nat \ {0}
    PROVE  x \div d <= y \div d
<1> DEFINE p == x \div d
           q == y \div d
<1>1. /\ p \in Int /\ q \in Int /\ x % d \in 0..(d - 1) /\ y % d \in 0..(d - 1)
      /\ x = d * p + (x % d) /\ y = d * q + (y % d)
  BY IntDiv
<1> HIDE DEF p, q
<1>2. ASSUME p - q >= 1 PROVE FALSE
  <2>1. d * (p - q) >= d
    BY <1>1, <1>2
  <2>2. d * (p - q) = d * p - d * q
    BY <1>1
  <2>3. d * p - d * q <= d - 1
    BY <1>1
  <2> QED
    BY <1>1, <2>1, <2>2, <2>3
<1>3. p <= q
  BY <1>1, <1>2
<1> QED
  BY <1>3 DEF p, q

-----------------------------------------------------------------------------
(* Extremes                                                                *)

\* y is not further in the direction of the search than x.
Within(y, x, lte) == IF lte THEN y <= x ELSE x <= y
Before(y, x, lte) == IF lte THEN y < x ELSE x < y

\* The extreme of a set is in it, and nothing in the set is beyond it.
LEMMA ExtremeMember ==
    ASSUME NEW S, NEW lte \in BOOLEAN, NEW x
    PROVE  x \in Extreme(S, lte) <=> x \in S /\ \A y \in S : Within(y, x, lte)
<1>1. CASE lte = TRUE
  BY <1>1 DEF Extreme, Highest, Within
<1>2. CASE lte = FALSE
  BY <1>2 DEF Extreme, Lowest, Within
<1> QED
  BY <1>1, <1>2

\* Such a member is the extreme, the only one.
LEMMA ExtremeOnly ==
    ASSUME NEW S \in SUBSET Int, NEW lte \in BOOLEAN, NEW x \in S,
           \A y \in S : Within(y, x, lte)
    PROVE  Extreme(S, lte) = {x}
<1>1. x \in Extreme(S, lte)
  BY ExtremeMember
<1>2. ASSUME NEW y \in Extreme(S, lte) PROVE y = x
  <2>1. y \in S /\ Within(x, y, lte) /\ Within(y, x, lte)
    BY <1>2, ExtremeMember
  <2>2. x \in Int /\ y \in Int
    BY <2>1
  <2> QED
    BY <2>1, <2>2 DEF Within
<1> QED
  BY <1>1, <1>2

\* A bounded set that is not empty has one.
LEMMA ExtremeExists ==
    ASSUME NEW a \in Int, NEW b \in Int, NEW S \in SUBSET (a..b), S # {},
           NEW lte \in BOOLEAN
    PROVE  \E x \in S : \A y \in S : Within(y, x, lte)
<1>0. S \in SUBSET Int
  OBVIOUS
<1>1. \E x \in S : \A y \in S : x <= y
  <2> DEFINE T == {n \in Nat : a + n \in S}
  <2>1. \A x \in S : x - a \in T
    OBVIOUS
  <2>2. T \in SUBSET Nat /\ T # {}
    BY <2>1
  <2>3. PICK n \in T : \A k \in T : n <= k
    <3> HIDE DEF T
    <3> QED BY <2>2, LeastElement
  <2>4. a + n \in S
    OBVIOUS
  <2>5. ASSUME NEW y \in S PROVE a + n <= y
    BY <2>1, <2>3, <2>5, <1>0
  <2> QED
    BY <2>4, <2>5
<1>2. \E x \in S : \A y \in S : y <= x
  <2> DEFINE T == {n \in Nat : b - n \in S}
  <2>1. \A x \in S : b - x \in T
    OBVIOUS
  <2>2. T \in SUBSET Nat /\ T # {}
    BY <2>1
  <2>3. PICK n \in T : \A k \in T : n <= k
    <3> HIDE DEF T
    <3> QED BY <2>2, LeastElement
  <2>4. b - n \in S
    OBVIOUS
  <2>5. ASSUME NEW y \in S PROVE y <= b - n
    <3>1. n <= b - y /\ n \in Nat /\ y \in Int
      BY <2>1, <2>3, <1>0
    <3> HIDE DEF T
    <3> QED BY <3>1
  <2> QED
    BY <2>4, <2>5
<1>3. \E x \in S : \A y \in S : Within(y, x, lte)
  BY <1>1, <1>2 DEF Within
<1> QED
  BY <1>3

LEMMA ExtremeOfNothing == \A lte \in BOOLEAN : Extreme({}, lte) = {}
BY DEF Extreme, Highest, Lowest

\* The extreme of a set is the extreme of its extreme block of n.
LEMMA ExtremeByBlocks ==
    ASSUME NEW S \in SUBSET Int, NEW n \in Nat \ {0}, NEW lte \in BOOLEAN,
           NEW b \in Int, \A x \in S : Within(x \div n, b, lte),
           NEW y \in S, y \div n = b,
           \A x \in S : x \div n = b => Within(x, y, lte)
    PROVE  \A x \in S : Within(x, y, lte)
<1>1. ASSUME NEW x \in S PROVE Within(x, y, lte)
  <2>1. x \in Int /\ y \in Int /\ x \div n \in Int
    BY IntDiv
  <2>2. CASE x \div n = b
    BY <2>2
  <2>3. CASE x \div n # b
    <3>1. Before(x \div n, y \div n, lte)
      BY <2>1, <2>3 DEF Within, Before
    <3>2. x <= y => x \div n <= y \div n
      BY <2>1, DivMonotone
    <3>3. y <= x => y \div n <= x \div n
      BY <2>1, DivMonotone
    <3> QED
      BY <2>1, <3>1, <3>2, <3>3 DEF Within, Before
  <2> QED
    BY <2>2, <2>3
<1> QED
  BY <1>1

-----------------------------------------------------------------------------
(* Addresses                                                               *)

LEMMA Constants ==
    /\ TickSpacing \in Nat \ {0} /\ TicksPerChunk \in Nat \ {0}
    /\ WordBits \in Nat \ {0} /\ GrowthModulus \in Nat \ {0}
    /\ MinTick \in Int /\ MaxTick \in Int /\ MinTick < 0 /\ MaxTick > 0
BY TickBitmapAssumption DEF TickBitmapAssumption

\* An address and its parts, for blocks of n.
LEMMA Parts ==
    ASSUME NEW n \in Nat \ {0}, NEW x \in Int
    PROVE  /\ x \div n \in Int /\ x % n \in 0..(n - 1)
           /\ x = (x \div n) * n + (x % n)
BY IntDiv

\* What is put together from a quotient and a remainder comes apart again.
LEMMA Whole ==
    ASSUME NEW n \in Nat \ {0}, NEW k \in Int, NEW s \in 0..(n - 1)
    PROVE  (k * n + s) \div n = k /\ (k * n + s) % n = s
<1>1. k * n + s = n * k + s
  OBVIOUS
<1> QED
  BY <1>1, DivUnique

\* A quotient lies between zero and the number.
LEMMA TowardsZero ==
    ASSUME NEW x \in Int, NEW d \in Nat \ {0}
    PROVE  /\ x >= 0 => x \div d \in 0..x
           /\ x <= 0 => x \div d \in x..0
<1> DEFINE q == x \div d
<1>1. q \in Int /\ x % d \in 0..(d - 1) /\ x = d * q + (x % d)
  BY IntDiv
<1> HIDE DEF q
<1>2. q <= -1 => d * q <= -d
  BY <1>1
<1>3. q >= 0 => d * q >= q
  BY <1>1
<1>4. q <= 0 => d * q <= q
  BY <1>1
<1>5. q >= 1 => d * q >= d
  BY <1>1
<1>6. ASSUME q < x, x <= 0 PROVE FALSE
  <2>1. q + 1 <= 0 /\ d * (q + 1) = d * q + d
    BY <1>1, <1>6
  <2>2. d * (q + 1) <= q + 1
    BY <1>1, <2>1
  <2> QED
    BY <1>1, <1>6, <2>1, <2>2
<1>7. x >= 0 => q \in 0..x
  BY <1>1, <1>2, <1>3
<1>8. x <= 0 => q \in x..0
  BY <1>1, <1>5, <1>6
<1> QED
  BY <1>7, <1>8 DEF q

\* A compressed tick is addressed when its chunk is.
LEMMA InCTicks ==
    ASSUME NEW c \in Int
    PROVE  c \in CTicks <=> ChunkPos(c) \in Chunks
<1> DEFINE n == TicksPerChunk
           lo == CompressTick(MinTick)
           hi == CompressTick(MaxTick)
<1>1. n \in Nat \ {0} /\ MinTick \in Int /\ MaxTick \in Int
  BY Constants
<1>2. lo \in Int /\ lo >= MinTick /\ hi \in Int /\ hi <= MaxTick
  BY Constants, TowardsZero DEF CompressTick
<1>3. ASSUME ChunkPos(c) \in Chunks
      PROVE  c \in (MinTick - TicksPerChunk)..(MaxTick + TicksPerChunk)
  <2> DEFINE k == ChunkPos(c)
             a == ChunkPos(lo)
             b == ChunkPos(hi)
  <2>1. /\ k \in Int /\ a \in Int /\ b \in Int
        /\ c % n \in 0..(n - 1) /\ c = k * n + (c % n)
        /\ lo % n \in 0..(n - 1) /\ lo = a * n + (lo % n)
        /\ hi % n \in 0..(n - 1) /\ hi = b * n + (hi % n)
    BY <1>1, <1>2, Parts DEF ChunkPos
  <2>2. a <= k /\ k <= b
    BY <1>3, <2>1 DEF Chunks
  <2> HIDE DEF k, a, b, n, lo, hi
  <2>3. a * n <= k * n /\ k * n <= b * n
    BY <1>1, <2>1, <2>2
  <2>4. a * n \in Int /\ k * n \in Int /\ b * n \in Int
    BY <1>1, <2>1
  <2>5. c <= hi + n /\ c >= lo - n
    BY <1>1, <1>2, <2>1, <2>3, <2>4
  <2>6. c <= MaxTick + n /\ c >= MinTick - n
    BY <1>1, <1>2, <2>5
  <2> QED
    BY <1>1, <2>6 DEF n
<1> QED
  BY <1>3 DEF CTicks

LEMMA TickAddressed ==
    ASSUME NEW t \in MinTick..MaxTick
    PROVE  CompressTick(t) \in CTicks /\ CompressTick(t) \in Int
<1>1. t \in Int /\ MinTick <= t /\ t <= MaxTick
  BY Constants
<1>2. /\ CompressTick(MinTick) <= CompressTick(t)
      /\ CompressTick(t) <= CompressTick(MaxTick)
      /\ CompressTick(t) \in Int /\ CompressTick(MinTick) \in Int
      /\ CompressTick(MaxTick) \in Int
  BY <1>1, Constants, DivMonotone, IntDiv DEF CompressTick
<1>3. ChunkPos(CompressTick(t)) \in Chunks
  <2>1. /\ ChunkPos(CompressTick(MinTick)) <= ChunkPos(CompressTick(t))
        /\ ChunkPos(CompressTick(t)) <= ChunkPos(CompressTick(MaxTick))
    BY <1>2, Constants, DivMonotone DEF ChunkPos
  <2>2. \A c \in Int : ChunkPos(c) \in Int
    BY Constants, IntDiv DEF ChunkPos
  <2> QED
    BY <1>2, <2>1, <2>2 DEF Chunks
<1> QED
  BY <1>2, <1>3, InCTicks

LEMMA CTicksBounded ==
    /\ MinTick - TicksPerChunk \in Int /\ MaxTick + TicksPerChunk \in Int
    /\ CTicks \in SUBSET ((MinTick - TicksPerChunk)..(MaxTick + TicksPerChunk))
    /\ CTicks \in SUBSET Int
BY Constants DEF CTicks

\* What a search returns is clamped into the bounds.
LEMMA TickClamped ==
    ASSUME NEW c \in Int
    PROVE  CompressedToTick(c) \in MinTick..MaxTick
BY Constants DEF CompressedToTick, ClampTick

-----------------------------------------------------------------------------
(* The index: each level marks exactly what is alive below it              *)

Bits == 0..(WordBits - 1)

Live(m) == {c \in CTicks : m.tick[c].gross > 0}
LiveChunks(m) == {ChunkPos(c) : c \in Live(m)}
LiveWords(m) == {WordPos(k) : k \in LiveChunks(m)}

Marked(m) ==
    /\ \A w \in Words : m.words[w] = {b \in Bits : w * WordBits + b \in LiveChunks(m)}
    /\ \A v \in L2Words : m.l2[v] = {b \in Bits : v * WordBits + b \in LiveWords(m)}

\* Live ticks, their chunks and their words are addressed.
LEMMA LiveFacts ==
    ASSUME NEW m
    PROVE  /\ Live(m) \in SUBSET CTicks /\ Live(m) \in SUBSET Int
           /\ LiveChunks(m) \in SUBSET Chunks /\ LiveChunks(m) \in SUBSET Int
           /\ LiveWords(m) \in SUBSET Words /\ LiveWords(m) \in SUBSET Int
<1>1. Live(m) \in SUBSET CTicks /\ Live(m) \in SUBSET Int
  BY CTicksBounded DEF Live
<1>2. \A c \in Live(m) : ChunkPos(c) \in Chunks /\ ChunkPos(c) \in Int
  BY <1>1, InCTicks, Parts, Constants DEF ChunkPos
<1>3. \A k \in LiveChunks(m) : k \in Chunks /\ k \in Int
  BY <1>2 DEF LiveChunks
<1>4. \A k \in LiveChunks(m) : WordPos(k) \in Words /\ WordPos(k) \in Int
  BY <1>3, Parts, Constants DEF WordPos, Words
<1> QED
  BY <1>1, <1>3, <1>4 DEF LiveWords

BitsOf(K, w) == {b \in Bits : w * WordBits + b \in K}
InBlock(K, w, from, lte) == {k \in K : k \div WordBits = w /\ Within(k % WordBits, from, lte)}

\* What is read outside the stored words agrees with this as well.
LEMMA WordRead ==
    ASSUME NEW m, Marked(m), NEW w \in Int
    PROVE  /\ Word(m, w) = BitsOf(LiveChunks(m), w)
           /\ L2Word(m, w) = BitsOf(LiveWords(m), w)
<1>1. ASSUME NEW b \in Bits, w * WordBits + b \in LiveChunks(m) PROVE w \in Words
  <2>1. WordPos(w * WordBits + b) = w
    BY Whole, Constants DEF WordPos, Bits
  <2> QED
    BY <1>1, <2>1, LiveFacts DEF Words
<1>2. ASSUME NEW b \in Bits, w * WordBits + b \in LiveWords(m) PROVE w \in L2Words
  <2>1. L2Pos(w * WordBits + b) = w
    BY Whole, Constants DEF L2Pos, Bits
  <2> QED
    BY <1>2, <2>1, LiveFacts DEF L2Words
<1>3. Word(m, w) = {b \in Bits : w * WordBits + b \in LiveChunks(m)}
  BY <1>1 DEF Word, Marked
<1>4. L2Word(m, w) = {b \in Bits : w * WordBits + b \in LiveWords(m)}
  BY <1>2 DEF L2Word, Marked
<1> QED
  BY <1>3, <1>4 DEF BitsOf

\* find_prev_set_bit and find_next_set_bit in the word w of a set K.
LEMMA BitSearch ==
    ASSUME NEW K \in SUBSET Int, NEW w \in Int, NEW from \in Bits, NEW lte \in BOOLEAN
    PROVE  /\ InBlock(K, w, from, lte) = {} => SetBit(BitsOf(K, w), from, lte) = {}
           /\ InBlock(K, w, from, lte) # {} =>
                \E k \in InBlock(K, w, from, lte) :
                    /\ \A x \in InBlock(K, w, from, lte) : Within(x, k, lte)
                    /\ SetBit(BitsOf(K, w), from, lte) = {k % WordBits}
                    /\ k = w * WordBits + (k % WordBits)
<1> DEFINE n == WordBits
           T == {k \in K : k \div n = w /\ Within(k % n, from, lte)}
           B == {b \in Bits : w * n + b \in K}
           C == {b \in B : IF lte THEN b <= from ELSE b >= from}
<1>0. n \in Nat \ {0} /\ Bits = 0..(n - 1)
  BY Constants DEF Bits
<1>1. SetBit(B, from, lte) = Extreme(C, lte)
  BY DEF SetBit
<1>2. C \in SUBSET Int
  BY <1>0
<1>3. ASSUME NEW b \in C PROVE w * n + b \in T /\ (w * n + b) % n = b
  <2>1. b \in 0..(n - 1) /\ w * n + b \in K /\ Within(b, from, lte)
    BY <1>0 DEF Within
  <2>2. (w * n + b) \div n = w /\ (w * n + b) % n = b
    BY <2>1, <1>0, Whole
  <2> QED
    BY <2>1, <2>2
<1>4. ASSUME NEW k \in T PROVE k = w * n + (k % n) /\ k % n \in C
  <2>1. k \in Int /\ k \div n = w /\ Within(k % n, from, lte)
    OBVIOUS
  <2>2. k % n \in 0..(n - 1) /\ k = w * n + (k % n)
    BY <2>1, <1>0, Parts
  <2> QED
    BY <2>1, <2>2, <1>0 DEF Within
<1>5. T = {} => SetBit(B, from, lte) = {}
  <2> SUFFICES ASSUME T = {} PROVE C = {}
    <3> HIDE DEF T, C, B
    <3> QED BY <1>1, ExtremeOfNothing
  <2> HIDE DEF C, T
  <2> QED BY <1>3
<1>6. ASSUME T # {}
      PROVE  \E k \in T : /\ \A x \in T : Within(x, k, lte)
                           /\ SetBit(B, from, lte) = {k % n}
                           /\ k = w * n + (k % n)
  <2>1. PICK x \in T : TRUE
    BY <1>6
  <2>2. C # {} /\ C \in SUBSET (0..(n - 1))
    BY <1>4, <2>1, <1>0
  <2>3. PICK b \in C : \A y \in C : Within(y, b, lte)
    <3> DEFINE top == n - 1
    <3>1. 0 \in Int /\ top \in Int /\ C \in SUBSET (0..top)
      BY <1>0, <2>2
    <3>2. C # {}
      BY <2>2
    <3> HIDE DEF B, C, T, top, n
    <3> QED BY <3>1, <3>2, ExtremeExists
  <2> DEFINE k == w * n + b
  <2>4. k \in T /\ k % n = b
    BY <1>3
  <2>5. ASSUME NEW y \in T PROVE Within(y, k, lte)
    <3>1. y = w * n + (y % n) /\ Within(y % n, b, lte) /\ y % n \in Int
      <4> HIDE DEF C, T
      <4> QED BY <1>4, <2>3, <1>2
    <3>2. b \in Int /\ w * n \in Int
      BY <1>2, <1>0
    <3> HIDE DEF C, T
    <3> QED
      BY <3>1, <3>2 DEF Within
  <2>8. Extreme(C, lte) = {b}
    <3> HIDE DEF C
    <3> QED BY <1>2, <2>3, ExtremeOnly
  <2> HIDE DEF k, C, T
  <2>6. k = w * n + (k % n)
    BY <2>4 DEF k
  <2>7. SetBit(B, from, lte) = {k % n}
    BY <1>1, <2>8, <2>4
  <2> QED
    BY <1>6, <2>4, <2>5, <2>6, <2>7
<1>7. InBlock(K, w, from, lte) = T /\ BitsOf(K, w) = B
  BY DEF InBlock, BitsOf
<1> HIDE DEF T, B
<1> QED
  BY <1>5, <1>6, <1>7

-----------------------------------------------------------------------------
(* The searches                                                            *)

\* The scan of a chunk finds the extreme live tick of the slots it is given.
LEMMA Scan ==
    ASSUME NEW m, NEW k \in Int, NEW slots \in SUBSET AllSlots, NEW lte \in BOOLEAN
    PROVE  ScanChunk(m, k, slots, lte)
             = Extreme({c \in Live(m) : ChunkPos(c) = k /\ Slot(c) \in slots}, lte)
<1> DEFINE A == {c \in {k * TicksPerChunk + s : s \in slots} \cap CTicks : m.tick[c].gross > 0}
           B == {c \in Live(m) : ChunkPos(c) = k /\ Slot(c) \in slots}
<1>1. \A s \in slots : /\ ChunkPos(k * TicksPerChunk + s) = k
                       /\ Slot(k * TicksPerChunk + s) = s
  BY Whole, Constants DEF ChunkPos, Slot, AllSlots
<1>2. \A c \in CTicks : c = ChunkPos(c) * TicksPerChunk + Slot(c)
  BY Parts, Constants, CTicksBounded DEF ChunkPos, Slot
<1>3. A \subseteq B
  BY <1>1 DEF Live
<1>4. B \subseteq A
  BY <1>2 DEF Live
<1>5. A = B
  BY <1>3, <1>4
<1> HIDE DEF A, B
<1>6. ScanChunk(m, k, slots, lte) = Extreme(A, lte)
  BY DEF ScanChunk, A
<1> QED
  BY <1>5, <1>6 DEF B

\* Some of the live ticks, if there are any, have an extreme.
LEMMA LiveExtreme ==
    ASSUME NEW m, NEW S \in SUBSET Live(m), S # {}, NEW lte \in BOOLEAN
    PROVE  \E x \in S : \A y \in S : Within(y, x, lte)
<1> DEFINE a == MinTick - TicksPerChunk
           b == MaxTick + TicksPerChunk
<1>1. a \in Int /\ b \in Int /\ S \in SUBSET (a..b)
  BY LiveFacts, CTicksBounded
<1> HIDE DEF a, b
<1> QED
  BY <1>1, ExtremeExists

\* A whole chunk that is alive.
LEMMA ScanAll ==
    ASSUME NEW m, NEW k \in LiveChunks(m), NEW lte \in BOOLEAN
    PROVE  \E c \in Live(m) :
              /\ ChunkPos(c) = k
              /\ \A d \in Live(m) : ChunkPos(d) = k => Within(d, c, lte)
              /\ ScanChunk(m, k, AllSlots, lte) = {c}
<1> DEFINE B == {c \in Live(m) : ChunkPos(c) = k /\ Slot(c) \in AllSlots}
<1>1. \A c \in Live(m) : Slot(c) \in AllSlots
  BY LiveFacts, Parts, Constants DEF Slot, AllSlots
<1>2. k \in Int
  BY LiveFacts
<1>3. ScanChunk(m, k, AllSlots, lte) = Extreme(B, lte)
  BY <1>2, Scan
<1>4. B # {} /\ B \in SUBSET Live(m)
  BY <1>1 DEF LiveChunks
<1> HIDE DEF B
<1>5. PICK c \in B : \A d \in B : Within(d, c, lte)
  BY <1>4, LiveExtreme
<1>6. B \in SUBSET Int
  BY <1>4, LiveFacts
<1>7. Extreme(B, lte) = {c}
  BY <1>5, <1>6, ExtremeOnly
<1> QED
  BY <1>1, <1>3, <1>5, <1>7 DEF B

\* The tick of the outermost marked chunk of a word, from a bit on.
InWord(m, w, from, lte) ==
    {c \in Live(m) : WordPos(ChunkPos(c)) = w /\ Within(BitPos(ChunkPos(c)), from, lte)}
FoundIn(m, w, from, lte) ==
    UNION {ScanChunk(m, w * WordBits + b, AllSlots, lte) :
             b \in SetBit(Word(m, w), from, lte)}

\* The same in a word of the chunk bitmap: first the bit, then the slots of its
\* chunk.
LEMMA InWordSearch ==
    ASSUME NEW m, Marked(m), NEW w \in Int, NEW from \in Bits, NEW lte \in BOOLEAN
    PROVE  /\ InWord(m, w, from, lte) = {} => FoundIn(m, w, from, lte) = {}
           /\ InWord(m, w, from, lte) # {} =>
                \E c \in InWord(m, w, from, lte) :
                    /\ \A d \in InWord(m, w, from, lte) : Within(d, c, lte)
                    /\ FoundIn(m, w, from, lte) = {c}
<1> DEFINE T == InWord(m, w, from, lte)
           bits == SetBit(BitsOf(LiveChunks(m), w), from, lte)
           found == FoundIn(m, w, from, lte)
           K == InBlock(LiveChunks(m), w, from, lte)
<1>1. Word(m, w) = BitsOf(LiveChunks(m), w)
  BY WordRead
<1>2. LiveChunks(m) \in SUBSET Int
  BY LiveFacts
<1>3. \A c \in T : ChunkPos(c) \in K
  BY DEF LiveChunks, WordPos, BitPos, InWord, InBlock
<1>4. \A k \in K : \E c \in T : ChunkPos(c) = k
  BY DEF LiveChunks, WordPos, BitPos, InWord, InBlock
<1>5. found = UNION {ScanChunk(m, w * WordBits + b, AllSlots, lte) : b \in bits}
  BY <1>1, Zenon DEF FoundIn
<1>6. ASSUME T = {} PROVE found = {}
  <2>1. K = {}
    <3> HIDE DEF K, T
    <3> QED BY <1>4, <1>6
  <2>2. bits = {}
    BY <1>2, <2>1, BitSearch
  <2> HIDE DEF bits, found
  <2> QED
    BY <1>5, <2>2
<1>7. ASSUME T # {} PROVE \E c \in T : (\A d \in T : Within(d, c, lte)) /\ found = {c}
  <2>1. PICK k \in K : /\ \A x \in K : Within(x, k, lte)
                       /\ bits = {k % WordBits}
                       /\ k = w * WordBits + (k % WordBits)
    <3>1. K # {}
      <4> HIDE DEF K, T
      <4> QED BY <1>3, <1>7
    <3> QED BY <1>2, <3>1, BitSearch
  <2>2. k \in LiveChunks(m) /\ k \in Int
    BY <1>2 DEF InBlock
  <2>3. PICK c \in Live(m) : /\ ChunkPos(c) = k
                             /\ \A d \in Live(m) : ChunkPos(d) = k => Within(d, c, lte)
                             /\ ScanChunk(m, k, AllSlots, lte) = {c}
    BY <2>2, ScanAll
  <2>4. c \in T
    BY <2>1, <2>3 DEF WordPos, BitPos, InBlock, InWord
  <2>5. found = {c}
    <3> HIDE DEF bits, found
    <3>1. found = ScanChunk(m, w * WordBits + (k % WordBits), AllSlots, lte)
      BY <1>5, <2>1
    <3>2. found = ScanChunk(m, k, AllSlots, lte)
      BY <3>1, <2>1, Zenon
    <3> QED
      BY <3>2, <2>3
  <2>6. \A d \in T : Within(ChunkPos(d), k, lte)
    <3> HIDE DEF K, T
    <3> QED BY <1>3, <2>1
  <2>7. \A d \in T : Within(d, c, lte)
    <3>1. T \in SUBSET Int
      BY LiveFacts DEF InWord
    <3>2. \A d \in T : d \div TicksPerChunk = k => Within(d, c, lte)
      BY <2>3 DEF ChunkPos, InWord
    <3>3. \A d \in T : Within(d \div TicksPerChunk, k, lte)
      BY <2>6 DEF ChunkPos
    <3>4. c \div TicksPerChunk = k
      BY <2>3 DEF ChunkPos
    <3> HIDE DEF T
    <3> QED
      BY <3>1, <3>2, <3>3, <3>4, <2>2, <2>4, ExtremeByBlocks, Constants, ZenonT(60)
  <2> HIDE DEF T, found
  <2> QED
    BY <2>4, <2>5, <2>7
<1> HIDE DEF T, found
<1> QED
  BY <1>6, <1>7 DEF T, found

OfWord(m, w) == {c \in Live(m) : WordPos(ChunkPos(c)) = w}

LEMMA BitPosType ==
    ASSUME NEW k \in Int
    PROVE  BitPos(k) \in Bits /\ k % WordBits \in Bits
BY Parts, Constants DEF BitPos, Bits

LEMMA AnyBit ==
    ASSUME NEW lte \in BOOLEAN
    PROVE  LastBit(lte) \in Bits /\ \A b \in Bits : Within(b, LastBit(lte), lte)
BY Constants DEF LastBit, Bits, Within

\* extreme_tick_in_bitmap_word returns the extreme live tick of a word.
LEMMA ExtremeTick ==
    ASSUME NEW m, Marked(m), NEW w \in Int, NEW lte \in BOOLEAN
    PROVE  /\ OfWord(m, w) = {} => ExtremeTickInWord(m, w, lte) = Sentinel(lte)
           /\ OfWord(m, w) # {} =>
                \E c \in OfWord(m, w) :
                    /\ \A d \in OfWord(m, w) : Within(d, c, lte)
                    /\ ExtremeTickInWord(m, w, lte) = CompressedToTick(c)
<1> DEFINE from == LastBit(lte)
           found == FoundIn(m, w, from, lte)
<1>1. from \in Bits /\ \A b \in Bits : Within(b, from, lte)
  BY AnyBit
<1>2. InWord(m, w, from, lte) = OfWord(m, w)
  <2>1. \A c \in Live(m) : ChunkPos(c) \in Int
    BY LiveFacts DEF LiveChunks
  <2>2. \A c \in Live(m) : Within(BitPos(ChunkPos(c)), from, lte)
    <3> HIDE DEF from
    <3> QED BY <1>1, <2>1, BitPosType
  <2> QED
    BY <2>2 DEF InWord, OfWord
<1>3. ExtremeTickInWord(m, w, lte)
        = IF found = {} THEN Sentinel(lte) ELSE CompressedToTick(CHOOSE c \in found : TRUE)
  BY Zenon DEF ExtremeTickInWord, FoundIn
<1> HIDE DEF from
<1>4. /\ OfWord(m, w) = {} => found = {}
      /\ OfWord(m, w) # {} =>
            \E c \in OfWord(m, w) :
                (\A d \in OfWord(m, w) : Within(d, c, lte)) /\ found = {c}
  <2> HIDE DEF found
  <2> QED BY <1>1, <1>2, InWordSearch DEF found
<1> HIDE DEF found
<1>5. \A c : found = {c} => found # {} /\ (CHOOSE x \in found : TRUE) = c
  OBVIOUS
<1> QED
  BY <1>3, <1>4, <1>5

\* The nearest word that is alive, in either direction: the level above has
\* two words, of which at most one lies in each direction.
Beyond(m, w, lte) == {x \in LiveWords(m) : Before(x, w, lte)}

\* The upper level has two words.
LEMMA L2Alive ==
    ASSUME NEW m, NEW x \in LiveWords(m)
    PROVE  x \in Int /\ L2Pos(x) \in {-1, 0} /\ x \div WordBits \in {-1, 0}
BY LiveFacts, SearchAssumption DEF SearchAssumption, L2Words, L2Pos

LEMMA Adjacent ==
    ASSUME NEW m, Marked(m), NEW w \in Int, L2Pos(w) \in {-1, 0}, NEW lte \in BOOLEAN
    PROVE  /\ Beyond(m, w, lte) = {} => FindAdjacentWord(m, w, lte) = {}
           /\ Beyond(m, w, lte) # {} =>
                \E x \in Beyond(m, w, lte) :
                    /\ \A y \in Beyond(m, w, lte) : Within(y, x, lte)
                    /\ FindAdjacentWord(m, w, lte) = {x}
<1> DEFINE n == WordBits
           W == LiveWords(m)
           v == L2Pos(w)
           bit == L2Bit(w)
           from == IF lte THEN bit - 1 ELSE bit + 1
           next == IF lte THEN v - 1 ELSE v + 1
           own == IF from \in Bits THEN SetBit(BitsOf(W, v), from, lte) ELSE {}
           other == SetBit(BitsOf(W, next), LastBit(lte), lte)
           Own == InBlock(W, v, from, lte)
           Other == InBlock(W, next, LastBit(lte), lte)
           S == Beyond(m, w, lte)
<1>1. /\ n \in Nat \ {0} /\ v \in Int /\ bit \in Bits /\ w = v * n + bit
      /\ Bits = 0..(n - 1) /\ next \in Int /\ w \div n = v /\ from \in Int
  <2>1. n \in Nat \ {0} /\ Bits = 0..(n - 1)
    BY Constants DEF Bits
  <2>2. v \in Int /\ bit \in Bits /\ w = v * n + bit /\ w \div n = v
    BY <2>1, Parts DEF L2Pos, L2Bit
  <2> QED
    BY <2>1, <2>2, SMTT(40)
<1>2. W \in SUBSET Int
  BY LiveFacts
<1>3. FindAdjacentWord(m, w, lte)
        = IF own # {} THEN {v * n + b : b \in own} ELSE {next * n + b : b \in other}
  BY <1>1, WordRead, Zenon DEF FindAdjacentWord, Bits
<1>4. ASSUME NEW x \in W
      PROVE  /\ x \in Int /\ x \div n \in {-1, 0} /\ x % n \in Bits
             /\ x = (x \div n) * n + (x % n)
  BY <1>1, <1>2, L2Alive, Parts, BitPosType
<1>5. ASSUME NEW x \in W
      PROVE  /\ x \div n = v => (x \in S <=> Within(x % n, from, lte))
             /\ x \div n # v => (x \in S <=> x \div n = next)
  <2> DEFINE a == x \div n
             e == x % n
  <2>1. x \in Int /\ a \in {-1, 0} /\ e \in Bits /\ x = a * n + e
    BY <1>4
  <2>2. x \in S <=> Before(x, w, lte)
    BY DEF Beyond
  <2> HIDE DEF S, a, e, bit, v
  <2>3. a = v => a * n = v * n
    OBVIOUS
  <2>4. a = v => (Before(x, w, lte) <=> Within(e, from, lte))
    <3>1. v * n \in Int /\ e \in Int /\ bit \in Int
      BY <1>1, <2>1
    <3> QED
      BY <1>1, <2>1, <2>3, <3>1 DEF Before, Within
  <2>5. ASSUME a # v PROVE Before(x, w, lte) <=> a = next
    <3>0. v \in {-1, 0}
      BY DEF v
    <3>1. CASE a = 0 /\ v = -1
      BY <1>1, <2>1, <3>1 DEF Before
    <3>2. CASE a = -1 /\ v = 0
      BY <1>1, <2>1, <3>2 DEF Before
    <3> QED
      BY <2>1, <2>5, <3>0, <3>1, <3>2
  <2> QED
    BY <2>2, <2>4, <2>5 DEF a, e
<1>6. v # next
  BY <1>1
<1>7. /\ Own = {x \in W : x \div n = v /\ Within(x % n, from, lte)}
      /\ Other = {x \in W : x \div n = next}
  <2>1. \A x \in W : Within(x % n, LastBit(lte), lte)
    BY <1>4, AnyBit
  <2> HIDE DEF from, next, v
  <2> QED
    BY <2>1 DEF InBlock
<1>8. S = Own \cup Other
  <2>1. S \subseteq W
    BY DEF Beyond
  <2> HIDE DEF S, W, Own, Other, from, next, v
  <2> QED
    BY <2>1, <1>5, <1>6, <1>7
<1>9. /\ Own # {} => from \in Bits
      /\ Own = {} => own = {}
      /\ Own # {} => \E k \in Own : /\ \A x \in Own : Within(x, k, lte)
                                    /\ {v * n + b : b \in own} = {k}
  <2>1. ASSUME NEW x \in Own PROVE from \in Bits
    <3>1. x % n \in Bits /\ Within(x % n, from, lte)
      BY <1>7, <1>4
    <3>2. x % n \in Int /\ x % n >= 0 /\ x % n <= n - 1 /\ bit >= 0 /\ bit <= n - 1
          /\ bit \in Int
      BY <1>1, <3>1
    <3> HIDE DEF Own, W, v, bit, n
    <3>3. CASE lte = TRUE
      BY <1>1, <3>1, <3>2, <3>3 DEF Within
    <3>4. CASE lte = FALSE
      BY <1>1, <3>1, <3>2, <3>4 DEF Within
    <3> QED
      BY <3>3, <3>4
  <2>2. CASE from \notin Bits
    <3> HIDE DEF Own, from
    <3> QED BY <2>1, <2>2
  <2>3. CASE from \in Bits
    <3>1. own = SetBit(BitsOf(W, v), from, lte)
      BY <2>3
    <3> HIDE DEF own, from, v, W
    <3>2. Own = {} => own = {}
      BY <1>1, <1>2, <2>3, <3>1, BitSearch
    <3>3. Own # {} => \E k \in Own : /\ \A x \in Own : Within(x, k, lte)
                                    /\ own = {k % n} /\ k = v * n + (k % n)
      BY <1>1, <1>2, <2>3, <3>1, BitSearch
    <3> HIDE DEF Own
    <3> QED
      BY <2>3, <3>2, <3>3
  <2> QED
    BY <2>2, <2>3
<1>10. /\ Other = {} => other = {}
       /\ Other # {} => \E k \in Other : /\ \A x \in Other : Within(x, k, lte)
                                         /\ {next * n + b : b \in other} = {k}
  <2>1. LastBit(lte) \in Bits
    BY AnyBit
  <2> HIDE DEF next, W
  <2>2. Other = {} => other = {}
    BY <1>1, <1>2, <2>1, BitSearch
  <2>3. Other # {} => \E k \in Other : /\ \A x \in Other : Within(x, k, lte)
                                       /\ other = {k % n} /\ k = next * n + (k % n)
    BY <1>1, <1>2, <2>1, BitSearch, ZenonT(60)
  <2> HIDE DEF Other, other
  <2> QED
    BY <2>2, <2>3
<1>11. ASSUME NEW x \in Own, NEW y \in Other PROVE Within(y, x, lte)
  <2> DEFINE e == x % n
             f == y % n
  <2>1. x \in W /\ x \div n = v /\ y \in W /\ y \div n = next
    BY <1>7
  <2>2. x \in Int /\ e \in Bits /\ x = v * n + e /\ y \in Int /\ f \in Bits /\ y = next * n + f
    BY <2>1, <1>4
  <2>3. next \in {-1, 0} /\ v \in {-1, 0}
    BY <2>1, <1>4
  <2> HIDE DEF e, f, v, Own, Other, W
  <2>4. CASE v = 0
    BY <2>2, <2>3, <2>4, <1>1 DEF Within
  <2>5. CASE v = -1
    BY <2>2, <2>3, <2>5, <1>1 DEF Within
  <2> QED
    BY <2>3, <2>4, <2>5
<1> HIDE DEF Own, Other, own, other, S, W, from, next, v
<1>12. CASE Own # {}
  <2>1. PICK k \in Own : (\A x \in Own : Within(x, k, lte)) /\ {v * n + b : b \in own} = {k}
    BY <1>9, <1>12
  <2>2. own # {}
    BY <2>1
  <2>3. \A x \in S : Within(x, k, lte)
    BY <1>8, <1>11, <2>1
  <2> QED
    BY <1>3, <1>8, <2>1, <2>2, <2>3 DEF S
<1>13. CASE Own = {} /\ Other # {}
  <2>1. PICK k \in Other : /\ \A x \in Other : Within(x, k, lte)
                           /\ {next * n + b : b \in other} = {k}
    BY <1>10, <1>13
  <2>2. FindAdjacentWord(m, w, lte) = {k} /\ k \in S /\ \A x \in S : Within(x, k, lte)
    BY <1>3, <1>8, <1>9, <1>13, <2>1
  <2> QED
    BY <2>2 DEF S
<1>14. CASE Own = {} /\ Other = {}
  BY <1>3, <1>8, <1>9, <1>10, <1>14 DEF S
<1> QED
  BY <1>12, <1>13, <1>14

-----------------------------------------------------------------------------
(* The next tick with liquidity                                            *)

Usable(c) == MinTick < c * TickSpacing /\ c * TickSpacing < MaxTick

Ahead(m, t, lte) ==
    {c \in Live(m) : IF lte THEN c * TickSpacing <= t ELSE c * TickSpacing > t}

\* A tick strictly between the bounds is not clamped and never means none.
LEMMA UsableTick ==
    ASSUME NEW c \in Int, Usable(c)
    PROVE  /\ CompressedToTick(c) = c * TickSpacing
           /\ \A lte \in BOOLEAN : c * TickSpacing # Sentinel(lte)
           /\ CompressTick(c * TickSpacing) = c
           /\ c * TickSpacing \in MinTick..MaxTick
<1>1. c * TickSpacing \in Int
  BY Constants
<1>2. CompressTick(c * TickSpacing) = c
  <2>1. (c * TickSpacing + 0) \div TickSpacing = c
    BY Whole, Constants
  <2>2. c * TickSpacing + 0 = c * TickSpacing
    BY <1>1
  <2> QED
    BY <2>1, <2>2 DEF CompressTick
<1>3. CompressedToTick(c) = c * TickSpacing
  BY <1>1, Constants DEF CompressedToTick, ClampTick, Usable
<1>4. \A lte \in BOOLEAN : c * TickSpacing # Sentinel(lte)
  BY <1>1, Constants DEF Sentinel, Usable
<1> QED
  BY <1>1, <1>2, <1>3, <1>4, Constants DEF Usable

\* A multiple of the spacing is at or below a tick when its quotient is.
LEMMA TickOrder ==
    ASSUME NEW c \in Int, NEW t \in Int
    PROVE  /\ c * TickSpacing <= t <=> c <= CompressTick(t)
           /\ c * TickSpacing > t <=> CompressTick(t) + 1 <= c
           /\ CompressTick(t) \in Int
<1> DEFINE n == TickSpacing
           q == CompressTick(t)
<1>1. n \in Nat \ {0} /\ q \in Int /\ t % n \in 0..(n - 1) /\ t = q * n + (t % n)
  BY Constants, Parts DEF CompressTick
<1>2. c * n \in Int /\ q * n \in Int
  BY <1>1
<1> HIDE DEF n, q
<1>3. ASSUME c <= q PROVE c * n <= t
  <2>1. c * n <= q * n
    BY <1>1, <1>3
  <2> QED
    BY <1>1, <1>2, <2>1
<1>4. ASSUME q + 1 <= c PROVE c * n > t
  <2>1. (q + 1) * n <= c * n /\ (q + 1) * n = q * n + n
    BY <1>1, <1>4
  <2> QED
    BY <1>1, <1>2, <2>1
<1>5. c <= q \/ q + 1 <= c
  BY <1>1
<1>6. ~(c * n <= t /\ c * n > t)
  BY <1>2
<1> QED
  BY <1>1, <1>3, <1>4, <1>5, <1>6 DEF n, q

LEMMA WordMonotone ==
    ASSUME NEW x \in Int, NEW y \in Int, x <= y
    PROVE  /\ ChunkPos(x) <= ChunkPos(y) /\ ChunkPos(x) \in Int /\ ChunkPos(y) \in Int
           /\ WordPos(ChunkPos(x)) <= WordPos(ChunkPos(y))
           /\ WordPos(ChunkPos(x)) \in Int /\ WordPos(ChunkPos(y)) \in Int
BY DivMonotone, IntDiv, Constants DEF ChunkPos, WordPos

LEMMA AddressedWord ==
    ASSUME NEW c \in CTicks
    PROVE  L2Pos(WordPos(ChunkPos(c))) \in {-1, 0}
BY InCTicks, CTicksBounded, SearchAssumption DEF SearchAssumption, L2Words, Words

\* The three parts of find_initialized_tick_in_word.
From(t, lte) == IF lte THEN CompressTick(t) ELSE CompressTick(t) + 1
Toward(m, from, lte) == {c \in Live(m) : Within(c, from, lte)}
SlotsFrom(from, lte) == IF lte THEN 0..Slot(from) ELSE Slot(from)..(TicksPerChunk - 1)
BitFrom(from, lte) == IF lte THEN BitPos(ChunkPos(from)) - 1 ELSE BitPos(ChunkPos(from)) + 1

ChunkFound(m, from, lte) == ScanChunk(m, ChunkPos(from), SlotsFrom(from, lte), lte)
WordFound(m, from, lte) ==
    IF BitFrom(from, lte) \in Bits
    THEN FoundIn(m, WordPos(ChunkPos(from)), BitFrom(from, lte), lte) ELSE {}
TicksFound(m, from, lte) ==
    {ExtremeTickInWord(m, w, lte) : w \in FindAdjacentWord(m, WordPos(ChunkPos(from)), lte)}
        \ {Sentinel(lte)}
EndOfWord(from, lte) ==
    IF lte THEN WordPos(ChunkPos(from)) * WordBits * TicksPerChunk
    ELSE (WordPos(ChunkPos(from)) * WordBits + WordBits) * TicksPerChunk - 1

\* The search, part by part: own chunk, own word, adjacent word.
LEMMA SearchParts ==
    ASSUME NEW m, NEW t, NEW lte
    PROVE  FindInitializedTick(m, t, lte)
             = IF ChunkFound(m, From(t, lte), lte) # {}
               THEN Found(CHOOSE c \in ChunkFound(m, From(t, lte), lte) : TRUE)
               ELSE IF WordFound(m, From(t, lte), lte) # {}
               THEN Found(CHOOSE c \in WordFound(m, From(t, lte), lte) : TRUE)
               ELSE IF TicksFound(m, From(t, lte), lte) # {}
               THEN [tick |-> CHOOSE x \in TicksFound(m, From(t, lte), lte) : TRUE, init |-> TRUE]
               ELSE [tick |-> CompressedToTick(EndOfWord(From(t, lte), lte)), init |-> FALSE]
<1> DEFINE from == From(t, lte)
           word == WordPos(ChunkPos(from))
           bit == BitFrom(from, lte)
           bits == IF bit \in 0..(WordBits - 1) THEN SetBit(Word(m, word), bit, lte) ELSE {}
           inWord == UNION {ScanChunk(m, word * WordBits + b, AllSlots, lte) : b \in bits}
<1>1. inWord = WordFound(m, from, lte)
  <2> HIDE DEF from, word, bit
  <2>1. CASE bit \in 0..(WordBits - 1)
    BY <2>1, Zenon DEF WordFound, FoundIn, Bits, word, bit
  <2>2. CASE bit \notin 0..(WordBits - 1)
    <3>1. bits = {}
      BY <2>2
    <3> HIDE DEF bits
    <3>2. inWord = {}
      BY <3>1
    <3>3. WordFound(m, from, lte) = {}
      BY <2>2, Zenon DEF WordFound, Bits, bit
    <3> QED
      BY <3>2, <3>3
  <2> QED
    BY <2>1, <2>2
<1>2. FindInitializedTick(m, t, lte)
        = IF ChunkFound(m, from, lte) # {}
          THEN Found(CHOOSE c \in ChunkFound(m, from, lte) : TRUE)
          ELSE IF inWord # {} THEN Found(CHOOSE c \in inWord : TRUE)
          ELSE IF TicksFound(m, from, lte) # {}
          THEN [tick |-> CHOOSE x \in TicksFound(m, from, lte) : TRUE, init |-> TRUE]
          ELSE [tick |-> CompressedToTick(EndOfWord(from, lte)), init |-> FALSE]
  BY Zenon DEF FindInitializedTick, From, ChunkFound, SlotsFrom, BitFrom, TicksFound, EndOfWord
<1> HIDE DEF inWord
<1> QED
  BY <1>1, <1>2, Zenon

\* First the rest of the chunk.
InChunk(m, from, lte) == {c \in Toward(m, from, lte) : ChunkPos(c) = ChunkPos(from)}

\* The first part finds the extreme live tick of the own chunk, ahead of the
\* start.
LEMMA ChunkSearch ==
    ASSUME NEW m, NEW from \in Int, NEW lte \in BOOLEAN
    PROVE  /\ InChunk(m, from, lte) = {} => ChunkFound(m, from, lte) = {}
           /\ InChunk(m, from, lte) # {} =>
                \E c \in Toward(m, from, lte) :
                    /\ \A d \in Toward(m, from, lte) : Within(d, c, lte)
                    /\ ChunkFound(m, from, lte) = {c}
<1> DEFINE k == ChunkPos(from)
           A == Toward(m, from, lte)
           T == {c \in A : ChunkPos(c) = k}
           slots == SlotsFrom(from, lte)
           n == TicksPerChunk
<1>1. /\ n \in Nat \ {0} /\ k \in Int /\ Slot(from) \in 0..(n - 1)
      /\ from = k * n + Slot(from) /\ from \div n = k
  BY Constants, Parts DEF ChunkPos, Slot
<1>2. slots \in SUBSET AllSlots
  BY <1>1 DEF SlotsFrom, AllSlots
<1>3. A \in SUBSET Int /\ A \in SUBSET Live(m)
  BY LiveFacts DEF Toward
<1>4. ASSUME NEW c \in Live(m), ChunkPos(c) = k
      PROVE  Within(c, from, lte) <=> Slot(c) \in slots
  <2>1. c \in Int /\ Slot(c) \in 0..(n - 1) /\ c = k * n + Slot(c)
    BY <1>4, LiveFacts, Constants, Parts DEF ChunkPos, Slot
  <2>2. k * n \in Int
    BY <1>1
  <2> HIDE DEF k, n
  <2> QED
    BY <1>1, <2>1, <2>2 DEF Within, SlotsFrom, n
<1>5. {c \in Live(m) : ChunkPos(c) = k /\ Slot(c) \in slots} = T
  <2> HIDE DEF k, slots
  <2> QED BY <1>4 DEF Toward
<1>6. ChunkFound(m, from, lte) = Extreme(T, lte)
  BY <1>1, <1>2, <1>5, Scan DEF ChunkFound
<1>7. T = {} => ChunkFound(m, from, lte) = {}
  <2> HIDE DEF T
  <2> QED BY <1>6, ExtremeOfNothing
<1>8. ASSUME T # {}
      PROVE  \E c \in A : /\ \A d \in A : Within(d, c, lte)
                          /\ ChunkFound(m, from, lte) = {c}
  <2>1. T \in SUBSET Live(m) /\ T \in SUBSET Int
    BY <1>3
  <2>2. PICK c \in T : \A d \in T : Within(d, c, lte)
    <3> HIDE DEF T
    <3> QED BY <1>8, <2>1, LiveExtreme
  <2>3. ChunkFound(m, from, lte) = {c}
    <3> HIDE DEF T
    <3> QED BY <1>6, <2>1, <2>2, ExtremeOnly
  <2>4. ASSUME NEW d \in A PROVE Within(d \div TicksPerChunk, k, lte)
    <3>1. d \in Int /\ Within(d, from, lte)
      BY <1>3 DEF Toward
    <3> QED
      BY <1>1, <3>1, DivMonotone DEF Within
  <2>5. \A d \in A : d \div TicksPerChunk = k => Within(d, c, lte)
    BY <2>2 DEF ChunkPos
  <2>6. c \div TicksPerChunk = k /\ c \in A
    BY <2>2 DEF ChunkPos
  <2>7. \A d \in A : Within(d, c, lte)
    <3>1. A \in SUBSET Int /\ k \in Int /\ TicksPerChunk \in Nat \ {0}
      BY <1>1, <1>3
    <3>2. \A d \in A : Within(d \div TicksPerChunk, k, lte)
      BY <2>4
    <3> HIDE DEF A, k, n
    <3> QED BY <3>1, <3>2, <2>5, <2>6, ExtremeByBlocks
  <2> QED
    BY <2>3, <2>6, <2>7
<1>9. T = InChunk(m, from, lte)
  BY DEF InChunk
<1> HIDE DEF T, A
<1> QED
  BY <1>7, <1>8, <1>9 DEF A

\* A tick lies in its chunk as its slot does.
LEMMA ChunkParts ==
    ASSUME NEW k \in Int
    PROVE  /\ BitPos(k) \in Int /\ WordPos(k) \in Int
           /\ k = WordPos(k) * WordBits + BitPos(k)
BY Parts, Constants DEF BitPos, WordPos

\* An order of addresses is one of their chunks and words.
LEMMA WithinWord ==
    ASSUME NEW x \in Int, NEW y \in Int, NEW lte \in BOOLEAN
    PROVE  /\ Within(x, y, lte) => Within(ChunkPos(x), ChunkPos(y), lte)
           /\ Within(x, y, lte) => Within(WordPos(ChunkPos(x)), WordPos(ChunkPos(y)), lte)
           /\ Before(ChunkPos(x), ChunkPos(y), lte) => Within(x, y, lte)
           /\ Before(WordPos(ChunkPos(x)), WordPos(ChunkPos(y)), lte) => Within(x, y, lte)
           /\ ChunkPos(x) \in Int /\ ChunkPos(y) \in Int
           /\ WordPos(ChunkPos(x)) \in Int /\ WordPos(ChunkPos(y)) \in Int
<1> DEFINE a == ChunkPos(x)
           b == ChunkPos(y)
           v == WordPos(a)
           w == WordPos(b)
<1>1. x <= y => a <= b /\ v <= w
  BY WordMonotone
<1>2. y <= x => b <= a /\ w <= v
  BY WordMonotone
<1>3. a \in Int /\ b \in Int /\ v \in Int /\ w \in Int
  <2>1. x <= y \/ y <= x
    OBVIOUS
  <2> QED
    BY <2>1, WordMonotone
<1> HIDE DEF a, b, v, w
<1>4. /\ Within(x, y, lte) => Within(a, b, lte) /\ Within(v, w, lte)
      /\ Before(a, b, lte) \/ Before(v, w, lte) => Within(x, y, lte)
  <2>1. CASE lte = TRUE
    BY <1>1, <1>2, <1>3, <2>1 DEF Within, Before
  <2>2. CASE lte = FALSE
    BY <1>1, <1>2, <1>3, <2>2 DEF Within, Before
  <2> QED
    BY <2>1, <2>2
<1> QED
  BY <1>3, <1>4 DEF a, b, v, w

\* Then the rest of the word.
InWordAhead(m, from, lte) ==
    {c \in Toward(m, from, lte) : WordPos(ChunkPos(c)) = WordPos(ChunkPos(from))}

\* The second finds it in the rest of the own word.
LEMMA WordSearch ==
    ASSUME NEW m, Marked(m), NEW from \in Int, NEW lte \in BOOLEAN,
           InChunk(m, from, lte) = {}
    PROVE  /\ InWordAhead(m, from, lte) = {} => WordFound(m, from, lte) = {}
           /\ InWordAhead(m, from, lte) # {} =>
                \E c \in Toward(m, from, lte) :
                    /\ \A d \in Toward(m, from, lte) : Within(d, c, lte)
                    /\ WordFound(m, from, lte) = {c}
<1> DEFINE A == Toward(m, from, lte)
           w == WordPos(ChunkPos(from))
           bit == BitFrom(from, lte)
           T == InWordAhead(m, from, lte)
<1>1. A \in SUBSET Int /\ A \in SUBSET Live(m) /\ T \in SUBSET A
  BY LiveFacts DEF Toward, InWordAhead
<1>2. w \in Int /\ bit \in Int /\ ChunkPos(from) \in Int
  <2>1. ChunkPos(from) \in Int
    BY Parts, Constants DEF ChunkPos
  <2>2. BitPos(ChunkPos(from)) \in Int /\ w \in Int
    BY <2>1, Parts, Constants DEF BitPos, WordPos
  <2> QED
    BY <2>1, <2>2 DEF BitFrom
<1>3. ASSUME NEW c \in Live(m), WordPos(ChunkPos(c)) = w
      PROVE  Within(BitPos(ChunkPos(c)), bit, lte) <=> c \in T
  <2> DEFINE k == ChunkPos(c)
             j == ChunkPos(from)
             p == BitPos(k)
             q == BitPos(j)
  <2>1. c \in Int /\ k \in Int /\ j \in Int
    BY LiveFacts, <1>2, Parts, Constants DEF ChunkPos
  <2>2. /\ p \in Int /\ k = w * WordBits + p
        /\ q \in Int /\ j = w * WordBits + q
    BY <2>1, <1>3, ChunkParts
  <2>3. w * WordBits \in Int
    BY <1>2, Constants
  <2>4. Within(c, from, lte) <=> c \in T
    BY <1>3 DEF Toward, InWordAhead
  <2>5. c \in T => k # j
    BY <1>1 DEF InChunk
  <2>6. /\ Within(c, from, lte) => Within(k, j, lte)
        /\ Before(k, j, lte) => Within(c, from, lte)
    BY <2>1, WithinWord
  <2>7. Within(p, bit, lte) <=> Before(p, q, lte)
    <3> HIDE DEF p, k
    <3>1. bit = IF lte THEN q - 1 ELSE q + 1
      BY DEF BitFrom
    <3> HIDE DEF q, bit, j
    <3> QED
      BY <2>2, <3>1 DEF Within, Before
  <2>8. Before(p, q, lte) <=> Before(k, j, lte)
    <3> HIDE DEF p, q, k, j, w
    <3> QED BY <2>2, <2>3 DEF Before
  <2>9. Within(k, j, lte) /\ k # j => Before(k, j, lte)
    <3> HIDE DEF k, j
    <3> QED BY <2>1 DEF Within, Before
  <2> HIDE DEF T, k, j, q, bit, A
  <2> QED
    BY <2>4, <2>5, <2>6, <2>7, <2>8, <2>9 DEF p, k
<1>4. InWord(m, w, bit, lte) = T
  <2>1. \A c \in T : c \in Live(m) /\ WordPos(ChunkPos(c)) = w
    BY <1>1 DEF InWordAhead
  <2> HIDE DEF T, w, bit
  <2> QED
    BY <1>3, <2>1 DEF InWord
<1>5. ASSUME NEW c \in T PROVE bit \in Bits
  <2> DEFINE p == BitPos(ChunkPos(c))
             q == BitPos(ChunkPos(from))
  <2>1. c \in Int /\ ChunkPos(c) \in Int
    BY <1>1, Parts, Constants DEF ChunkPos
  <2>2. p \in Bits /\ q \in Bits
    BY <1>2, <2>1, BitPosType
  <2>3. Within(p, bit, lte)
    <3> HIDE DEF T, w, bit
    <3> QED BY <1>4, <1>5 DEF InWord
  <2>4. bit = IF lte THEN q - 1 ELSE q + 1
    BY DEF BitFrom
  <2> HIDE DEF p, q, bit, T
  <2>5. CASE lte = TRUE
    BY <2>2, <2>3, <2>4, <2>5, Constants DEF Bits, Within
  <2>6. CASE lte = FALSE
    BY <2>2, <2>3, <2>4, <2>6, Constants DEF Bits, Within
  <2> QED
    BY <2>5, <2>6
<1>6. ASSUME T = {} PROVE WordFound(m, from, lte) = {}
  <2>1. CASE bit \in Bits
    <3>1. FoundIn(m, w, bit, lte) = {}
      <4> HIDE DEF T, w, bit
      <4> QED BY <1>2, <1>4, <1>6, <2>1, InWordSearch
    <3> QED
      BY <2>1, <3>1, Zenon DEF WordFound
  <2>2. CASE bit \notin Bits
    BY <2>2, Zenon DEF WordFound
  <2> QED
    BY <2>1, <2>2
<1>7. ASSUME T # {}
      PROVE  \E c \in A : (\A d \in A : Within(d, c, lte)) /\ WordFound(m, from, lte) = {c}
  <2>1. bit \in Bits
    <3> HIDE DEF T, bit
    <3> QED BY <1>5, <1>7
  <2>2. PICK c \in T : (\A d \in T : Within(d, c, lte)) /\ FoundIn(m, w, bit, lte) = {c}
    <3> HIDE DEF T, w, bit
    <3> QED BY <1>2, <1>4, <1>7, <2>1, InWordSearch
  <2>3. WordFound(m, from, lte) = FoundIn(m, w, bit, lte)
    BY <2>1, Zenon DEF WordFound
  <2>4. c \in A /\ c \in Int /\ WordPos(ChunkPos(c)) = w
    BY <1>1 DEF InWordAhead
  <2>5. ASSUME NEW d \in A PROVE Within(d, c, lte)
    <3> DEFINE x == WordPos(ChunkPos(d))
    <3>1. d \in Int /\ Within(d, from, lte)
      BY <1>1 DEF Toward
    <3>2. Within(x, w, lte) /\ x \in Int
      BY <3>1, WithinWord
    <3>3. CASE x = w
      <4>1. d \in T
        BY <3>3 DEF InWordAhead
      <4> QED
        BY <4>1, <2>2
    <3>4. CASE x # w
      <4>1. Before(x, w, lte)
        <5> HIDE DEF x, w
        <5> QED BY <1>2, <3>2, <3>4 DEF Within, Before
      <4> QED
        BY <4>1, <2>4, <3>1, WithinWord
    <3> QED
      BY <3>3, <3>4
  <2> HIDE DEF A, T, w, bit
  <2> QED
    BY <2>2, <2>3, <2>4, <2>5
<1> HIDE DEF A, T
<1> QED
  BY <1>6, <1>7 DEF A, T

\* Then the nearest of the other words.
LEMMA TicksSearch ==
    ASSUME NEW m, Marked(m), \A c \in Live(m) : Usable(c),
           NEW from \in CTicks, NEW lte \in BOOLEAN, InWordAhead(m, from, lte) = {}
    PROVE  /\ Toward(m, from, lte) = {} => TicksFound(m, from, lte) = {}
           /\ Toward(m, from, lte) # {} =>
                \E c \in Toward(m, from, lte) :
                    /\ \A d \in Toward(m, from, lte) : Within(d, c, lte)
                    /\ TicksFound(m, from, lte) = {CompressedToTick(c)}
<1> DEFINE A == Toward(m, from, lte)
           w == WordPos(ChunkPos(from))
           B == Beyond(m, w, lte)
           near == FindAdjacentWord(m, w, lte)
           found == TicksFound(m, from, lte)
<1>1. A \in SUBSET Int /\ A \in SUBSET Live(m) /\ from \in Int
  BY LiveFacts, CTicksBounded DEF Toward
<1>2. w \in Int /\ L2Pos(w) \in {-1, 0}
  BY <1>1, WithinWord, AddressedWord
<1>3. found = {ExtremeTickInWord(m, x, lte) : x \in near} \ {Sentinel(lte)}
  BY DEF TicksFound
<1>4. ASSUME NEW d \in A
      PROVE  /\ WordPos(ChunkPos(d)) \in B
             /\ d \in Int /\ WordPos(ChunkPos(d)) \in Int
  <2> DEFINE x == WordPos(ChunkPos(d))
  <2>1. d \in Int /\ d \in Live(m) /\ Within(d, from, lte)
    BY <1>1 DEF Toward
  <2>2. Within(x, w, lte) /\ x \in Int
    BY <1>1, <2>1, WithinWord
  <2>3. x # w
    BY DEF InWordAhead
  <2>4. Before(x, w, lte)
    <3> HIDE DEF x, w
    <3> QED BY <1>2, <2>2, <2>3 DEF Within, Before
  <2>5. x \in LiveWords(m)
    BY <2>1 DEF LiveWords, LiveChunks
  <2> HIDE DEF x, w
  <2> QED
    BY <2>1, <2>2, <2>4, <2>5 DEF x, Beyond
<1>5. ASSUME NEW d \in Live(m), WordPos(ChunkPos(d)) \in B PROVE d \in A
  <2>1. d \in Int
    BY LiveFacts
  <2>2. Before(WordPos(ChunkPos(d)), w, lte)
    BY <1>5 DEF Beyond
  <2> QED
    BY <1>1, <2>1, <2>2, WithinWord DEF Toward
<1>6. ASSUME A = {} PROVE found = {}
  <2>1. ASSUME NEW x \in B PROVE FALSE
    <3>1. PICK d \in Live(m) : x = WordPos(ChunkPos(d))
      BY DEF Beyond, LiveWords, LiveChunks
    <3> HIDE DEF A, B
    <3> QED
      BY <1>5, <1>6, <2>1, <3>1
  <2>2. near = {}
    <3> HIDE DEF w
    <3>1. Beyond(m, w, lte) = {}
      BY <2>1
    <3> QED BY <1>2, <3>1, Adjacent
  <2> HIDE DEF near, found
  <2> QED
    BY <1>3, <2>2
<1>7. ASSUME A # {}
      PROVE  \E c \in A : (\A d \in A : Within(d, c, lte)) /\ found = {CompressedToTick(c)}
  <2>1. B # {}
    <3> HIDE DEF A, B
    <3> QED BY <1>4, <1>7
  <2>2. PICK x \in B : (\A y \in B : Within(y, x, lte)) /\ near = {x}
    <3> HIDE DEF w
    <3> QED BY <1>2, <2>1, Adjacent
  <2>3. x \in LiveWords(m) /\ x \in Int
    BY LiveFacts DEF Beyond
  <2>4. OfWord(m, x) # {}
    BY <2>3 DEF OfWord, LiveWords, LiveChunks
  <2>5. PICK c \in OfWord(m, x) : /\ \A d \in OfWord(m, x) : Within(d, c, lte)
                                  /\ ExtremeTickInWord(m, x, lte) = CompressedToTick(c)
    BY <2>3, <2>4, ExtremeTick
  <2>6. c \in Live(m) /\ c \in Int /\ WordPos(ChunkPos(c)) = x
    BY LiveFacts DEF OfWord
  <2>7. c \in A
    <3> HIDE DEF A, B
    <3> QED BY <1>5, <2>2, <2>6
  <2>8. CompressedToTick(c) # Sentinel(lte)
    BY <2>6, UsableTick
  <2>9. found = {CompressedToTick(c)}
    <3> HIDE DEF near, found
    <3> QED BY <1>3, <2>2, <2>5, <2>8
  <2>10. ASSUME NEW d \in A PROVE Within(d, c, lte)
    <3> DEFINE y == WordPos(ChunkPos(d))
    <3>1. Within(y, x, lte) /\ d \in Int /\ y \in Int
      <4> HIDE DEF A, B
      <4> QED BY <1>4, <2>2
    <3>2. CASE y = x
      <4>1. d \in OfWord(m, x)
        BY <1>1, <3>2 DEF OfWord
      <4> QED
        BY <4>1, <2>5
    <3>3. CASE y # x
      <4>1. Before(y, x, lte)
        <5> HIDE DEF y
        <5> QED BY <2>3, <3>1, <3>3 DEF Within, Before
      <4> QED
        BY <4>1, <2>6, <3>1, WithinWord
    <3> QED
      BY <3>2, <3>3
  <2> HIDE DEF A, found
  <2> QED
    BY <2>7, <2>9, <2>10
<1> HIDE DEF A, found
<1> QED
  BY <1>6, <1>7 DEF A, found

\* The three parts together.
LEMMA FindTick ==
    ASSUME NEW m, Marked(m), \A c \in Live(m) : Usable(c),
           NEW t \in Int, NEW lte \in BOOLEAN, From(t, lte) \in CTicks
    PROVE  /\ Toward(m, From(t, lte), lte) = {} =>
                FindInitializedTick(m, t, lte)
                  = [tick |-> CompressedToTick(EndOfWord(From(t, lte), lte)), init |-> FALSE]
           /\ Toward(m, From(t, lte), lte) # {} =>
                \E c \in Toward(m, From(t, lte), lte) :
                    /\ \A d \in Toward(m, From(t, lte), lte) : Within(d, c, lte)
                    /\ FindInitializedTick(m, t, lte) = [tick |-> c * TickSpacing, init |-> TRUE]
<1> DEFINE from == From(t, lte)
           A == Toward(m, from, lte)
           F == FindInitializedTick(m, t, lte)
           G == [tick |-> CompressedToTick(EndOfWord(from, lte)), init |-> FALSE]
           f1 == ChunkFound(m, from, lte)
           f2 == WordFound(m, from, lte)
           f3 == TicksFound(m, from, lte)
           P(c) == c \in A /\ \A d \in A : Within(d, c, lte)
<1>1. from \in Int /\ from \in CTicks
  BY CTicksBounded
<1>2. F = IF f1 # {} THEN Found(CHOOSE c \in f1 : TRUE)
          ELSE IF f2 # {} THEN Found(CHOOSE c \in f2 : TRUE)
          ELSE IF f3 # {} THEN [tick |-> CHOOSE x \in f3 : TRUE, init |-> TRUE]
          ELSE G
  BY SearchParts, Zenon
<1>3. ASSUME NEW c \in A PROVE CompressedToTick(c) = c * TickSpacing
  BY LiveFacts, UsableTick DEF Toward
<1>4. \A S, x : S = {x} => S # {} /\ (CHOOSE y \in S : TRUE) = x
  OBVIOUS
<1>5. ASSUME NEW c \in A, Found(c) = F PROVE F = [tick |-> c * TickSpacing, init |-> TRUE]
  BY <1>3, <1>5, Zenon DEF Found
<1>6. CASE InChunk(m, from, lte) # {}
  <2>1. PICK c \in A : (\A d \in A : Within(d, c, lte)) /\ f1 = {c}
    <3> HIDE DEF from
    <3> QED BY <1>1, <1>6, ChunkSearch
  <2>2. F = Found(c)
    <3> HIDE DEF F, f1, f2, f3, G
    <3> QED BY <1>2, <1>4, <2>1, Zenon
  <2>3. F = [tick |-> c * TickSpacing, init |-> TRUE]
    <3> HIDE DEF F, A
    <3> QED BY <1>5, <2>2, Zenon
  <2> HIDE DEF A, F, from
  <2> QED
    BY <2>1, <2>3 DEF A, F, from
<1>7. CASE InChunk(m, from, lte) = {} /\ InWordAhead(m, from, lte) # {}
  <2>0. f1 = {}
    <3> HIDE DEF from
    <3> QED BY <1>1, <1>7, ChunkSearch
  <2>1. PICK c \in A : (\A d \in A : Within(d, c, lte)) /\ f2 = {c}
    <3> HIDE DEF from
    <3> QED BY <1>1, <1>7, WordSearch
  <2>2. F = Found(c)
    <3> HIDE DEF F, f1, f2, f3, G
    <3> QED BY <1>2, <1>4, <2>0, <2>1, Zenon
  <2>3. F = [tick |-> c * TickSpacing, init |-> TRUE]
    <3> HIDE DEF F, A
    <3> QED BY <1>5, <2>2, Zenon
  <2> HIDE DEF A, F, from
  <2> QED
    BY <2>1, <2>3 DEF A, F, from
<1>8. CASE InChunk(m, from, lte) = {} /\ InWordAhead(m, from, lte) = {}
  <2>0. f1 = {} /\ f2 = {}
    <3> HIDE DEF from
    <3> QED BY <1>1, <1>8, ChunkSearch, WordSearch
  <2>1. CASE A = {}
    <3>1. f3 = {}
      <4> HIDE DEF from
      <4> QED BY <1>1, <1>8, <2>1, TicksSearch
    <3>2. F = G
      <4> HIDE DEF F, f1, f2, f3, G
      <4> QED BY <1>2, <2>0, <3>1, Zenon
    <3> HIDE DEF A, F, from, G
    <3> QED
      BY <2>1, <3>2 DEF A, F, from, G
  <2>2. CASE A # {}
    <3>1. PICK c \in A : (\A d \in A : Within(d, c, lte)) /\ f3 = {CompressedToTick(c)}
      <4> HIDE DEF from
      <4> QED BY <1>1, <1>8, <2>2, TicksSearch
    <3>2. F = [tick |-> CompressedToTick(c), init |-> TRUE]
      <4>1. f3 # {} /\ (CHOOSE y \in f3 : TRUE) = CompressedToTick(c)
        <5> HIDE DEF f3
        <5> QED BY <1>4, <3>1, Zenon
      <4> HIDE DEF F, f1, f2, f3, G
      <4> QED BY <1>2, <2>0, <4>1, Zenon
    <3>3. F = [tick |-> c * TickSpacing, init |-> TRUE]
      <4> HIDE DEF F, A
      <4> QED BY <1>3, <3>2, Zenon
    <3> HIDE DEF A, F, from
    <3> QED
      BY <2>2, <3>1, <3>3 DEF A, F, from
  <2> QED
    BY <2>1, <2>2
<1> QED
  BY <1>6, <1>7, <1>8

-----------------------------------------------------------------------------
(* What a search finds is a tick                                           *)

\* Extremes are members.
LEMMA ExtremeInside ==
    ASSUME NEW S \in SUBSET Int, NEW lte \in BOOLEAN
    PROVE  Extreme(S, lte) \in SUBSET S
BY DEF Extreme, Highest, Lowest

LEMMA ScanInside ==
    ASSUME NEW m, NEW k, NEW slots, NEW lte \in BOOLEAN
    PROVE  ScanChunk(m, k, slots, lte) \in SUBSET CTicks
<1> DEFINE S == {c \in {k * TicksPerChunk + s : s \in slots} \cap CTicks : m.tick[c].gross > 0}
<1>1. S \in SUBSET CTicks /\ S \in SUBSET Int
  BY CTicksBounded
<1>2. ScanChunk(m, k, slots, lte) = Extreme(S, lte)
  BY DEF ScanChunk
<1> HIDE DEF S
<1> QED
  BY <1>1, <1>2, ExtremeInside

LEMMA ExtremeTickTyped ==
    ASSUME NEW m, NEW w, NEW lte \in BOOLEAN
    PROVE  ExtremeTickInWord(m, w, lte) \in MinTick..MaxTick
<1> DEFINE found == FoundIn(m, w, LastBit(lte), lte)
<1>1. ExtremeTickInWord(m, w, lte)
        = IF found = {} THEN Sentinel(lte) ELSE CompressedToTick(CHOOSE c \in found : TRUE)
  BY Zenon DEF ExtremeTickInWord, FoundIn
<1>2. found \in SUBSET CTicks
  BY ScanInside DEF FoundIn
<1>3. Sentinel(lte) \in MinTick..MaxTick
  BY Constants DEF Sentinel
<1>4. ASSUME found # {} PROVE CompressedToTick(CHOOSE c \in found : TRUE) \in MinTick..MaxTick
  <2>1. (CHOOSE c \in found : TRUE) \in Int
    <3> HIDE DEF found
    <3> QED BY <1>2, <1>4, CTicksBounded
  <2> HIDE DEF found
  <2> QED
    BY <2>1, TickClamped
<1> HIDE DEF found
<1> QED
  BY <1>1, <1>3, <1>4

\* Whatever the index holds, the search returns a tick within the bounds.
LEMMA FoundTyped ==
    ASSUME NEW m, NEW t \in Int, NEW lte \in BOOLEAN
    PROVE  /\ FindInitializedTick(m, t, lte).tick \in MinTick..MaxTick
           /\ FindInitializedTick(m, t, lte).init \in BOOLEAN
<1> DEFINE from == From(t, lte)
           F == FindInitializedTick(m, t, lte)
           end == CompressedToTick(EndOfWord(from, lte))
           f1 == ChunkFound(m, from, lte)
           f2 == WordFound(m, from, lte)
           f3 == TicksFound(m, from, lte)
<1>2. F = IF f1 # {} THEN Found(CHOOSE c \in f1 : TRUE)
          ELSE IF f2 # {} THEN Found(CHOOSE c \in f2 : TRUE)
          ELSE IF f3 # {} THEN [tick |-> CHOOSE x \in f3 : TRUE, init |-> TRUE]
          ELSE [tick |-> end, init |-> FALSE]
  BY SearchParts, Zenon
<1>3. f1 \in SUBSET CTicks /\ f2 \in SUBSET CTicks
  BY ScanInside DEF ChunkFound, WordFound, FoundIn
<1>4. f3 \in SUBSET (MinTick..MaxTick)
  BY ExtremeTickTyped DEF TicksFound
<1>5. from \in Int
  BY TickOrder DEF From
<1>6. end \in MinTick..MaxTick
  <2>1. ChunkPos(from) \in Int /\ WordPos(ChunkPos(from)) \in Int
    BY <1>5, WithinWord
  <2>2. EndOfWord(from, lte) \in Int
    BY <2>1, Constants DEF EndOfWord
  <2> QED
    BY <2>2, TickClamped
<1>7. ASSUME NEW f \in SUBSET CTicks, f # {}
      PROVE  /\ Found(CHOOSE c \in f : TRUE).tick \in MinTick..MaxTick
             /\ Found(CHOOSE c \in f : TRUE).init \in BOOLEAN
  <2>1. (CHOOSE c \in f : TRUE) \in Int
    BY <1>7, CTicksBounded
  <2> QED
    BY <2>1, TickClamped DEF Found
<1> HIDE DEF F, f1, f2, f3, end
<1>8. CASE f1 # {}
  <2>1. F = Found(CHOOSE c \in f1 : TRUE)
    BY <1>2, <1>8
  <2> QED
    BY <2>1, <1>3, <1>7, <1>8 DEF F
<1>9. CASE f1 = {} /\ f2 # {}
  <2>1. F = Found(CHOOSE c \in f2 : TRUE)
    BY <1>2, <1>9
  <2> QED
    BY <2>1, <1>3, <1>7, <1>9 DEF F
<1>10. CASE f1 = {} /\ f2 = {} /\ f3 # {}
  <2>1. F = [tick |-> CHOOSE x \in f3 : TRUE, init |-> TRUE]
    BY <1>2, <1>10
  <2>2. (CHOOSE x \in f3 : TRUE) \in MinTick..MaxTick
    BY <1>4, <1>10
  <2> QED
    BY <2>1, <2>2 DEF F
<1>11. CASE f1 = {} /\ f2 = {} /\ f3 = {}
  <2>1. F = [tick |-> end, init |-> FALSE]
    BY <1>2, <1>11
  <2> QED
    BY <2>1, <1>6 DEF F
<1> QED
  BY <1>8, <1>9, <1>10, <1>11

-----------------------------------------------------------------------------
(* The bounds                                                              *)

\* The bound of a tick map in the direction of the highest or the lowest tick.
Bound(m, lte) == IF lte THEN m.max ELSE m.min

Bounded(m) ==
    \A lte \in BOOLEAN :
        /\ Live(m) = {} => Bound(m, lte) = Sentinel(lte)
        /\ Live(m) # {} => \E c \in Live(m) : /\ \A d \in Live(m) : Within(d, c, lte)
                                              /\ Bound(m, lte) = c * TickSpacing

\* find_next_global_tick returns the next bound when the present one goes.
LEMMA NextGlobal ==
    ASSUME NEW m, Marked(m), \A c \in Live(m) : Usable(c),
           NEW t \in MinTick..MaxTick, NEW lte \in BOOLEAN,
           \A c \in Live(m) : Within(c, CompressTick(t), lte)
    PROVE  /\ Live(m) = {} => FindNextGlobalTick(m, t, lte) = Sentinel(lte)
           /\ Live(m) # {} =>
                \E c \in Live(m) : /\ \A d \in Live(m) : Within(d, c, lte)
                                   /\ FindNextGlobalTick(m, t, lte) = c * TickSpacing
<1> DEFINE from == CompressTick(t)
           w == WordPos(ChunkPos(from))
           here == ExtremeTickInWord(m, w, lte)
           adjacent == FindAdjacentWord(m, w, lte)
           F == FindNextGlobalTick(m, t, lte)
           A == Live(m)
<1>1. from \in Int /\ from \in CTicks
  BY TickAddressed
<1>2. w \in Int /\ L2Pos(w) \in {-1, 0}
  BY <1>1, WithinWord, AddressedWord
<1>3. F = IF here # Sentinel(lte) THEN here
          ELSE IF adjacent = {} THEN Sentinel(lte)
          ELSE ExtremeTickInWord(m, CHOOSE x \in adjacent : TRUE, lte)
  BY Zenon DEF FindNextGlobalTick
<1>4. ASSUME NEW d \in A
      PROVE  /\ d \in Int /\ WordPos(ChunkPos(d)) \in Int /\ Within(WordPos(ChunkPos(d)), w, lte)
             /\ CompressedToTick(d) = d * TickSpacing /\ CompressedToTick(d) # Sentinel(lte)
  BY <1>1, LiveFacts, WithinWord, UsableTick
<1>5. CASE OfWord(m, w) # {}
  <2>1. PICK c \in OfWord(m, w) : /\ \A d \in OfWord(m, w) : Within(d, c, lte)
                                  /\ here = CompressedToTick(c)
    BY <1>2, <1>5, ExtremeTick
  <2>2. c \in A /\ WordPos(ChunkPos(c)) = w
    BY DEF OfWord
  <2>3. F = c * TickSpacing
    <3> HIDE DEF F, here, A
    <3> QED BY <1>3, <1>4, <2>1, <2>2
  <2>4. ASSUME NEW d \in A PROVE Within(d, c, lte)
    <3>1. CASE WordPos(ChunkPos(d)) = w
      BY <2>1, <3>1 DEF OfWord
    <3>2. CASE WordPos(ChunkPos(d)) # w
      <4>1. Before(WordPos(ChunkPos(d)), w, lte)
        <5> HIDE DEF w
        <5> QED BY <1>2, <1>4, <3>2 DEF Within, Before
      <4>2. d \in Int /\ c \in Int
        BY <1>4, <2>2
      <4> QED
        BY <4>1, <4>2, <2>2, WithinWord
    <3> QED
      BY <3>1, <3>2
  <2> HIDE DEF F
  <2> QED
    BY <2>2, <2>3, <2>4 DEF F
<1>6. CASE OfWord(m, w) = {}
  <2>1. here = Sentinel(lte)
    BY <1>2, <1>6, ExtremeTick
  <2>2. ASSUME NEW d \in A PROVE WordPos(ChunkPos(d)) \in Beyond(m, w, lte)
    <3>1. WordPos(ChunkPos(d)) # w
      BY <1>6 DEF OfWord
    <3>2. Before(WordPos(ChunkPos(d)), w, lte)
      <4> HIDE DEF w
      <4> QED BY <1>2, <1>4, <3>1 DEF Within, Before
    <3> QED
      BY <3>2 DEF Beyond, LiveWords, LiveChunks
  <2>3. CASE A = {}
    <3>1. Beyond(m, w, lte) = {}
      BY <2>3 DEF Beyond, LiveWords, LiveChunks
    <3>2. adjacent = {}
      <4> HIDE DEF w
      <4> QED BY <1>2, <3>1, Adjacent
    <3>3. F = Sentinel(lte)
      <4> HIDE DEF F, here, adjacent
      <4> QED BY <1>3, <2>1, <3>2
    <3> HIDE DEF F
    <3> QED
      BY <2>3, <3>3 DEF F
  <2>4. CASE A # {}
    <3>1. Beyond(m, w, lte) # {}
      <4> HIDE DEF A
      <4> QED BY <2>2, <2>4
    <3>2. PICK x \in Beyond(m, w, lte) :
              (\A y \in Beyond(m, w, lte) : Within(y, x, lte)) /\ adjacent = {x}
      <4> HIDE DEF w
      <4> QED BY <1>2, <3>1, Adjacent
    <3>3. x \in LiveWords(m) /\ x \in Int
      BY LiveFacts DEF Beyond
    <3>4. OfWord(m, x) # {}
      BY <3>3 DEF OfWord, LiveWords, LiveChunks
    <3>5. PICK c \in OfWord(m, x) : /\ \A d \in OfWord(m, x) : Within(d, c, lte)
                                    /\ ExtremeTickInWord(m, x, lte) = CompressedToTick(c)
      BY <3>3, <3>4, ExtremeTick
    <3>6. c \in A /\ WordPos(ChunkPos(c)) = x
      BY DEF OfWord
    <3>7. F = c * TickSpacing
      <4>1. adjacent # {} /\ (CHOOSE y \in adjacent : TRUE) = x
        <5> HIDE DEF adjacent
        <5> QED BY <3>2
      <4> HIDE DEF F, here, A, adjacent
      <4> QED BY <1>3, <1>4, <2>1, <3>5, <3>6, <4>1
    <3>8. ASSUME NEW d \in A PROVE Within(d, c, lte)
      <4> DEFINE y == WordPos(ChunkPos(d))
      <4>1. Within(y, x, lte) /\ d \in Int /\ y \in Int /\ c \in Int
        BY <2>2, <3>2, <1>4, <3>6
      <4>2. CASE y = x
        BY <3>5, <4>2 DEF OfWord
      <4>3. CASE y # x
        <5>1. Before(y, x, lte)
          <6> HIDE DEF y
          <6> QED BY <3>3, <4>1, <4>3 DEF Within, Before
        <5> QED
          BY <5>1, <3>6, <4>1, WithinWord
      <4> QED
        BY <4>2, <4>3
    <3> HIDE DEF F
    <3> QED
      BY <3>6, <3>7, <3>8 DEF F
  <2> QED
    BY <2>3, <2>4
<1> QED
  BY <1>5, <1>6

-----------------------------------------------------------------------------
(* The promise of the index                                                *)

\* What the index keeps, as a part of the inductive invariant.
Indexed(m) == Marked(m) /\ (\A c \in Live(m) : Usable(c)) /\ Bounded(m)

\* On the side of t where a search looks.
OnSide(x, t, lte) == IF lte THEN x <= t ELSE x > t

\* Ticks are ordered as their quotients by the spacing.
LEMMA ScaledOrder ==
    ASSUME NEW x \in Int, NEW y \in Int, NEW lte \in BOOLEAN
    PROVE  Within(x, y, lte) => Within(x * TickSpacing, y * TickSpacing, lte)
<1>1. TickSpacing \in Nat \ {0}
  BY Constants
<1>2. x <= y => x * TickSpacing <= y * TickSpacing
  BY <1>1
<1>3. y <= x => y * TickSpacing <= x * TickSpacing
  BY <1>1
<1> QED
  BY <1>2, <1>3 DEF Within

LEMMA SideOf ==
    ASSUME NEW c \in Int, NEW t \in Int, NEW lte \in BOOLEAN
    PROVE  /\ OnSide(c * TickSpacing, t, lte) <=> Within(c, From(t, lte), lte)
           /\ From(t, lte) \in Int
<1>1. /\ c * TickSpacing <= t <=> c <= CompressTick(t)
      /\ c * TickSpacing > t <=> CompressTick(t) + 1 <= c
      /\ CompressTick(t) \in Int
  BY TickOrder
<1> QED
  BY <1>1 DEF OnSide, Within, From

\* From a tick on, the search finds the extreme of the live ticks ahead.
LEMMA NextFound ==
    ASSUME NEW m, Indexed(m), NEW t \in MinTick..MaxTick, NEW lte \in BOOLEAN,
           Live(m) # {}, IF lte THEN t >= m.min ELSE t < m.max
    PROVE  \E c \in Live(m) :
              /\ FindInitializedTick(m, t, lte) = [tick |-> c * TickSpacing, init |-> TRUE]
              /\ OnSide(c * TickSpacing, t, lte)
              /\ \A d \in Live(m) : OnSide(d * TickSpacing, t, lte) =>
                    Within(d * TickSpacing, c * TickSpacing, lte)
<1> DEFINE from == From(t, lte)
           A == Toward(m, from, lte)
<1>1. t \in Int /\ Live(m) \in SUBSET Int
  BY Constants, LiveFacts
<1>2. \A d \in Live(m) : d \in A <=> OnSide(d * TickSpacing, t, lte)
  BY <1>1, SideOf DEF Toward
<1>3. PICK e \in Live(m) : e * TickSpacing = IF lte THEN m.min ELSE m.max
  <2>1. \A up \in BOOLEAN : \E c \in Live(m) : Bound(m, up) = c * TickSpacing
    BY DEF Indexed, Bounded
  <2>2. \E c \in Live(m) : m.min = c * TickSpacing
    BY <2>1 DEF Bound
  <2>3. \E c \in Live(m) : m.max = c * TickSpacing
    BY <2>1 DEF Bound
  <2> QED
    BY <2>2, <2>3
<1>4. e \in A /\ e \in Int
  <2>1. e * TickSpacing \in Int
    BY <1>1, Constants
  <2>2. OnSide(e * TickSpacing, t, lte)
    BY <1>1, <1>3, <2>1 DEF OnSide
  <2> HIDE DEF A
  <2> QED
    BY <1>1, <1>2, <2>2
<1>5. from \in CTicks
  <2>1. CASE lte
    BY <2>1, TickAddressed DEF From
  <2>2. CASE ~lte
    <3>1. /\ CompressTick(t) \in CTicks /\ CompressTick(t) \in Int
          /\ e \in CTicks /\ e \in Int /\ from = CompressTick(t) + 1 /\ from <= e
      BY <1>4, <2>2, TickAddressed, LiveFacts DEF From, Toward, Within
    <3>2. /\ ChunkPos(CompressTick(t)) <= ChunkPos(from) /\ ChunkPos(from) <= ChunkPos(e)
          /\ ChunkPos(from) \in Int
      <4> HIDE DEF from
      <4> QED BY <3>1, WordMonotone
    <3>3. ChunkPos(CompressTick(t)) \in Chunks /\ ChunkPos(e) \in Chunks
      BY <3>1, InCTicks
    <3>4. \A k \in Int : k \div TicksPerChunk \in Int
      BY Constants, IntDiv
    <3>5. \A k \in Int : k \div TickSpacing \in Int
      BY Constants, IntDiv
    <3>6. ChunkPos(CompressTick(MinTick)) \in Int /\ ChunkPos(CompressTick(MaxTick)) \in Int
      BY <3>4, <3>5, Constants DEF ChunkPos, CompressTick
    <3>7. ChunkPos(from) \in Chunks
      <4> HIDE DEF from
      <4>1. ChunkPos(CompressTick(t)) \in Int /\ ChunkPos(e) \in Int
        BY <3>1, <3>4 DEF ChunkPos
      <4> QED BY <3>2, <3>3, <3>6, <4>1 DEF Chunks
    <3> HIDE DEF from
    <3> QED
      BY <3>1, <3>7, InCTicks
  <2> QED
    BY <2>1, <2>2
<1>6. A # {}
  BY <1>4
<1>7. PICK c \in A : /\ \A d \in A : Within(d, c, lte)
                     /\ FindInitializedTick(m, t, lte) = [tick |-> c * TickSpacing, init |-> TRUE]
  BY <1>1, <1>5, <1>6, FindTick DEF Indexed
<1>8. c \in Live(m) /\ OnSide(c * TickSpacing, t, lte) /\ c \in Int
  <2>1. c \in Live(m)
    BY DEF Toward
  <2> HIDE DEF A
  <2> QED
    BY <1>1, <1>2, <2>1
<1>9. ASSUME NEW d \in Live(m), OnSide(d * TickSpacing, t, lte)
      PROVE  Within(d * TickSpacing, c * TickSpacing, lte)
  <2>1. Within(d, c, lte) /\ d \in Int
    <3> HIDE DEF A
    <3> QED BY <1>1, <1>2, <1>7, <1>9
  <2> QED
    BY <1>8, <2>1, ScaledOrder
<1> QED
  BY <1>7, <1>8, <1>9

\* The ticks that have liquidity are the live ones, times the spacing.
LEMMA InitializedLive ==
    ASSUME NEW m, \A c \in Live(m) : Usable(c)
    PROVE  /\ Initialized(m) = {c * TickSpacing : c \in Live(m)}
           /\ Initialized(m) \in SUBSET Int
<1>1. Initialized(m) = {CompressedToTick(c) : c \in Live(m)}
  BY DEF Initialized, Live
<1>2. \A c \in Live(m) : CompressedToTick(c) = c * TickSpacing /\ c * TickSpacing \in Int
  BY LiveFacts, UsableTick, Constants
<1> QED
  BY <1>1, <1>2

\* With an index that is right, the search is exact,
LEMMA IndexedSearch ==
    ASSUME NEW m, Indexed(m)
    PROVE  SearchExact(m)
<1>1. /\ Initialized(m) = {c * TickSpacing : c \in Live(m)}
      /\ Initialized(m) \in SUBSET Int
  BY InitializedLive DEF Indexed
<1>2. ASSUME NEW t \in MinTick..MaxTick, NEW lte \in BOOLEAN, Initialized(m) # {},
             IF lte THEN t >= m.min ELSE t < m.max
      PROVE  FindInitializedTick(m, t, lte) =
                [tick |-> CHOOSE x \in Extreme({y \in Initialized(m) : OnSide(y, t, lte)}, lte) : TRUE,
                 init |-> TRUE]
  <2> DEFINE S == {y \in Initialized(m) : OnSide(y, t, lte)}
  <2>1. Live(m) # {}
    BY <1>1, <1>2
  <2>2. PICK c \in Live(m) :
              /\ FindInitializedTick(m, t, lte) = [tick |-> c * TickSpacing, init |-> TRUE]
              /\ OnSide(c * TickSpacing, t, lte)
              /\ \A d \in Live(m) : OnSide(d * TickSpacing, t, lte) =>
                    Within(d * TickSpacing, c * TickSpacing, lte)
    BY <1>2, <2>1, NextFound
  <2>3. /\ c * TickSpacing \in S /\ S \in SUBSET Int
        /\ \A y \in S : Within(y, c * TickSpacing, lte)
    <3>1. \A y \in S : \E d \in Live(m) : y = d * TickSpacing /\ OnSide(d * TickSpacing, t, lte)
      BY <1>1
    <3>2. c * TickSpacing \in S /\ S \in SUBSET Int
      BY <1>1, <2>2
    <3> HIDE DEF S
    <3> QED BY <3>1, <3>2, <2>2
  <2>4. Extreme(S, lte) = {c * TickSpacing}
    <3>1. \A T \in SUBSET Int : \A x : x \in T /\ (\A y \in T : Within(y, x, lte))
             => Extreme(T, lte) = {x}
      BY ExtremeOnly
    <3> HIDE DEF S
    <3> QED BY <2>3, <3>1
  <2>5. (CHOOSE x \in Extreme(S, lte) : TRUE) = c * TickSpacing
    <3> HIDE DEF S
    <3> QED BY <2>4
  <2> HIDE DEF S
  <2> QED
    BY <2>2, <2>5 DEF S
<1>3. ASSUME NEW t
      PROVE  /\ {y \in Initialized(m) : OnSide(y, t, TRUE)} = {y \in Initialized(m) : y <= t}
             /\ {y \in Initialized(m) : OnSide(y, t, FALSE)} = {y \in Initialized(m) : y > t}
             /\ \A S : Extreme(S, TRUE) = Highest(S) /\ Extreme(S, FALSE) = Lowest(S)
  BY Zenon DEF OnSide, Extreme
<1>4. ASSUME NEW t \in MinTick..MaxTick, Initialized(m) # {}, t >= m.min
      PROVE  FindInitializedTick(m, t, TRUE) =
                [tick |-> CHOOSE x \in Highest({y \in Initialized(m) : y <= t}) : TRUE,
                 init |-> TRUE]
  <2>1. FindInitializedTick(m, t, TRUE) =
                [tick |-> CHOOSE x \in Extreme({y \in Initialized(m) : OnSide(y, t, TRUE)}, TRUE) : TRUE,
                 init |-> TRUE]
    BY <1>2, <1>4
  <2> QED
    BY <1>3, <2>1, Zenon
<1>5. ASSUME NEW t \in MinTick..MaxTick, Initialized(m) # {}, t < m.max
      PROVE  FindInitializedTick(m, t, FALSE) =
                [tick |-> CHOOSE x \in Lowest({y \in Initialized(m) : y > t}) : TRUE,
                 init |-> TRUE]
  <2>1. FindInitializedTick(m, t, FALSE) =
                [tick |-> CHOOSE x \in Extreme({y \in Initialized(m) : OnSide(y, t, FALSE)}, FALSE) : TRUE,
                 init |-> TRUE]
    BY <1>2, <1>5
  <2> QED
    BY <1>3, <2>1, Zenon
<1> QED
  BY <1>4, <1>5, Zenon DEF SearchExact

\* and the bounds are those of the ticks.
LEMMA IndexedBounds ==
    ASSUME NEW m, Indexed(m)
    PROVE  BoundsExact(m)
<1>1. /\ Initialized(m) = {c * TickSpacing : c \in Live(m)}
      /\ Initialized(m) \in SUBSET Int
  BY InitializedLive DEF Indexed
<1>2. CASE Live(m) = {}
  <2>1. Initialized(m) = {}
    BY <1>1, <1>2
  <2>2. Bound(m, TRUE) = Sentinel(TRUE) /\ Bound(m, FALSE) = Sentinel(FALSE)
    BY <1>2 DEF Indexed, Bounded
  <2>3. m.max = MinTick /\ m.min = MaxTick
    BY <2>2, Zenon DEF Bound, Sentinel
  <2> QED
    BY <2>1, <2>3, Zenon DEF BoundsExact
<1>3. CASE Live(m) # {}
  <2>1. ASSUME NEW lte \in BOOLEAN PROVE Extreme(Initialized(m), lte) = {Bound(m, lte)}
    <3>1. PICK c \in Live(m) : /\ \A d \in Live(m) : Within(d, c, lte)
                               /\ Bound(m, lte) = c * TickSpacing
      BY <1>3 DEF Indexed, Bounded
    <3>2. \A d \in Live(m) : Within(d * TickSpacing, c * TickSpacing, lte)
      BY <3>1, LiveFacts, ScaledOrder
    <3>3. /\ c * TickSpacing \in Initialized(m)
          /\ \A y \in Initialized(m) : Within(y, c * TickSpacing, lte)
      BY <1>1, <3>2
    <3>4. Extreme(Initialized(m), lte) = {c * TickSpacing}
      <4>1. \A S \in SUBSET Int : \A x : x \in S /\ (\A y \in S : Within(y, x, lte))
               => Extreme(S, lte) = {x}
        BY ExtremeOnly
      <4> QED BY <1>1, <3>3, <4>1
    <3> QED
      BY <3>1, <3>4
  <2>2. Initialized(m) # {}
    BY <1>1, <1>3
  <2>3. Highest(Initialized(m)) = {m.max}
    BY <2>1, Zenon DEF Extreme, Bound
  <2>4. Lowest(Initialized(m)) = {m.min}
    BY <2>1, Zenon DEF Extreme, Bound
  <2> QED
    BY <2>2, <2>3, <2>4, Zenon DEF BoundsExact
<1> QED
  BY <1>2, <1>3

-----------------------------------------------------------------------------
(* Updates of the index                                                    *)

\* The tick maps, with bounds that are ticks.
MapType ==
    [tick : [CTicks -> TickInfo],
     words : [Words -> SUBSET Bits], l2 : [L2Words -> SUBSET Bits],
     min : MinTick..MaxTick, max : MinTick..MaxTick]

WordsOf(K) == {WordPos(k) : k \in K}
MarkedBy(m, K) ==
    /\ \A w \in Words : m.words[w] = BitsOf(K, w)
    /\ \A v \in L2Words : m.l2[v] = BitsOf(WordsOf(K), v)

\* An index is right if it marks the chunks that are alive.
LEMMA MarkedIsMarkedBy ==
    ASSUME NEW m
    PROVE  Marked(m) <=> MarkedBy(m, LiveChunks(m))
BY Zenon DEF Marked, MarkedBy, LiveWords, BitsOf, WordsOf

\* One element more, or one less.
Flip(K, k, value) == IF value THEN K \cup {k} ELSE K \ {k}

\* A flip of one bit adds or takes one position.
LEMMA FlipBits ==
    ASSUME NEW K \in SUBSET Int, NEW w \in Int, NEW b \in Bits, NEW value \in BOOLEAN
    PROVE  /\ BitsOf(Flip(K, w * WordBits + b, value), w) = Flip(BitsOf(K, w), b, value)
           /\ \A x \in Int : x # w =>
                BitsOf(Flip(K, w * WordBits + b, value), x) = BitsOf(K, x)
<1> DEFINE n == WordBits
           k == w * n + b
<1>1. n \in Nat \ {0} /\ Bits = 0..(n - 1)
  BY Constants DEF Bits
<1>2. ASSUME NEW x \in Int, NEW e \in Bits, x * n + e = k PROVE x = w /\ e = b
  <2>1. (x * n + e) \div n = x /\ (x * n + e) % n = e
    BY <1>1, Whole
  <2>2. (w * n + b) \div n = w /\ (w * n + b) % n = b
    BY <1>1, Whole
  <2> HIDE DEF n
  <2> QED
    BY <1>2, <2>1, <2>2
<1>3. ASSUME NEW e \in Bits
      PROVE  w * n + e \in Flip(K, k, value) <=> e \in Flip(BitsOf(K, w), b, value)
  <2>1. w * n + e = k <=> e = b
    BY <1>2
  <2>2. e \in BitsOf(K, w) <=> w * n + e \in K
    BY DEF BitsOf
  <2> HIDE DEF k, n
  <2> QED
    BY <2>1, <2>2 DEF Flip
<1>4. ASSUME NEW x \in Int, x # w, NEW e \in Bits
      PROVE  x * n + e \in Flip(K, k, value) <=> x * n + e \in K
  <2>1. x * n + e # k
    BY <1>2, <1>4
  <2> HIDE DEF k, n
  <2> QED
    BY <2>1 DEF Flip
<1>5. Flip(BitsOf(K, w), b, value) \in SUBSET Bits
  BY DEF BitsOf, Flip
<1> HIDE DEF k
<1>6. BitsOf(Flip(K, k, value), w) = Flip(BitsOf(K, w), b, value)
  <2>1. \A e : e \in BitsOf(Flip(K, k, value), w) <=> e \in Bits /\ w * n + e \in Flip(K, k, value)
    BY DEF BitsOf
  <2>2. \A e : e \in BitsOf(Flip(K, k, value), w) <=> e \in Flip(BitsOf(K, w), b, value)
    BY <1>3, <1>5, <2>1
  <2> QED
    BY <2>2
<1>7. ASSUME NEW x \in Int, x # w PROVE BitsOf(Flip(K, k, value), x) = BitsOf(K, x)
  BY <1>4, <1>7 DEF BitsOf
<1> QED
  BY <1>6, <1>7 DEF k

\* A word is not empty when one of its chunks is alive.
LEMMA WordAlive ==
    ASSUME NEW K \in SUBSET Int, NEW w \in Int
    PROVE  w \in WordsOf(K) <=> BitsOf(K, w) # {}
<1>1. ASSUME NEW k \in K PROVE BitPos(k) \in Bits /\ k = WordPos(k) * WordBits + BitPos(k)
  BY ChunkParts, BitPosType
<1>2. ASSUME NEW b \in Bits, w * WordBits + b \in K PROVE w \in WordsOf(K)
  <2>1. WordPos(w * WordBits + b) = w
    BY Whole, Constants DEF WordPos, Bits
  <2> QED
    BY <1>2, <2>1 DEF WordsOf
<1>3. ASSUME w \in WordsOf(K) PROVE BitsOf(K, w) # {}
  <2>1. PICK k \in K : w = WordPos(k)
    BY <1>3 DEF WordsOf
  <2>2. BitPos(k) \in BitsOf(K, w)
    BY <1>1, <2>1 DEF BitsOf
  <2> QED
    BY <2>2
<1> QED
  BY <1>2, <1>3 DEF BitsOf

\* update_chunk_bitmap_bit marks one chunk more, or one less, at both levels.
LEMMA UpdateBit ==
    ASSUME NEW m \in MapType, NEW K \in SUBSET Chunks, MarkedBy(m, K),
           NEW k \in Chunks, NEW value \in BOOLEAN
    PROVE  /\ UpdateChunkBit(m, k, value) \in MapType
           /\ UpdateChunkBit(m, k, value).tick = m.tick
           /\ UpdateChunkBit(m, k, value).min = m.min
           /\ UpdateChunkBit(m, k, value).max = m.max
           /\ MarkedBy(UpdateChunkBit(m, k, value), Flip(K, k, value))
<1> DEFINE word == WordPos(k)
           bit == BitPos(k)
           v == L2Pos(word)
           e == L2Bit(word)
           old == m.words[word]
           new == IF value THEN old \cup {bit} ELSE old \ {bit}
           marked == IF new = {} THEN m.l2[v] \ {e} ELSE m.l2[v] \cup {e}
           upper == IF (old = {}) # (new = {}) THEN marked ELSE m.l2[v]
           U == UpdateChunkBit(m, k, value)
           J == Flip(K, k, value)
           W == WordsOf(K)
           V == WordsOf(J)
<1>1. U = [m EXCEPT !.words[word] = new, !.l2[v] = upper]
  BY Zenon DEF UpdateChunkBit
<1>2. Chunks \in SUBSET Int /\ Words \in SUBSET Int /\ L2Words \in SUBSET Int
  <2>1. ChunkPos(CompressTick(MinTick)) \in Int /\ ChunkPos(CompressTick(MaxTick)) \in Int
    BY Constants, IntDiv DEF ChunkPos, CompressTick
  <2>2. Chunks \in SUBSET Int
    BY <2>1 DEF Chunks
  <2>3. Words \in SUBSET Int
    BY <2>2, ChunkParts DEF Words
  <2> QED
    BY <2>2, <2>3, SearchAssumption DEF SearchAssumption
<1>3. /\ word \in Words /\ bit \in Bits /\ k = word * WordBits + bit
      /\ word \in Int /\ v \in L2Words /\ e \in Bits /\ word = v * WordBits + e /\ v \in Int
  <2>1. word \in Words /\ word \in Int /\ bit \in Bits /\ k = word * WordBits + bit
    BY <1>2, ChunkParts, BitPosType DEF Words
  <2>2. v \in L2Words /\ e \in Bits /\ word = v * WordBits + e /\ v \in Int
    <3> HIDE DEF word
    <3> QED BY <2>1, Parts, Constants DEF L2Words, L2Pos, L2Bit, Bits
  <2> QED
    BY <2>1, <2>2
<1>4. new = Flip(old, bit, value)
  BY DEF Flip
<1>5. K \in SUBSET Int /\ W \in SUBSET Int /\ J \in SUBSET Int /\ V \in SUBSET Int
  <2>1. K \in SUBSET Int /\ J \in SUBSET Int
    BY <1>2 DEF Flip
  <2> HIDE DEF J
  <2> QED
    BY <2>1, ChunkParts DEF WordsOf
<1>6. old = BitsOf(K, word) /\ new = BitsOf(J, word)
  <2>1. old = BitsOf(K, word)
    BY <1>3 DEF MarkedBy
  <2>2. BitsOf(J, word) = Flip(BitsOf(K, word), bit, value)
    <3> HIDE DEF word, bit
    <3> QED BY <1>3, <1>5, FlipBits
  <2> HIDE DEF J, new, old, word, bit
  <2> QED
    BY <1>4, <2>1, <2>2
<1>7. \A w \in Int : w # word => BitsOf(J, w) = BitsOf(K, w)
  <2>0. word \in Int /\ bit \in Bits /\ K \in SUBSET Int
    BY <1>3, <1>5
  <2> HIDE DEF word, bit
  <2>1. \A w \in Int : w # word =>
           BitsOf(Flip(K, word * WordBits + bit, value), w) = BitsOf(K, w)
    BY <2>0, FlipBits
  <2>2. Flip(K, word * WordBits + bit, value) = J
    BY <1>3, Zenon
  <2> HIDE DEF J
  <2> QED
    BY <2>1, <2>2
<1>8. /\ word \in W <=> old # {}
      /\ word \in V <=> new # {}
      /\ \A w \in Int : w # word => (w \in V <=> w \in W)
  <2> HIDE DEF word, old, new, J, W, V
  <2>1. \A w \in Int : (w \in V <=> BitsOf(J, w) # {}) /\ (w \in W <=> BitsOf(K, w) # {})
    BY <1>5, WordAlive DEF V, W
  <2> QED
    BY <1>3, <1>6, <1>7, <2>1
<1>9. m.l2[v] = BitsOf(W, v)
  BY <1>3 DEF MarkedBy
<1>10. V = IF new = {} THEN W \ {word} ELSE W \cup {word}
  <2> HIDE DEF V, W, word, new, old
  <2> QED BY <1>3, <1>5, <1>8
<1>11. ((old = {}) <=> (new = {})) => V = W
  <2> HIDE DEF V, W, word, new, old
  <2>1. ASSUME (old = {}) <=> (new = {}) PROVE \A w \in Int : w \in V <=> w \in W
    BY <1>8, <2>1
  <2> QED
    BY <1>5, <2>1
<1>12. ASSUME NEW x \in BOOLEAN
       PROVE  /\ BitsOf(Flip(W, word, x), v) = Flip(BitsOf(W, v), e, x)
              /\ \A y \in Int : y # v => BitsOf(Flip(W, word, x), y) = BitsOf(W, y)
  <2> HIDE DEF W, v, e, word
  <2> QED BY <1>3, <1>5, FlipBits
<1>13. \E x \in BOOLEAN : /\ V = Flip(W, word, x)
                          /\ marked = Flip(BitsOf(W, v), e, x)
  <2> HIDE DEF W, V, v, e, word, new
  <2>1. CASE new = {}
    BY <1>9, <1>10, <2>1 DEF Flip
  <2>2. CASE new # {}
    BY <1>9, <1>10, <2>2 DEF Flip
  <2> QED
    BY <2>1, <2>2
<1>14. marked = BitsOf(V, v) /\ \A y \in Int : y # v => BitsOf(V, y) = BitsOf(W, y)
  <2> HIDE DEF W, V, v, e, word, marked
  <2> QED BY <1>12, <1>13
<1>15. upper = BitsOf(V, v)
  <2> HIDE DEF W, V, v, marked, old, new
  <2> QED BY <1>9, <1>11, <1>14
<1>16. BitsOf(J, word) \in SUBSET Bits /\ BitsOf(V, v) \in SUBSET Bits
  BY DEF BitsOf
<1>17. new \in SUBSET Bits /\ upper \in SUBSET Bits
  <2> HIDE DEF new, upper, J, V, v, word
  <2> QED BY <1>6, <1>15, <1>16
<1> HIDE DEF U, word, v, new, upper, J, W, V
<1>18. /\ U \in MapType /\ U.tick = m.tick /\ U.min = m.min /\ U.max = m.max
       /\ U.words = [m.words EXCEPT ![word] = new]
       /\ U.l2 = [m.l2 EXCEPT ![v] = upper]
  BY <1>1, <1>3, <1>17 DEF MapType
<1>19. ASSUME NEW w \in Words PROVE U.words[w] = BitsOf(J, w)
  <2>1. m.words \in [Words -> SUBSET Bits] /\ m.words[w] = BitsOf(K, w) /\ w \in Int
    BY <1>2 DEF MapType, MarkedBy
  <2>2. CASE w = word
    BY <1>6, <1>18, <2>1, <2>2
  <2>3. CASE w # word
    BY <1>7, <1>18, <2>1, <2>3
  <2> QED
    BY <2>2, <2>3
<1>20. ASSUME NEW y \in L2Words PROVE U.l2[y] = BitsOf(V, y)
  <2>1. m.l2 \in [L2Words -> SUBSET Bits] /\ m.l2[y] = BitsOf(W, y) /\ y \in Int
    BY <1>2 DEF MapType, MarkedBy, W
  <2>2. CASE y = v
    BY <1>15, <1>18, <2>1, <2>2
  <2>3. CASE y # v
    BY <1>14, <1>18, <2>1, <2>3
  <2> QED
    BY <2>2, <2>3
<1> QED
  BY <1>18, <1>19, <1>20 DEF MarkedBy, U, J, V

\* When one tick changes, the live ticks change by it.
LEMMA FlipLive ==
    ASSUME NEW m, NEW n, NEW c \in CTicks,
           \A d \in CTicks : d # c => m.tick[d] = n.tick[d]
    PROVE  /\ n.tick[c].gross > 0 => Live(n) = Live(m) \cup {c}
           /\ ~(n.tick[c].gross > 0) => Live(n) = Live(m) \ {c}
BY DEF Live

\* What update_tick_liquidity finds when it indexes a tick anew: the ticks are
\* up to date, the index is that of the ticks before.
LEMMA ReindexKeeps ==
    ASSUME NEW old \in MapType, Indexed(old), NEW m \in MapType,
           m.words = old.words, m.l2 = old.l2, m.min = old.min, m.max = old.max,
           NEW c \in CTicks, Usable(c),
           \A d \in CTicks : d # c => old.tick[d] = m.tick[d],
           (old.tick[c].gross > 0) # (m.tick[c].gross > 0)
    PROVE  /\ Reindex(m, c * TickSpacing) \in MapType
           /\ Reindex(m, c * TickSpacing).tick = m.tick
           /\ Indexed(Reindex(m, c * TickSpacing))
<1> DEFINE place == c * TickSpacing
           k == ChunkPos(c)
           K == LiveChunks(old)
           R == Reindex(m, place)
           L == Live(old)
           N == Live(m)
<1>1. /\ c \in Int /\ CompressTick(place) = c /\ place \in MinTick..MaxTick /\ place \in Int
      /\ MinTick < place /\ place < MaxTick
  BY CTicksBounded, UsableTick, Constants DEF Usable
<1>2. k \in Chunks /\ K \in SUBSET Chunks /\ k \in Int
  BY <1>1, InCTicks, LiveFacts, WithinWord
<1>3. MarkedBy(m, K)
  <2>1. MarkedBy(old, K)
    BY MarkedIsMarkedBy DEF Indexed
  <2> HIDE DEF K
  <2> QED
    BY <2>1 DEF MarkedBy
<1>4. \A d \in N : d \in Int /\ Usable(d)
  <2>1. N \in SUBSET (L \cup {c})
    BY FlipLive
  <2> HIDE DEF N
  <2> QED
    BY <2>1, <1>1, LiveFacts DEF Indexed
<1>5. \A lte \in BOOLEAN : Bound(m, lte) = Bound(old, lte) /\ Bound(m, lte) \in MinTick..MaxTick
  BY DEF Bound, MapType
<1>6. \A d \in CTicks : m.tick[d].gross \in Nat
  BY DEF MapType, TickInfo
<1>7. CASE m.tick[c].gross > 0
  <2> DEFINE U == UpdateChunkBit(m, k, TRUE)
             low == IF place < U.min THEN place ELSE U.min
             high == IF place > U.max THEN place ELSE U.max
  <2>1. R = [U EXCEPT !.min = low, !.max = high]
    BY <1>1, <1>7, Zenon DEF Reindex
  <2>2. /\ U \in MapType /\ U.tick = m.tick /\ U.min = m.min /\ U.max = m.max
        /\ MarkedBy(U, Flip(K, k, TRUE))
    <3> HIDE DEF K, k
    <3> QED BY <1>2, <1>3, UpdateBit
  <2>3. low \in MinTick..MaxTick /\ high \in MinTick..MaxTick
    <3> HIDE DEF place
    <3> QED BY <1>1, <2>2 DEF MapType
  <2>4. /\ R \in MapType /\ R.tick = m.tick /\ R.min = low /\ R.max = high
        /\ R.words = U.words /\ R.l2 = U.l2
    <3> HIDE DEF R, U, low, high
    <3> QED BY <2>1, <2>2, <2>3 DEF MapType
  <2>5. N = L \cup {c} /\ Live(R) = N
    <3>1. N = L \cup {c}
      BY <1>7, FlipLive, ZenonT(60)
    <3>2. Live(R) = N
      <4> HIDE DEF R
      <4> QED BY <2>4 DEF Live
    <3> QED
      BY <3>1, <3>2
  <2>6. LiveChunks(R) = Flip(K, k, TRUE)
    <3> HIDE DEF R, N, L
    <3> QED BY <2>5 DEF LiveChunks, Flip, L
  <2>7. Marked(R)
    <3>1. MarkedBy(R, LiveChunks(R))
      <4> HIDE DEF R, U, K, k
      <4> QED BY <2>2, <2>4, <2>6 DEF MarkedBy
    <3> HIDE DEF R
    <3> QED
      BY <3>1, MarkedIsMarkedBy
  <2>8. ASSUME NEW lte \in BOOLEAN
        PROVE  \E e \in N : (\A d \in N : Within(d, e, lte)) /\ Bound(R, lte) = e * TickSpacing
    <3>1. Bound(R, lte) = IF Before(Bound(m, lte), place, lte) THEN place ELSE Bound(m, lte)
      <4> HIDE DEF R, U, place
      <4> QED BY <2>2, <2>4 DEF Bound, Before
    <3>2. CASE L = {}
      <4>1. Bound(m, lte) = Sentinel(lte)
        BY <1>5, <3>2 DEF Indexed, Bounded
      <4>2. Before(Sentinel(lte), place, lte)
        <5> HIDE DEF place
        <5> QED BY <1>1 DEF Sentinel, Before
      <4>3. N = {c}
        BY <2>5, <3>2
      <4>4. Within(c, c, lte)
        BY <1>1 DEF Within
      <4>5. Bound(R, lte) = place
        <5> HIDE DEF R, place
        <5> QED BY <3>1, <4>1, <4>2
      <4> HIDE DEF R, N
      <4> QED
        BY <4>3, <4>4, <4>5
    <3>3. CASE L # {}
      <4>1. PICK e \in L : (\A d \in L : Within(d, e, lte)) /\ Bound(m, lte) = e * TickSpacing
        BY <1>5, <3>3 DEF Indexed, Bounded
      <4>2. e \in Int /\ L \in SUBSET Int
        BY LiveFacts
      <4>3. CASE Before(e, c, lte)
        <5>1. Before(e * TickSpacing, place, lte)
          <6>1. TickSpacing \in Nat \ {0}
            BY Constants
          <6>2. e < c => e * TickSpacing < c * TickSpacing
            BY <6>1, <1>1, <4>2
          <6>3. c < e => c * TickSpacing < e * TickSpacing
            BY <6>1, <1>1, <4>2
          <6> QED
            BY <4>3, <6>2, <6>3 DEF Before
        <5>2. Bound(R, lte) = place
          <6> HIDE DEF R, place
          <6> QED BY <3>1, <4>1, <5>1
        <5>3. \A d \in N : Within(d, c, lte)
          <6>1. \A d \in L : Within(d, c, lte)
            <7>1. \A d \in Int : Within(d, e, lte) => Within(d, c, lte)
              BY <4>2, <4>3, <1>1 DEF Within, Before
            <7> HIDE DEF L
            <7> QED BY <4>1, <4>2, <7>1
          <6>2. Within(c, c, lte)
            BY <1>1 DEF Within
          <6> HIDE DEF L, N
          <6> QED
            BY <2>5, <6>1, <6>2
        <5>4. c \in N
          BY <2>5
        <5> HIDE DEF R, N
        <5> QED
          BY <5>2, <5>3, <5>4
      <4>4. CASE ~Before(e, c, lte)
        <5>1. Within(c, e, lte)
          BY <4>2, <4>4, <1>1 DEF Within, Before
        <5>2. Within(place, e * TickSpacing, lte) /\ e * TickSpacing \in Int
          BY <5>1, <4>2, <1>1, ScaledOrder, Constants
        <5>3. ~Before(e * TickSpacing, place, lte)
          <6> HIDE DEF place
          <6> QED BY <5>2, <1>1 DEF Within, Before
        <5>4. Bound(R, lte) = e * TickSpacing
          <6> HIDE DEF R, place
          <6> QED BY <3>1, <4>1, <5>3
        <5>5. e \in N /\ \A d \in N : Within(d, e, lte)
          <6> HIDE DEF L, N
          <6> QED BY <2>5, <4>1, <5>1
        <5> HIDE DEF R, N
        <5> QED
          BY <5>4, <5>5
      <4> QED
        BY <4>3, <4>4
    <3> QED
      BY <3>2, <3>3
  <2>9. Bounded(R)
    <3>1. N # {}
      BY <2>5
    <3> HIDE DEF R, N
    <3> QED
      BY <2>5, <2>8, <3>1 DEF Bounded
  <2> HIDE DEF R, N
  <2> QED
    BY <1>4, <2>4, <2>5, <2>7, <2>9 DEF Indexed, R
<1>8. CASE ~(m.tick[c].gross > 0)
  <2> DEFINE empty == \A d \in CTicks : ChunkPos(d) = ChunkPos(c) => m.tick[d].gross = 0
             U == IF empty THEN UpdateChunkBit(m, k, FALSE) ELSE m
             low == IF place = U.min THEN FindNextGlobalTick(U, place, FALSE) ELSE U.min
             high == IF place = U.max THEN FindNextGlobalTick(U, place, TRUE) ELSE U.max
  <2>1. R = [U EXCEPT !.min = low, !.max = high]
    BY <1>1, <1>8, Zenon DEF Reindex
  <2>2. N = L \ {c} /\ c \in L
    <3>1. N = L \ {c}
      BY <1>8, FlipLive, SMTT(40)
    <3>2. c \in L
      BY <1>8 DEF Live
    <3> QED
      BY <3>1, <3>2
  <2>3. /\ U \in MapType /\ U.tick = m.tick /\ U.min = m.min /\ U.max = m.max
        /\ MarkedBy(U, LiveChunks(m))
    <3>1. CASE empty
      <4>1. LiveChunks(m) = Flip(K, k, FALSE)
        <5>1. \A d \in N : ChunkPos(d) # k
          BY <3>1 DEF Live
        <5>2. \A d \in L : ChunkPos(d) # k => d \in N
          BY <2>2
        <5>3. N \in SUBSET L
          BY <2>2
        <5> HIDE DEF N, L, empty
        <5> QED
          BY <5>1, <5>2, <5>3 DEF LiveChunks, Flip, N, L
      <4>2. U = UpdateChunkBit(m, k, FALSE)
        BY <3>1
      <4> HIDE DEF U, K, k, empty
      <4> QED
        BY <1>2, <1>3, <4>1, <4>2, UpdateBit
    <3>2. CASE ~empty
      <4>1. PICK d \in CTicks : ChunkPos(d) = k /\ m.tick[d].gross # 0
        BY <3>2
      <4>2. d \in N
        BY <1>6, <4>1 DEF Live
      <4>3. LiveChunks(m) = K
        <5>1. N \in SUBSET L
          BY <2>2
        <5>2. \A x \in L : \E y \in N : ChunkPos(y) = ChunkPos(x)
          <6> HIDE DEF N, L
          <6> QED BY <2>2, <4>1, <4>2
        <5> HIDE DEF N, L, empty
        <5>3. \A x : x \in LiveChunks(m) <=> \E y \in N : x = ChunkPos(y)
          BY DEF LiveChunks, N
        <5>4. \A x : x \in K <=> \E y \in L : x = ChunkPos(y)
          BY DEF LiveChunks, L
        <5>5. ASSUME NEW x \in K PROVE x \in LiveChunks(m)
          <6>1. PICK y \in L : x = ChunkPos(y)
            BY <5>4
          <6>2. PICK z \in N : ChunkPos(z) = ChunkPos(y)
            BY <5>2
          <6> QED
            BY <5>3, <6>1, <6>2
        <5>6. ASSUME NEW x \in LiveChunks(m) PROVE x \in K
          BY <5>1, <5>3, <5>4
        <5> HIDE DEF K
        <5> QED
          BY <5>5, <5>6
      <4>4. U = m
        BY <3>2
      <4> HIDE DEF U, K, k, empty
      <4> QED
        BY <1>3, <4>3, <4>4
    <3> QED
      BY <3>1, <3>2
  <2> HIDE DEF U
  <2>4. Live(U) = N
    BY <2>3 DEF Live
  <2>5. Marked(U)
    <3>1. LiveChunks(U) = LiveChunks(m)
      BY <2>4, Zenon DEF LiveChunks
    <3> QED
      BY <2>3, <3>1, MarkedIsMarkedBy
  <2>6. ASSUME NEW lte \in BOOLEAN
        PROVE  /\ N = {} => (IF place = Bound(m, lte) THEN FindNextGlobalTick(U, place, lte)
                             ELSE Bound(m, lte)) = Sentinel(lte)
               /\ N # {} => \E e \in N : /\ \A d \in N : Within(d, e, lte)
                                         /\ (IF place = Bound(m, lte)
                                             THEN FindNextGlobalTick(U, place, lte)
                                             ELSE Bound(m, lte)) = e * TickSpacing
    <3>1. PICK e \in L : (\A d \in L : Within(d, e, lte)) /\ Bound(m, lte) = e * TickSpacing
      BY <1>5, <2>2 DEF Indexed, Bounded
    <3>2. e \in Int /\ e * TickSpacing \in Int
      BY LiveFacts, Constants
    <3>3. place = e * TickSpacing <=> e = c
      <4>1. \A x \in Int, y \in Int : x * TickSpacing = y * TickSpacing => x = y
        BY Constants
      <4> QED
        BY <1>1, <3>2, <4>1
    <3>4. CASE e = c
      <4>1. \A d \in Live(U) : Within(d, CompressTick(place), lte)
        <5> HIDE DEF place, N, L
        <5> QED BY <1>1, <2>2, <2>4, <3>1, <3>4
      <4>2. /\ Live(U) = {} => FindNextGlobalTick(U, place, lte) = Sentinel(lte)
            /\ Live(U) # {} =>
                  \E x \in Live(U) : /\ \A d \in Live(U) : Within(d, x, lte)
                                     /\ FindNextGlobalTick(U, place, lte) = x * TickSpacing
        <5> HIDE DEF place, N
        <5> QED BY <1>1, <1>4, <2>4, <2>5, <4>1, NextGlobal
      <4>3. place = Bound(m, lte)
        BY <3>1, <3>4
      <4> HIDE DEF place, N
      <4> QED
        BY <2>4, <4>2, <4>3
    <3>5. CASE e # c
      <4>1. place # Bound(m, lte)
        BY <3>1, <3>3, <3>5
      <4>2. e \in N /\ \A d \in N : Within(d, e, lte)
        <5> HIDE DEF N, L
        <5> QED BY <2>2, <3>1, <3>5
      <4> HIDE DEF place, N
      <4> QED
        BY <3>1, <4>1, <4>2
    <3> QED
      BY <3>4, <3>5
  <2>7. low \in MinTick..MaxTick /\ high \in MinTick..MaxTick
    <3>1. FindNextGlobalTick(U, place, FALSE) \in MinTick..MaxTick
             /\ FindNextGlobalTick(U, place, TRUE) \in MinTick..MaxTick
      <4>1. ASSUME NEW lte \in BOOLEAN PROVE FindNextGlobalTick(U, place, lte) \in MinTick..MaxTick
        <5> DEFINE w == WordPos(ChunkPos(CompressTick(place)))
                   here == ExtremeTickInWord(U, w, lte)
                   adjacent == FindAdjacentWord(U, w, lte)
                   there == ExtremeTickInWord(U, CHOOSE x \in adjacent : TRUE, lte)
        <5>1. FindNextGlobalTick(U, place, lte)
                = IF here # Sentinel(lte) THEN here
                  ELSE IF adjacent = {} THEN Sentinel(lte) ELSE there
          BY Zenon DEF FindNextGlobalTick
        <5>2. here \in MinTick..MaxTick /\ there \in MinTick..MaxTick
          BY ExtremeTickTyped
        <5>3. Sentinel(lte) \in MinTick..MaxTick
          BY Constants DEF Sentinel
        <5> HIDE DEF here, adjacent, there, place
        <5> QED
          BY <5>1, <5>2, <5>3
      <4> QED
        BY <4>1
    <3>2. U.min \in MinTick..MaxTick /\ U.max \in MinTick..MaxTick
      BY <2>3 DEF MapType
    <3> HIDE DEF place
    <3> QED
      BY <3>1, <3>2
  <2>8. /\ R \in MapType /\ R.tick = m.tick /\ R.min = low /\ R.max = high
        /\ R.words = U.words /\ R.l2 = U.l2
    <3> HIDE DEF R, low, high
    <3> QED BY <2>1, <2>3, <2>7 DEF MapType
  <2>9. Live(R) = N
    <3> HIDE DEF R
    <3> QED BY <2>8 DEF Live
  <2>10. Marked(R)
    <3>1. LiveChunks(R) = LiveChunks(U)
      <4> HIDE DEF R, N
      <4> QED BY <2>4, <2>9, Zenon DEF LiveChunks
    <3>2. MarkedBy(U, LiveChunks(U))
      BY <2>5, MarkedIsMarkedBy
    <3>3. MarkedBy(R, LiveChunks(R))
      <4> HIDE DEF R
      <4> QED BY <2>8, <3>1, <3>2 DEF MarkedBy
    <3> HIDE DEF R
    <3> QED
      BY <3>3, MarkedIsMarkedBy
  <2>11. \A lte \in BOOLEAN :
            Bound(R, lte) = IF place = Bound(m, lte) THEN FindNextGlobalTick(U, place, lte)
                            ELSE Bound(m, lte)
    <3> HIDE DEF R, place
    <3> QED BY <2>3, <2>8 DEF Bound
  <2>12. Bounded(R)
    <3> HIDE DEF R, N, place
    <3> QED BY <2>6, <2>9, <2>11 DEF Bounded
  <2> HIDE DEF R, N
  <2> QED
    BY <1>4, <2>8, <2>9, <2>10, <2>12 DEF Indexed, R
<1> QED
  BY <1>7, <1>8

\* Ticks that change without liquidity beginning or ending anywhere.
LEMMA SameLive ==
    ASSUME NEW m \in MapType, NEW n,
           \A d \in CTicks : (n.tick[d].gross > 0) = (m.tick[d].gross > 0),
           n.words = m.words, n.l2 = m.l2, n.min = m.min, n.max = m.max,
           Indexed(m)
    PROVE  Indexed(n) /\ Live(n) = Live(m)
<1>1. Live(n) = Live(m)
  BY DEF Live
<1>2. LiveChunks(n) = LiveChunks(m)
  BY <1>1, Zenon DEF LiveChunks
<1>3. Marked(n)
  <2>1. MarkedBy(m, LiveChunks(m))
    BY MarkedIsMarkedBy DEF Indexed
  <2>2. MarkedBy(n, LiveChunks(n))
    BY <1>2, <2>1 DEF MarkedBy
  <2> QED
    BY <2>2, MarkedIsMarkedBy
<1>4. \A lte \in BOOLEAN : Bound(n, lte) = Bound(m, lte)
  BY DEF Bound
<1>5. Bounded(n)
  BY <1>1, <1>4 DEF Indexed, Bounded
<1> QED
  BY <1>1, <1>3, <1>5 DEF Indexed

\* What update_tick_liquidity stores in the tick.
NewOut(info, gross, place, current, global) ==
    IF info.gross = 0 /\ gross > 0 /\ place <= current THEN global
    ELSE IF info.gross > 0 /\ gross = 0 THEN NoGrowth
    ELSE info.out
NewInfo(info, delta, isUpper, place, current, global) ==
    [gross |-> info.gross + delta, out |-> NewOut(info, info.gross + delta, place, current, global),
     net |-> IF isUpper THEN info.net - delta ELSE info.net + delta]

LEMMA GrowthZero == NoGrowth \in [Tokens -> Growth] /\ 0 \in Growth
BY Constants DEF NoGrowth, Growth

\* update_tick_liquidity stores the tick and keeps the index right.
LEMMA UpdateTick ==
    ASSUME NEW m \in MapType, Indexed(m), NEW c \in CTicks, Usable(c),
           NEW delta \in Int, m.tick[c].gross + delta \in Nat, NEW isUpper \in BOOLEAN,
           NEW current, NEW global \in [Tokens -> Growth]
    PROVE  LET t == c * TickSpacing
               R == UpdateTickLiquidity(m, t, delta, isUpper, current, global)
           IN /\ R \in MapType /\ Indexed(R)
              /\ R.tick = [m.tick EXCEPT ![c] = NewInfo(@, delta, isUpper, t, current, global)]
<1> DEFINE place == c * TickSpacing
           old == m.tick[c]
           gross == old.gross + delta
           info == NewInfo(old, delta, isUpper, place, current, global)
           stored == [m EXCEPT !.tick[c] = info]
           R == UpdateTickLiquidity(m, place, delta, isUpper, current, global)
           ticks == [m.tick EXCEPT ![c] = info]
<1>1. c \in Int /\ CompressTick(place) = c
  BY CTicksBounded, UsableTick
<1>2. R = IF (old.gross > 0) # (gross > 0) THEN Reindex(stored, place) ELSE stored
  BY <1>1, Zenon DEF UpdateTickLiquidity, NewInfo, NewOut
<1>3. info \in TickInfo /\ info.gross = gross
  <2>1. old \in TickInfo
    BY DEF MapType
  <2>2. NewOut(old, gross, place, current, global) \in [Tokens -> Growth]
    BY <2>1, GrowthZero DEF NewOut, TickInfo
  <2>3. gross \in Nat /\ old.net \in Int
    BY <2>1 DEF TickInfo
  <2> HIDE DEF old
  <2> QED
    BY <2>2, <2>3 DEF NewInfo, TickInfo
<1> HIDE DEF info
<1>4. /\ stored \in MapType /\ stored.tick = ticks
      /\ stored.words = m.words /\ stored.l2 = m.l2 /\ stored.min = m.min /\ stored.max = m.max
  BY <1>3 DEF MapType
<1>5. ticks[c] = info /\ \A d \in CTicks : d # c => ticks[d] = m.tick[d]
  BY DEF MapType
<1> HIDE DEF stored, ticks
<1>6. CASE (old.gross > 0) # (gross > 0)
  <2>1. R = Reindex(stored, place)
    BY <1>2, <1>6
  <2>2. (old.gross > 0) # (stored.tick[c].gross > 0)
    <3> HIDE DEF old, gross
    <3> QED BY <1>3, <1>4, <1>5, <1>6
  <2>3. \A d \in CTicks : d # c => m.tick[d] = stored.tick[d]
    BY <1>4, <1>5
  <2>4. R \in MapType /\ R.tick = stored.tick /\ Indexed(R)
    <3> HIDE DEF R
    <3> QED BY <1>4, <2>1, <2>2, <2>3, ReindexKeeps
  <2> HIDE DEF R
  <2> QED
    BY <1>4, <2>4 DEF R, ticks, info
<1>7. CASE (old.gross > 0) = (gross > 0)
  <2>1. R = stored
    BY <1>2, <1>7
  <2>2. \A d \in CTicks : (stored.tick[d].gross > 0) = (m.tick[d].gross > 0)
    <3>1. (stored.tick[c].gross > 0) = (old.gross > 0)
      <4> HIDE DEF old, gross
      <4> QED BY <1>3, <1>4, <1>5, <1>7
    <3> QED
      BY <1>4, <1>5, <3>1
  <2>3. Indexed(stored)
    BY <1>4, <2>2, SameLive
  <2> HIDE DEF R
  <2> QED
    BY <1>4, <2>1, <2>3 DEF R, ticks, info
<1> QED
  BY <1>6, <1>7

\* The ends of a range are usable ticks.
LEMMA EndUsable ==
    ASSUME NEW r \in Ranges, NEW i \in {1, 2}
    PROVE  /\ CompressTick(r[i]) \in CTicks /\ Usable(CompressTick(r[i]))
           /\ r[i] = CompressTick(r[i]) * TickSpacing
           /\ r[i] \in MinTick..MaxTick /\ r[i] \in Int /\ r[1] < r[2]
<1> DEFINE t == r[i]
           c == CompressTick(t)
<1>1. \A d \in CTicks : CompressedToTick(d) \in MinTick..MaxTick
  BY CTicksBounded, TickClamped
<1>2. r[1] \in MinTick..MaxTick /\ r[2] \in MinTick..MaxTick /\ CheckTicks(r[1], r[2])
  BY <1>1 DEF Ranges
<1>3. t \in MinTick..MaxTick /\ t \in Int /\ t % TickSpacing = 0 /\ r[1] < r[2]
  BY <1>2, Constants DEF CheckTicks
<1>4. c \in CTicks /\ c \in Int
  BY <1>3, TickAddressed
<1>5. t = c * TickSpacing
  <2>1. t = (t \div TickSpacing) * TickSpacing + (t % TickSpacing)
    BY <1>3, Parts, Constants
  <2>2. c * TickSpacing \in Int
    BY <1>4, Constants
  <2> HIDE DEF t
  <2> QED
    BY <1>3, <2>1, <2>2 DEF CompressTick
<1>6. t # MinTick /\ t # MaxTick
  BY <1>3, SearchAssumption DEF SearchAssumption
<1>7. Usable(c)
  <2> HIDE DEF t
  <2> QED BY <1>3, <1>5, <1>6, Constants DEF Usable
<1> HIDE DEF c, t
<1> QED
  BY <1>3, <1>4, <1>5, <1>7 DEF c, t

LEMMA EmptyIndexed == EmptyTickMap \in MapType /\ Indexed(EmptyTickMap) /\ Live(EmptyTickMap) = {}
<1> DEFINE m == EmptyTickMap
<1>1. \A c \in CTicks : m.tick[c].gross = 0
  BY DEF EmptyTickMap
<1>2. Live(m) = {}
  BY <1>1 DEF Live
<1>3. LiveChunks(m) = {} /\ WordsOf({}) = {}
  BY <1>2 DEF LiveChunks, WordsOf
<1>4. \A w : BitsOf({}, w) = {}
  BY DEF BitsOf
<1>5. /\ \A w \in Words : m.words[w] = {}
      /\ \A w \in L2Words : m.l2[w] = {}
      /\ m.min = MaxTick /\ m.max = MinTick
  BY DEF EmptyTickMap
<1>6. MarkedBy(m, LiveChunks(m))
  BY <1>3, <1>4, <1>5 DEF MarkedBy
<1>7. Bounded(m)
  BY <1>2, <1>5 DEF Bounded, Bound, Sentinel
<1>8. m \in MapType
  BY GrowthZero, Constants DEF EmptyTickMap, MapType, TickInfo
<1> QED
  BY <1>2, <1>6, <1>7, <1>8, MarkedIsMarkedBy DEF Indexed

-----------------------------------------------------------------------------
(* The constants                                                           *)

LEMMA Sizes ==
    /\ TickSpacing \in Nat \ {0} /\ MinTick \in Int /\ MaxTick \in Int
    /\ MinTick < 0 /\ 0 < MaxTick /\ 0 \in MinTick..MaxTick
    /\ Q \in Nat \ {0} /\ GrowthScale \in Nat \ {0} /\ FeeDenominator \in Nat \ {0}
    /\ MaxDistance \in Nat \ {0} /\ BpsDenominator \in Nat \ {0}
    /\ GrowthModulus \in Nat \ {0} /\ Fee \in Nat /\ FeeDenominator - Fee \in Nat \ {0}
    /\ MaxRounds \in Nat
<1>1. /\ Q \in Nat \ {0} /\ GrowthScale \in Nat \ {0} /\ FeeDenominator \in Nat \ {0}
      /\ MaxDistance \in Nat \ {0} /\ BpsDenominator \in Nat \ {0}
      /\ Fee \in 0..(FeeDenominator - 1) /\ MaxRounds \in Nat
  BY ConcentratedAssumption
<1> QED
  BY <1>1, Constants

LEMMA PriceNat ==
    ASSUME NEW t \in MinTick..MaxTick
    PROVE  SqrtRatio[t] \in Nat \ {0} /\ SqrtRatio[t] \in Int /\ SqrtRatio[t] > 0
BY ConcentratedAssumption

\* sqrt_ratio_at_tick rises with the tick.
LEMMA PriceRises ==
    ASSUME NEW a \in MinTick..MaxTick, NEW b \in MinTick..MaxTick
    PROVE  /\ a < b => SqrtRatio[a] < SqrtRatio[b]
           /\ a <= b => SqrtRatio[a] <= SqrtRatio[b]
<1> DEFINE Up(n) == a + n <= MaxTick => SqrtRatio[a] <= SqrtRatio[a + n]
                                        /\ (n > 0 => SqrtRatio[a] < SqrtRatio[a + n])
           T == {n \in Nat : Up(n)}
<1>1. 0 \in T
  BY PriceNat, Sizes
<1>2. ASSUME NEW n \in T PROVE n + 1 \in T
  <2> SUFFICES ASSUME a + (n + 1) <= MaxTick PROVE SqrtRatio[a] < SqrtRatio[a + (n + 1)]
    <3>1. SqrtRatio[a] < SqrtRatio[a + (n + 1)] => SqrtRatio[a] <= SqrtRatio[a + (n + 1)]
          \/ a + (n + 1) > MaxTick
      <4>1. CASE a + (n + 1) \in MinTick..MaxTick
        <5>1. SqrtRatio[a] \in Nat /\ SqrtRatio[a + (n + 1)] \in Nat
          BY <4>1, PriceNat
        <5> QED
          BY <5>1
      <4>2. CASE a + (n + 1) \notin MinTick..MaxTick
        BY <4>2, Sizes
      <4> QED
        BY <4>1, <4>2
    <3> QED
      BY <3>1, Sizes
  <2>1. /\ n \in Nat /\ a + n \in MinTick..(MaxTick - 1) /\ a + n \in MinTick..MaxTick
        /\ (a + n) + 1 \in MinTick..MaxTick /\ (a + n) + 1 = a + (n + 1)
    BY Sizes
  <2>2. /\ SqrtRatio[a] \in Nat /\ SqrtRatio[a + n] \in Nat /\ SqrtRatio[a + (n + 1)] \in Nat
    BY <2>1, PriceNat
  <2>3. SqrtRatio[a] <= SqrtRatio[a + n]
    BY <2>1
  <2>4. SqrtRatio[a + n] < SqrtRatio[(a + n) + 1]
    BY <2>1, ConcentratedAssumption
  <2> QED
    BY <2>1, <2>2, <2>3, <2>4
<1>3. T = Nat
  <2> HIDE DEF T
  <2>1. T \in SUBSET Nat
    BY DEF T
  <2> QED
    BY <1>1, <1>2, <2>1, NatSetInduction
<1>4. ASSUME a <= b PROVE Up(b - a)
  <2>1. b - a \in Nat
    BY <1>4, Sizes
  <2> QED
    BY <1>3, <2>1
<1>5. a + (b - a) = b /\ b <= MaxTick
  BY Sizes
<1>6. a <= b => SqrtRatio[a] <= SqrtRatio[b] /\ (b - a > 0 => SqrtRatio[a] < SqrtRatio[b])
  BY <1>4, <1>5
<1>7. a \in Int /\ b \in Int
  BY Sizes
<1> QED
  BY <1>6, <1>7

\* And so tells the order of the ticks.
LEMMA PriceOrders ==
    ASSUME NEW a \in MinTick..MaxTick, NEW b \in MinTick..MaxTick
    PROVE  /\ SqrtRatio[a] < SqrtRatio[b] => a < b
           /\ SqrtRatio[a] <= SqrtRatio[b] => a <= b
<1>1. a \in Int /\ b \in Int /\ SqrtRatio[a] \in Int /\ SqrtRatio[b] \in Int
  BY Sizes, PriceNat
<1>2. /\ b <= a => SqrtRatio[b] <= SqrtRatio[a]
      /\ b < a => SqrtRatio[b] < SqrtRatio[a]
  BY PriceRises
<1> QED
  BY <1>1, <1>2

Prices == SqrtRatio[MinTick]..SqrtRatio[MaxTick]

\* The prices of ticks are within the table.
LEMMA PriceRange ==
    /\ SqrtRatio[MinTick] \in Nat \ {0} /\ SqrtRatio[MaxTick] \in Nat \ {0}
    /\ SqrtRatio[MinTick] < SqrtRatio[MaxTick]
    /\ \A t \in MinTick..MaxTick : SqrtRatio[t] \in Prices
    /\ \A p \in Prices : p \in Nat \ {0}
<1>1. MinTick \in MinTick..MaxTick /\ MaxTick \in MinTick..MaxTick
  BY Sizes
<1>2. /\ SqrtRatio[MinTick] \in Nat \ {0} /\ SqrtRatio[MaxTick] \in Nat \ {0}
  BY <1>1, PriceNat
<1>3. SqrtRatio[MinTick] < SqrtRatio[MaxTick]
  BY <1>1, PriceRises, Sizes
<1>4. ASSUME NEW t \in MinTick..MaxTick PROVE SqrtRatio[t] \in Prices
  <2>1. MinTick <= t /\ t <= MaxTick /\ SqrtRatio[t] \in Nat
    BY PriceNat, Sizes
  <2>2. SqrtRatio[MinTick] <= SqrtRatio[t] /\ SqrtRatio[t] <= SqrtRatio[MaxTick]
    BY <1>1, <2>1, PriceRises
  <2> QED
    BY <1>2, <2>1, <2>2 DEF Prices
<1> QED
  BY <1>2, <1>3, <1>4 DEF Prices

\* tick_at_sqrt_ratio is the tick whose step the price is on.
LEMMA TickAtFacts ==
    ASSUME NEW p \in Prices
    PROVE  /\ TickAt(p) \in MinTick..MaxTick
           /\ SqrtRatio[TickAt(p)] <= p
           /\ TickAt(p) < MaxTick => p < SqrtRatio[TickAt(p) + 1]
<1> DEFINE S == {t \in MinTick..MaxTick : SqrtRatio[t] <= p}
<1>1. MinTick \in S /\ S \in SUBSET (MinTick..MaxTick) /\ p \in Int
  BY Sizes, PriceRange DEF Prices
<1>2. \E t \in S : \A y \in S : Within(y, t, TRUE)
  <2> HIDE DEF S
  <2> QED BY <1>1, ExtremeExists, Sizes
<1>3. PICK t \in S : \A y \in S : y <= t
  BY <1>2 DEF Within
<1>4. t < MaxTick => p < SqrtRatio[t + 1]
  <2> SUFFICES ASSUME t < MaxTick PROVE p < SqrtRatio[t + 1]
    OBVIOUS
  <2>1. t + 1 \in MinTick..MaxTick /\ t \in Int
    BY Sizes
  <2>2. t + 1 \notin S
    BY <1>3, <2>1
  <2>3. SqrtRatio[t + 1] \in Int
    BY <2>1, PriceNat
  <2> QED
    BY <1>1, <2>1, <2>2, <2>3
<1>5. \E x \in MinTick..MaxTick : SqrtRatio[x] <= p /\ (x < MaxTick => p < SqrtRatio[x + 1])
  BY <1>3, <1>4
<1> QED
  BY <1>5, Zenon DEF TickAt

-----------------------------------------------------------------------------
(* Amounts                                                                 *)

LEMMA DivideNat ==
    ASSUME NEW x \in Nat, NEW y \in Nat \ {0}, NEW roundUp \in BOOLEAN
    PROVE  Divide(x, y, roundUp) \in Nat /\ CeilDiv(x, y) \in Nat
<1>1. x \div y \in Nat /\ (x + y - 1) \div y \in Nat
  BY DivFacts, CeilFacts
<1> QED
  BY <1>1 DEF Divide, CeilDiv

\* A quotient rounded up is at most what covers the dividend, and a quotient of
\* enough is at least that.
LEMMA CeilAtMost ==
    ASSUME NEW x \in Nat, NEW y \in Nat \ {0}, NEW z \in Nat, x <= z * y
    PROVE  CeilDiv(x, y) <= z
<1> DEFINE q == (x + y - 1) \div y
<1>1. x + y - 1 \in Nat
  OBVIOUS
<1>2. q \in Nat /\ q * y <= x + y - 1
  BY <1>1, DivFacts
<1> HIDE DEF q
<1>3. ASSUME q >= z + 1 PROVE FALSE
  <2>1. (z + 1) * y <= q * y
    BY <1>2, <1>3, MulMono
  <2>2. (z + 1) * y = z * y + y /\ z * y \in Nat /\ q * y \in Nat
    BY <1>2
  <2> QED
    BY <1>2, <2>1, <2>2
<1>4. q <= z
  BY <1>2, <1>3
<1> QED
  BY <1>4 DEF q, CeilDiv

\* A quotient rounded up is at least the quotient.
LEMMA CeilAtLeast ==
    ASSUME NEW x \in Nat, NEW y \in Nat \ {0}, NEW z \in Nat, z * y <= x
    PROVE  z <= CeilDiv(x, y)
<1> DEFINE q == (x + y - 1) \div y
<1>1. q \in Nat /\ q * y >= x
  BY CeilFacts
<1> HIDE DEF q
<1>2. y * z <= y * q
  <2>1. y * z = z * y /\ y * q = q * y /\ z * y \in Nat /\ q * y \in Nat
    BY <1>1
  <2> QED
    BY <1>1, <2>1
<1>3. z <= q
  BY <1>1, <1>2, MulCancel
<1> QED
  BY <1>3 DEF q, CeilDiv

LEMMA OrderOf ==
    ASSUME NEW a \in Int, NEW b \in Int
    PROVE  /\ MinOf(a, b) \in {a, b} /\ MaxOf(a, b) \in {a, b}
           /\ MinOf(a, b) <= a /\ MinOf(a, b) <= b
           /\ MaxOf(a, b) >= a /\ MaxOf(a, b) >= b
           /\ MinOf(a, b) \in Int /\ MaxOf(a, b) \in Int
           /\ a <= b => MinOf(a, b) = a /\ MaxOf(a, b) = b
           /\ b <= a => MinOf(a, b) = b /\ MaxOf(a, b) = a
BY DEF MinOf, MaxOf

LEMMA AmountNat ==
    ASSUME NEW a \in Nat \ {0}, NEW b \in Nat \ {0}, NEW l \in Nat, NEW roundUp \in BOOLEAN
    PROVE  Amount0(a, b, l, roundUp) \in Nat /\ Amount1(a, b, l, roundUp) \in Nat
<1> DEFINE lo == MinOf(a, b)
           hi == MaxOf(a, b)
           part == Divide(l * Q * (hi - lo), hi, roundUp)
<1>1. lo \in Nat \ {0} /\ hi \in Nat \ {0} /\ hi - lo \in Nat
  BY DEF MinOf, MaxOf
<1>2. Amount0(a, b, l, roundUp) = Divide(part, lo, roundUp)
      /\ Amount1(a, b, l, roundUp) = Divide(l * (hi - lo), Q, roundUp)
  BY DEF Amount0, Amount1
<1> HIDE DEF lo, hi
<1>3. l * Q * (hi - lo) \in Nat /\ l * (hi - lo) \in Nat
  BY <1>1, Sizes, MulNat
<1>4. part \in Nat
  BY <1>1, <1>3, DivideNat
<1> HIDE DEF part
<1> QED
  BY <1>1, <1>2, <1>3, <1>4, DivideNat, Sizes

\* The price after an input does not go back, nor beyond 0.
LEMMA NextFromInputFacts ==
    ASSUME NEW p \in Nat \ {0}, NEW l \in Nat \ {0}, NEW n \in Nat
    PROVE  /\ NextFromInput(p, l, n, TRUE) \in Nat
           /\ NextFromInput(p, l, n, TRUE) <= p
           /\ NextFromInput(p, l, n, FALSE) \in Nat
           /\ NextFromInput(p, l, n, FALSE) >= p
<1> DEFINE a == l * Q * p
           b == l * Q + n * p
<1>1. a \in Nat /\ b \in Nat \ {0} /\ a <= p * b
  <2>1. l * Q \in Nat \ {0} /\ n * p \in Nat
    BY Sizes
  <2> DEFINE x == l * Q
             y == n * p
  <2>2. x \in Nat \ {0} /\ y \in Nat
    BY <2>1
  <2> HIDE DEF x, y
  <2>3. x * p <= p * (x + y) /\ x * p \in Nat /\ x + y \in Nat \ {0}
    BY <2>2
  <2> QED
    BY <2>3 DEF x, y
<1>2. NextFromInput(p, l, n, TRUE) = IF n = 0 THEN p ELSE CeilDiv(a, b)
  BY DEF NextFromInput, NextFrom0
<1>3. NextFromInput(p, l, n, FALSE) = p + (n * Q) \div l
  BY DEF NextFromInput, NextFrom1
<1> HIDE DEF a, b
<1>4. CeilDiv(a, b) \in Nat /\ CeilDiv(a, b) <= p
  BY <1>1, DivideNat, CeilAtMost
<1>5. n * Q \in Nat
  BY Sizes
<1>6. (n * Q) \div l \in Nat
  BY <1>5, DivFacts
<1> DEFINE x == NextFromInput(p, l, n, TRUE)
           y == NextFromInput(p, l, n, FALSE)
           c == CeilDiv(a, b)
           d == (n * Q) \div l
<1>7. (x = IF n = 0 THEN p ELSE c) /\ y = p + d /\ c \in Nat /\ c <= p /\ d \in Nat
  BY <1>2, <1>3, <1>4, <1>6, Zenon
<1> HIDE DEF x, y, c, d
<1>8. x \in Nat /\ x <= p /\ y \in Nat /\ y >= p
  BY <1>7
<1> QED
  BY <1>8 DEF x, y

\* The price that an exact output leads to lies ahead, or the step fails.
LEMMA NextFromOutputFacts ==
    ASSUME NEW p \in Nat \ {0}, NEW l \in Nat \ {0}, NEW n \in Nat
    PROVE  /\ NextFromOutput(p, l, n, TRUE) \in Nat \cup {Fail}
           /\ NextFromOutput(p, l, n, TRUE) <= p
           /\ NextFromOutput(p, l, n, FALSE) \in Nat \cup {Fail}
           /\ NextFromOutput(p, l, n, FALSE) # Fail => NextFromOutput(p, l, n, FALSE) >= p
<1> DEFINE q == CeilDiv(n * Q, l)
           x == l * Q
           y == n * p
<1>1. n * Q \in Nat /\ x \in Nat \ {0} /\ y \in Nat
  BY Sizes
<1>2. q \in Nat
  BY <1>1, DivideNat
<1>3. NextFromOutput(p, l, n, TRUE) = IF p <= q THEN Fail ELSE p - q
  BY DEF NextFromOutput, NextFrom1
<1>4. NextFromOutput(p, l, n, FALSE)
        = IF n = 0 THEN p ELSE IF x <= y THEN Fail ELSE CeilDiv(x * p, x - y)
  BY DEF NextFromOutput, NextFrom0
<1> HIDE DEF q, x, y
<1>5. ASSUME ~(x <= y) PROVE CeilDiv(x * p, x - y) \in Nat /\ p <= CeilDiv(x * p, x - y)
  <2>1. x * p \in Nat /\ x - y \in Nat \ {0} /\ p * (x - y) <= x * p
    BY <1>1, <1>5
  <2> QED
    BY <2>1, DivideNat, CeilAtLeast
<1> DEFINE v == NextFromOutput(p, l, n, TRUE)
           w == NextFromOutput(p, l, n, FALSE)
           c == CeilDiv(x * p, x - y)
<1>6. /\ v = IF p <= q THEN Fail ELSE p - q
      /\ w = IF n = 0 THEN p ELSE IF x <= y THEN Fail ELSE c
      /\ ~(x <= y) => c \in Nat /\ p <= c
  BY <1>3, <1>4, <1>5, Zenon
<1> HIDE DEF v, w, c
<1>7. /\ v \in Nat \cup {Fail} /\ v <= p
      /\ w \in Nat \cup {Fail} /\ (w # Fail => w >= p)
  BY <1>1, <1>2, <1>6 DEF Fail
<1> QED
  BY <1>7 DEF v, w

\* The fee on top of what a step needs.
LEMMA FeeOnTopNat ==
    ASSUME NEW n \in Nat
    PROVE  FeeOnTop(n) \in Nat
<1>1. n * Fee \in Nat /\ FeeDenominator - Fee \in Nat \ {0}
  BY Sizes
<1> HIDE DEF FeeOnTop
<1>2. CeilDiv(n * Fee, FeeDenominator - Fee) \in Nat
  BY <1>1, DivideNat
<1> QED
  BY <1>2 DEF FeeOnTop

\* The target of a step from p is in the direction of the swap.
Facing(p, target, down) == IF down THEN target <= p ELSE p <= target

\* Where a step of a swap from p leads: to the target at most.
StepBounds(x, p, target, down) ==
    IF down THEN target <= x /\ x <= p ELSE p <= x /\ x <= target

\* One step of a swap ends between the price it began at and its target, or
\* fails.
LEMMA SwapStepFacts ==
    ASSUME NEW p \in Nat \ {0}, NEW target \in Nat \ {0}, NEW l \in Nat, NEW left \in Nat,
           NEW down \in BOOLEAN, NEW exactIn \in BOOLEAN,
           Facing(p, target, down),
           NEW step, step = SwapStep(p, target, l, left, down, exactIn)
    PROVE  /\ step.in \in Nat /\ step.out \in Nat /\ step.fee \in Nat
           /\ step.next # Fail =>
                 step.next \in Nat \ {0} /\ StepBounds(step.next, p, target, down)
<1>0. IF down THEN target <= p ELSE p <= target
  BY DEF Facing
<1> DEFINE net == (left * (FeeDenominator - Fee)) \div FeeDenominator
           in(q)  == IF down THEN Amount0(q, p, l, TRUE) ELSE Amount1(p, q, l, TRUE)
           out(q) == IF down THEN Amount1(q, p, l, FALSE) ELSE Amount0(p, q, l, FALSE)
           reached == IF exactIn THEN net >= in(target) ELSE left >= out(target)
           far == IF exactIn THEN NextFromInput(p, l, net, down)
                  ELSE NextFromOutput(p, l, left, down)
           next == IF reached THEN target
                   ELSE IF far = Fail THEN Fail
                   ELSE IF down THEN MaxOf(far, target) ELSE MinOf(far, target)
           fee == IF exactIn /\ next # target THEN MaxOf(0, left - in(next))
                  ELSE FeeOnTop(in(next))
           given == IF exactIn THEN out(next) ELSE MinOf(out(next), left)
<1>1. step = IF l = 0 THEN [next |-> target, in |-> 0, out |-> 0, fee |-> 0]
             ELSE IF next = Fail THEN [next |-> Fail, in |-> 0, out |-> 0, fee |-> 0]
             ELSE [next |-> next, in |-> in(next), out |-> given, fee |-> fee]
  BY Zenon DEF SwapStep
<1>2. ASSUME l = 0 PROVE step = [next |-> target, in |-> 0, out |-> 0, fee |-> 0]
  <2> HIDE DEF next, given, fee, in
  <2> QED BY <1>1, <1>2
<1>3. ASSUME l # 0, next = Fail PROVE step = [next |-> Fail, in |-> 0, out |-> 0, fee |-> 0]
  <2> HIDE DEF next, given, fee, in
  <2> QED BY <1>1, <1>3
<1>4. ASSUME l # 0, next # Fail
      PROVE  step = [next |-> next, in |-> in(next), out |-> given, fee |-> fee]
  <2> HIDE DEF next, given, fee, in
  <2> QED BY <1>1, <1>4
<1>5. ASSUME l # 0 PROVE net \in Nat
  <2>1. left * (FeeDenominator - Fee) \in Nat
    BY Sizes
  <2> QED
    BY <2>1, DivFacts, Sizes
<1>6. ASSUME NEW q \in Nat \ {0} PROVE in(q) \in Nat /\ out(q) \in Nat
  <2>1. Amount0(q, p, l, TRUE) \in Nat /\ Amount1(p, q, l, TRUE) \in Nat
        /\ Amount1(q, p, l, FALSE) \in Nat /\ Amount0(p, q, l, FALSE) \in Nat
    BY AmountNat
  <2> QED
    BY <2>1
<1>7. ASSUME l # 0, next # Fail
      PROVE  next \in Nat \ {0} /\ StepBounds(next, p, target, down)
  <2>1. CASE reached
    <3>1. next = target
      BY <2>1
    <3> HIDE DEF next
    <3> QED
      BY <1>0, <3>1 DEF StepBounds
  <2>2. CASE ~reached
    <3>1. far # Fail /\ next = IF down THEN MaxOf(far, target) ELSE MinOf(far, target)
      <4> HIDE DEF reached, far
      <4> QED BY <1>7, <2>2
    <3>2. far \in Nat \cup {Fail} /\ (far # Fail => IF down THEN far <= p ELSE far >= p)
      <4>1. l \in Nat \ {0} /\ net \in Nat
        BY <1>5, <1>7
      <4> HIDE DEF net
      <4>2. /\ NextFromInput(p, l, net, TRUE) \in Nat
            /\ NextFromInput(p, l, net, TRUE) <= p
            /\ NextFromInput(p, l, net, FALSE) \in Nat
            /\ NextFromInput(p, l, net, FALSE) >= p
        BY <4>1, NextFromInputFacts
      <4>3. /\ NextFromOutput(p, l, left, TRUE) \in Nat \cup {Fail}
            /\ NextFromOutput(p, l, left, TRUE) <= p
            /\ NextFromOutput(p, l, left, FALSE) \in Nat \cup {Fail}
            /\ NextFromOutput(p, l, left, FALSE) # Fail => NextFromOutput(p, l, left, FALSE) >= p
        BY <4>1, NextFromOutputFacts
      <4>4. CASE down = TRUE /\ exactIn = TRUE
        <5>1. far = NextFromInput(p, l, net, TRUE)
          BY <4>4
        <5> QED
          BY <4>2, <4>4, <5>1, Zenon
      <4>5. CASE down = FALSE /\ exactIn = TRUE
        <5>1. far = NextFromInput(p, l, net, FALSE)
          BY <4>5
        <5> QED
          BY <4>2, <4>5, <5>1, Zenon
      <4>6. CASE down = TRUE /\ exactIn = FALSE
        <5>1. far = NextFromOutput(p, l, left, TRUE)
          BY <4>6
        <5> QED
          BY <4>3, <4>6, <5>1, Zenon
      <4>7. CASE down = FALSE /\ exactIn = FALSE
        <5>1. far = NextFromOutput(p, l, left, FALSE)
          BY <4>7
        <5> QED
          BY <4>3, <4>7, <5>1, Zenon
      <4> QED
        BY <4>4, <4>5, <4>6, <4>7, Zenon
    <3> HIDE DEF far, next, reached
    <3>3. far \in Int
      BY <3>1, <3>2
    <3>4. CASE down = TRUE
      <4>1. next = MaxOf(far, target)
        BY <3>1, <3>4
      <4>2. far <= p /\ target <= p
        BY <1>0, <3>1, <3>2, <3>4
      <4>3. /\ MaxOf(far, target) \in {far, target} /\ MaxOf(far, target) >= target
            /\ far \in Int /\ target \in Int
        BY <3>3 DEF MaxOf
      <4>4. next \in Int /\ next <= p /\ next >= target
        BY <4>1, <4>2, <4>3
      <4> QED
        BY <3>4, <4>4 DEF StepBounds
    <3>5. CASE down = FALSE
      <4>1. next = MinOf(far, target)
        BY <3>1, <3>5
      <4>2. far >= p /\ p <= target
        BY <1>0, <3>1, <3>2, <3>5
      <4>3. /\ MinOf(far, target) \in {far, target} /\ MinOf(far, target) <= target
            /\ far \in Int /\ target \in Int
        BY <3>3 DEF MinOf
      <4>4. next \in Int /\ next >= p /\ next <= target
        BY <4>1, <4>2, <4>3
      <4> QED
        BY <3>5, <4>4 DEF StepBounds
    <3> QED
      BY <3>4, <3>5
  <2> QED
    BY <2>1, <2>2
<1>8. ASSUME l # 0, next # Fail PROVE in(next) \in Nat /\ given \in Nat /\ fee \in Nat
  <2>1. next \in Nat \ {0}
    BY <1>7, <1>8
  <2> HIDE DEF next
  <2>2. in(next) \in Nat /\ out(next) \in Nat
    BY <1>6, <2>1
  <2> HIDE DEF in, out
  <2>3. FeeOnTop(in(next)) \in Nat
    BY <2>2, FeeOnTopNat
  <2>4. MinOf(out(next), left) \in Nat /\ MaxOf(0, left - in(next)) \in Nat
    BY <2>2 DEF MinOf, MaxOf
  <2> QED
    BY <2>2, <2>3, <2>4
<1> HIDE DEF next, in, given, fee
<1>9. /\ step.in \in Nat /\ step.out \in Nat /\ step.fee \in Nat
      /\ step.next # Fail =>
            step.next \in Nat \ {0} /\ StepBounds(step.next, p, target, down)
  <2>1. CASE l = 0
    <3>1. StepBounds(target, p, target, down)
      BY <1>0 DEF StepBounds
    <3> QED
      BY <1>2, <2>1, <3>1
  <2>2. CASE l # 0 /\ next = Fail
    BY <1>3, <2>2
  <2>3. CASE l # 0 /\ next # Fail
    BY <1>4, <1>7, <1>8, <2>3
  <2> QED
    BY <2>1, <2>2, <2>3
<1> QED
  BY <1>9

-----------------------------------------------------------------------------
(* The liquidity of the positions                                          *)

Places == Users \X UsedRanges
Positions == [Users -> [UsedRanges -> Position]]

\* What the positions in S hold.
HeldAt(p, S) == [x \in Places |-> IF x \in S THEN p[x[1]][x[2]].liq ELSE 0]
Held(p, S) == SumFunctionOnSet(HeldAt(p, S), Places)

LEMMA PlacesFinite == IsFiniteSet(UsedRanges) /\ IsFiniteSet(Places)
<1> DEFINE Ends == {CompressedToTick(c) : c \in CTicks}
<1>1. IsFiniteSet(Ends)
  <2>1. Ends \in SUBSET (MinTick..MaxTick)
    <3>1. \A c \in CTicks : CompressedToTick(c) \in MinTick..MaxTick
      BY CTicksBounded, TickClamped
    <3> QED
      BY <3>1
  <2>2. IsFiniteSet(MinTick..MaxTick)
    BY FS_Interval, Sizes
  <2> QED
    BY <2>1, <2>2, FS_Subset
<1>2. UsedRanges \in SUBSET (Ends \X Ends)
  BY ConcentratedAssumption DEF Ranges
<1> HIDE DEF Ends
<1>3. IsFiniteSet(UsedRanges)
  BY <1>1, <1>2, FS_Product, FS_Subset
<1> QED
  BY <1>3, FS_Product, UsersAssumption DEF Places

\* What is held is a natural number, if positions are.
LEMMA HeldType ==
    ASSUME NEW p \in Positions, NEW S
    PROVE  /\ HeldAt(p, S) \in [Places -> Nat] /\ HeldAt(p, S) \in [Places -> Int]
           /\ Held(p, S) \in Nat
<1>1. ASSUME NEW x \in Places
      PROVE  (IF x \in S THEN p[x[1]][x[2]].liq ELSE 0) \in Nat
  <2>1. x[1] \in Users /\ x[2] \in UsedRanges
    BY DEF Places
  <2> QED
    BY <2>1 DEF Positions, Position
<1>2. HeldAt(p, S) \in [Places -> Nat] /\ HeldAt(p, S) \in [Places -> Int]
  BY <1>1 DEF HeldAt
<1> QED
  BY <1>2, SumNat, PlacesFinite DEF Held

\* A position that changes, changes what each set of positions with it holds.
LEMMA HeldMoves ==
    ASSUME NEW p \in Positions, NEW q \in Positions, NEW u \in Users, NEW r \in UsedRanges,
           \A x \in Places : x # <<u, r>> => q[x[1]][x[2]].liq = p[x[1]][x[2]].liq,
           NEW delta \in Int, q[u][r].liq = p[u][r].liq + delta, NEW S
    PROVE  Held(q, S) = Held(p, S) + (IF <<u, r>> \in S THEN delta ELSE 0)
<1> DEFINE z == <<u, r>>
           f == HeldAt(p, S)
           g == HeldAt(q, S)
<1>1. z \in Places /\ z[1] = u /\ z[2] = r
  BY DEF Places
<1>2. f \in [Places -> Int] /\ g \in [Places -> Int] /\ Held(p, S) \in Int
  BY HeldType
<1>3. \A y \in Places \ {z} : f[y] = g[y]
  BY DEF HeldAt
<1>4. g[z] - f[z] = IF z \in S THEN delta ELSE 0
  <2>1. p[u][r].liq \in Nat
    BY DEF Positions, Position
  <2>2. /\ f[z] = IF z \in S THEN p[u][r].liq ELSE 0
        /\ g[z] = IF z \in S THEN p[u][r].liq + delta ELSE 0
    BY <1>1 DEF HeldAt
  <2> QED
    BY <2>1, <2>2
<1>5. f[z] \in Int /\ g[z] \in Int
  BY <1>1, <1>2
<1> HIDE DEF f, g, z
<1>6. SumFunctionOnSet(g, Places) = SumFunctionOnSet(f, Places) + g[z] - f[z]
  BY <1>1, <1>2, <1>3, SumChange, PlacesFinite
<1>7. Held(p, S) = SumFunctionOnSet(f, Places) /\ Held(q, S) = SumFunctionOnSet(g, Places)
  BY DEF Held, f, g
<1> QED
  BY <1>2, <1>4, <1>5, <1>6, <1>7 DEF z

\* It depends only on the places that hold something.
LEMMA HeldSame ==
    ASSUME NEW p \in Positions, NEW q \in Positions, NEW S, NEW T,
           \A x \in Places : p[x[1]][x[2]].liq = q[x[1]][x[2]].liq,
           \A x \in Places : p[x[1]][x[2]].liq # 0 => (x \in S <=> x \in T)
    PROVE  Held(p, S) = Held(q, T)
<1>1. HeldAt(p, S) \in [Places -> Int] /\ HeldAt(q, T) \in [Places -> Int]
  BY HeldType
<1>2. \A x \in Places : HeldAt(p, S)[x] = HeldAt(q, T)[x]
  BY DEF HeldAt
<1>3. SumFunctionOnSet(HeldAt(p, S), Places) = SumFunctionOnSet(HeldAt(q, T), Places)
  BY <1>1, <1>2, SumSame, PlacesFinite
<1> QED
  BY <1>3 DEF Held

\* What is in two disjoint sets is the sum of what is in either.
LEMMA HeldUnion ==
    ASSUME NEW p \in Positions, NEW S, NEW T, S \cap T = {}
    PROVE  Held(p, S \cup T) = Held(p, S) + Held(p, T)
<1>1. /\ HeldAt(p, S) \in [Places -> Int] /\ HeldAt(p, T) \in [Places -> Int]
      /\ HeldAt(p, S \cup T) \in [Places -> Int]
  BY HeldType
<1>2. \A x \in Places : x \notin S \/ x \notin T
  OBVIOUS
<1>3. ASSUME NEW x \in Places
      PROVE  HeldAt(p, S \cup T)[x] = HeldAt(p, S)[x] + HeldAt(p, T)[x]
  <2>1. p[x[1]][x[2]].liq \in Nat
    BY DEF Places, Positions, Position
  <2>2. \A U : HeldAt(p, U)[x] = IF x \in U THEN p[x[1]][x[2]].liq ELSE 0
    BY DEF HeldAt
  <2> QED
    BY <1>2, <2>1, <2>2
<1> DEFINE f == HeldAt(p, S)
           w == HeldAt(p, T)
           g == HeldAt(p, S \cup T)
<1>4. /\ f \in [Places -> Int] /\ w \in [Places -> Int] /\ g \in [Places -> Int]
      /\ \A x \in Places : g[x] = f[x] + w[x]
  BY <1>1, <1>3
<1> HIDE DEF f, w, g
<1>5. SumFunctionOnSet(g, Places) = SumFunctionOnSet(f, Places) + SumFunctionOnSet(w, Places)
  BY <1>4, SumPlus, PlacesFinite
<1> QED
  BY <1>5 DEF Held, f, w, g

\* Places that hold nothing add nothing.
LEMMA HeldZero ==
    ASSUME NEW p \in Positions, NEW S, \A x \in Places : x \in S => p[x[1]][x[2]].liq = 0
    PROVE  Held(p, S) = 0
<1>1. HeldAt(p, S) \in [Places -> Int] /\ \A x \in Places : HeldAt(p, S)[x] = 0
  BY HeldType DEF HeldAt
<1>2. SumFunctionOnSet(HeldAt(p, S), Places) = 0
  BY <1>1, SumOfZeros, PlacesFinite
<1> QED
  BY <1>2 DEF Held

LEMMA HeldAtLeast ==
    ASSUME NEW p \in Positions, NEW S, NEW x \in Places, x \in S
    PROVE  p[x[1]][x[2]].liq <= Held(p, S)
<1>1. HeldAt(p, S) \in [Places -> Int] /\ \A y \in Places : HeldAt(p, S)[y] \in Nat
  BY HeldType
<1>2. HeldAt(p, S)[x] <= SumFunctionOnSet(HeldAt(p, S), Places)
  BY <1>1, SumAtLeast, PlacesFinite
<1>3. HeldAt(p, S)[x] = p[x[1]][x[2]].liq
  BY DEF HeldAt
<1> QED
  BY <1>2, <1>3 DEF Held

-----------------------------------------------------------------------------
(* Ticks and the positions that begin and end there                        *)

ActiveAt(t) == {x \in Places : Active(x[2], t)}
BeginsAt(t) == {x \in Places : x[2][1] = t}
EndsAt(t)   == {x \in Places : x[2][2] = t}

\* Every tick knows the liquidity that begins and ends there.
TicksKnow(m, p) ==
    \A c \in CTicks :
        LET t == CompressedToTick(c)
        IN /\ m.tick[c].gross = Held(p, BeginsAt(t)) + Held(p, EndsAt(t))
           /\ m.tick[c].net = Held(p, BeginsAt(t)) - Held(p, EndsAt(t))

\* A range begins below its end.
LEMMA PlaceEnds ==
    ASSUME NEW x \in Places
    PROVE  /\ x[1] \in Users /\ x[2] \in UsedRanges /\ x[2] \in Ranges
           /\ x[2][1] \in Int /\ x[2][2] \in Int /\ x[2][1] < x[2][2]
<1>1. x[1] \in Users /\ x[2] \in UsedRanges
  BY DEF Places
<1>2. x[2] \in Ranges
  BY <1>1, ConcentratedAssumption
<1> QED
  BY <1>1, <1>2, EndUsable

\* Crossing a tick adds what begins there and takes what ends there.
LEMMA HeldAcross ==
    ASSUME NEW p \in Positions, NEW t \in Int
    PROVE  Held(p, ActiveAt(t))
             = Held(p, ActiveAt(t - 1)) + (Held(p, BeginsAt(t)) - Held(p, EndsAt(t)))
<1>1. ActiveAt(t) \cap EndsAt(t) = {} /\ ActiveAt(t - 1) \cap BeginsAt(t) = {}
  BY PlaceEnds DEF ActiveAt, EndsAt, BeginsAt, Active
<1>2. ActiveAt(t) \cup EndsAt(t) = ActiveAt(t - 1) \cup BeginsAt(t)
  <2>1. ASSUME NEW x \in Places
        PROVE  x \in ActiveAt(t) \/ x \in EndsAt(t) <=> x \in ActiveAt(t - 1) \/ x \in BeginsAt(t)
    <3>1. x[2][1] \in Int /\ x[2][2] \in Int /\ x[2][1] < x[2][2]
      BY PlaceEnds
    <3> QED
      BY <3>1 DEF ActiveAt, EndsAt, BeginsAt, Active
  <2>2. /\ ActiveAt(t) \subseteq Places /\ EndsAt(t) \subseteq Places
        /\ ActiveAt(t - 1) \subseteq Places /\ BeginsAt(t) \subseteq Places
    BY DEF ActiveAt, EndsAt, BeginsAt
  <2> QED
    BY <2>1, <2>2
<1> DEFINE a == Held(p, ActiveAt(t))
           b == Held(p, ActiveAt(t - 1))
           c == Held(p, BeginsAt(t))
           d == Held(p, EndsAt(t))
<1>3. Held(p, ActiveAt(t) \cup EndsAt(t)) = a + d
  BY <1>1, HeldUnion
<1>4. Held(p, ActiveAt(t - 1) \cup BeginsAt(t)) = b + c
  BY <1>1, HeldUnion
<1>5. a \in Int /\ b \in Int /\ c \in Int /\ d \in Int
  BY HeldType
<1>6. a + d = b + c
  BY <1>2, <1>3, <1>4
<1> HIDE DEF a, b, c, d
<1>7. a = b + (c - d)
  BY <1>5, <1>6
<1> QED
  BY <1>7 DEF a, b, c, d

\* The ends of a position that holds liquidity are ticks with liquidity.
LEMMA EndsLive ==
    ASSUME NEW p \in Positions, NEW m, TicksKnow(m, p),
           NEW x \in Places, p[x[1]][x[2]].liq # 0, NEW i \in {1, 2}
    PROVE  \E d \in Live(m) : x[2][i] = d * TickSpacing
<1> DEFINE r == x[2]
           d == CompressTick(r[i])
           t == CompressedToTick(d)
<1>1. r \in Ranges /\ p[x[1]][r].liq \in Nat
  BY PlaceEnds DEF Positions, Position
<1>2. d \in CTicks /\ r[i] = d * TickSpacing /\ r[i] \in MinTick..MaxTick
  BY <1>1, EndUsable
<1>3. t = r[i]
  BY <1>2, Sizes DEF CompressedToTick, ClampTick
<1>4. m.tick[d].gross = Held(p, BeginsAt(t)) + Held(p, EndsAt(t))
  <2> HIDE DEF d
  <2> QED BY <1>2 DEF TicksKnow
<1> HIDE DEF t, d
<1>5. x \in BeginsAt(t) \/ x \in EndsAt(t)
  BY <1>3 DEF BeginsAt, EndsAt
<1>6. Held(p, BeginsAt(t)) \in Nat /\ Held(p, EndsAt(t)) \in Nat
  BY HeldType
<1>7. p[x[1]][r].liq <= Held(p, BeginsAt(t)) \/ p[x[1]][r].liq <= Held(p, EndsAt(t))
  BY <1>5, HeldAtLeast
<1>8. m.tick[d].gross > 0
  BY <1>1, <1>4, <1>6, <1>7
<1> QED
  BY <1>2, <1>8 DEF Live

\* Up to the next tick with liquidity, the same positions are in use, and
\* crossing it adds or takes its net liquidity.
LEMMA HeldUpTo ==
    ASSUME NEW p \in Positions, NEW m, TicksKnow(m, p), Indexed(m),
           NEW t \in MinTick..MaxTick, NEW lte \in BOOLEAN, NEW c \in Live(m),
           OnSide(c * TickSpacing, t, lte),
           \A d \in Live(m) : OnSide(d * TickSpacing, t, lte) =>
                Within(d * TickSpacing, c * TickSpacing, lte)
    PROVE  /\ \A s \in Int : StepBounds(s, t, IF lte THEN c * TickSpacing ELSE c * TickSpacing - 1, lte)
                  => Held(p, ActiveAt(s)) = Held(p, ActiveAt(t))
           /\ Held(p, ActiveAt(IF lte THEN c * TickSpacing - 1 ELSE c * TickSpacing))
                = Held(p, ActiveAt(t)) + IF lte THEN -m.tick[c].net ELSE m.tick[c].net
<1> DEFINE T == c * TickSpacing
           first == IF lte THEN T ELSE T - 1
<1>1. /\ c \in CTicks /\ T \in MinTick..MaxTick /\ T \in Int /\ t \in Int /\ CompressedToTick(c) = T
  <2>1. c \in CTicks /\ Usable(c) /\ c \in Int
    BY CTicksBounded DEF Indexed, Live
  <2>2. T \in Int
    BY <2>1, Sizes
  <2> QED
    BY <2>1, <2>2, Sizes DEF Usable, CompressedToTick, ClampTick
<1>2. ASSUME NEW s \in Int, StepBounds(s, t, first, lte)
      PROVE  Held(p, ActiveAt(s)) = Held(p, ActiveAt(t))
  <2>1. ASSUME NEW x \in Places, p[x[1]][x[2]].liq # 0
        PROVE  x \in ActiveAt(s) <=> x \in ActiveAt(t)
    <3> DEFINE a == x[2][1]
               b == x[2][2]
    <3>1. a \in Int /\ b \in Int
      BY PlaceEnds
    <3>2. PICK d \in Live(m) : a = d * TickSpacing
      BY <2>1, EndsLive
    <3>3. PICK e \in Live(m) : b = e * TickSpacing
      BY <2>1, EndsLive
    <3> HIDE DEF a, b, T
    <3>4. /\ OnSide(a, t, lte) => Within(a, T, lte)
          /\ OnSide(b, t, lte) => Within(b, T, lte)
      BY <3>2, <3>3 DEF T
    <3>5. OnSide(T, t, lte)
      BY DEF T
    <3>6. (a <= s /\ s < b) <=> (a <= t /\ t < b)
      <4>1. CASE lte = TRUE
        BY <1>1, <1>2, <3>1, <3>4, <3>5, <4>1 DEF OnSide, Within, StepBounds
      <4>2. CASE lte = FALSE
        BY <1>1, <1>2, <3>1, <3>4, <3>5, <4>2 DEF OnSide, Within, StepBounds
      <4> QED
        BY <4>1, <4>2
    <3> QED
      BY <3>6 DEF ActiveAt, Active, a, b
  <2> QED
    BY <2>1, HeldSame
<1>3. /\ m.tick[c].net = Held(p, BeginsAt(T)) - Held(p, EndsAt(T))
      /\ Held(p, BeginsAt(T)) \in Int /\ Held(p, EndsAt(T)) \in Int
      /\ Held(p, ActiveAt(T)) \in Int /\ Held(p, ActiveAt(T - 1)) \in Int
  BY <1>1, HeldType DEF TicksKnow
<1>4. Held(p, ActiveAt(T)) = Held(p, ActiveAt(T - 1)) + (Held(p, BeginsAt(T)) - Held(p, EndsAt(T)))
  BY <1>1, HeldAcross
<1>5. Held(p, ActiveAt(first)) = Held(p, ActiveAt(t))
  <2>1. first \in Int /\ StepBounds(first, t, first, lte)
    <3>1. OnSide(T, t, lte)
      OBVIOUS
    <3> HIDE DEF T
    <3>2. CASE lte = TRUE
      BY <1>1, <3>1, <3>2 DEF OnSide, StepBounds
    <3>3. CASE lte = FALSE
      BY <1>1, <3>1, <3>3 DEF OnSide, StepBounds
    <3> QED
      BY <3>2, <3>3
  <2> HIDE DEF first
  <2> QED BY <1>2, <2>1
<1>6. Held(p, ActiveAt(IF lte THEN T - 1 ELSE T))
        = Held(p, ActiveAt(t)) + IF lte THEN -m.tick[c].net ELSE m.tick[c].net
  <2> HIDE DEF T
  <2>1. CASE lte = TRUE
    BY <1>3, <1>4, <1>5, <2>1
  <2>2. CASE lte = FALSE
    BY <1>3, <1>4, <1>5, <2>2
  <2> QED
    BY <2>1, <2>2
<1> QED
  BY <1>2, <1>6

-----------------------------------------------------------------------------
(* The rounds of a swap                                                    *)

LEMMA FeePartFacts ==
    ASSUME pfFraction \in 0..FeeDenominator, NEW n \in Nat
    PROVE  FeePart(n) \in Nat /\ FeePart(n) <= n /\ n - FeePart(n) \in Nat
<1>1. /\ (n * pfFraction) \div FeeDenominator \in Nat
      /\ (n * pfFraction) \div FeeDenominator <= n
  BY PartAtMost, Sizes
<1> QED
  BY <1>1 DEF FeePart

LEMMA GrowthDeltaNat ==
    ASSUME NEW n \in Nat, NEW l \in Nat
    PROVE  FeeGrowthDelta(n, l) \in Nat
<1>1. ASSUME l # 0 PROVE (n * GrowthScale) \div l \in Nat
  <2>1. n * GrowthScale \in Nat
    BY Sizes
  <2> QED
    BY <1>1, <2>1, DivFacts
<1> QED
  BY <1>1 DEF FeeGrowthDelta

LEMMA WrapType ==
    ASSUME NEW a \in Int, NEW b \in Int
    PROVE  WrappingAdd(a, b) \in Growth /\ WrappingSub(a, b) \in Growth
BY IntDiv, Sizes DEF WrappingAdd, WrappingSub, Growth

LEMMA GrowthInt == \A g \in Growth : g \in Nat /\ g \in Int
BY Sizes DEF Growth

LEMMA AddGrowth ==
    ASSUME NEW g \in [Tokens -> Growth], NEW i \in Tokens, NEW n \in Nat
    PROVE  [g EXCEPT ![i] = WrappingAdd(@, n)] \in [Tokens -> Growth]
<1>1. WrappingAdd(g[i], n) \in Growth
  BY WrapType, GrowthInt
<1> QED
  BY <1>1

\* A crossing changes the growth outside a tick and nothing else of it.
LEMMA CrossTickFacts ==
    ASSUME NEW ticks \in [CTicks -> TickInfo], NEW c \in CTicks,
           NEW g \in [Tokens -> Growth]
    PROVE  /\ CrossTick(ticks, c, g) \in [CTicks -> TickInfo]
           /\ \A d \in CTicks : CrossTick(ticks, c, g)[d].gross = ticks[d].gross
                                /\ CrossTick(ticks, c, g)[d].net = ticks[d].net
<1> DEFINE out == [i \in Tokens |-> WrappingSub(g[i], ticks[c].out[i])]
           new == CrossTick(ticks, c, g)
<1>1. ticks[c] \in TickInfo /\ ticks[c].out \in [Tokens -> Growth]
  BY DEF TickInfo
<1>2. out \in [Tokens -> Growth]
  <2>1. \A i \in Tokens : WrappingSub(g[i], ticks[c].out[i]) \in Growth
    BY <1>1, WrapType, GrowthInt
  <2> QED
    BY <2>1
<1>3. new = [ticks EXCEPT ![c].out = out]
  BY DEF CrossTick
<1> HIDE DEF new, out
<1>4. new = [ticks EXCEPT ![c] = [ticks[c] EXCEPT !.out = out]]
  BY <1>3
<1>5. [ticks[c] EXCEPT !.out = out] \in TickInfo
      /\ [ticks[c] EXCEPT !.out = out].gross = ticks[c].gross
      /\ [ticks[c] EXCEPT !.out = out].net = ticks[c].net
  BY <1>1, <1>2 DEF TickInfo
<1>6. new \in [CTicks -> TickInfo]
      /\ \A d \in CTicks : new[d].gross = ticks[d].gross /\ new[d].net = ticks[d].net
  BY <1>4, <1>5
<1> QED
  BY <1>6 DEF new

\* The price lies on the step of the tick, or at its end when it came down to it.
OnStep(p, t) == SqrtRatio[t] <= p /\ (t < MaxTick => p <= SqrtRatio[t + 1])

\* A price that did not reach tick "end" has its tick before that.
LEMMA Landing ==
    ASSUME NEW t \in MinTick..MaxTick, NEW end \in MinTick..MaxTick, NEW lte \in BOOLEAN,
           NEW p \in Prices, OnStep(p, t), NEW x \in Prices, x # p,
           IF lte THEN SqrtRatio[end] < x /\ x <= p ELSE p <= x /\ x < SqrtRatio[end]
    PROVE  /\ TickAt(x) \in MinTick..MaxTick /\ OnStep(x, TickAt(x))
           /\ StepBounds(TickAt(x), t, IF lte THEN end ELSE end - 1, lte)
<1> DEFINE a == TickAt(x)
<1>1. /\ a \in MinTick..MaxTick /\ SqrtRatio[a] <= x
      /\ a < MaxTick => x < SqrtRatio[a + 1]
  BY TickAtFacts
<1> HIDE DEF a
<1>2. x \in Int /\ p \in Int /\ a \in Int /\ t \in Int /\ end \in Int
      /\ a <= MaxTick /\ t <= MaxTick /\ end <= MaxTick /\ MaxTick \in Int /\ MinTick \in Int
      /\ MinTick <= a /\ MinTick <= t
  BY <1>1, Sizes, PriceRange
<1>3. \A s \in MinTick..MaxTick : SqrtRatio[s] \in Int
  BY PriceNat
<1>4. ASSUME NEW s \in MinTick..MaxTick, NEW y \in Int, SqrtRatio[s] <= y, y < SqrtRatio[t + 1],
             t < MaxTick
      PROVE  s <= t
  <2>1. t + 1 \in MinTick..MaxTick
    BY <1>2, <1>4
  <2>2. SqrtRatio[s] < SqrtRatio[t + 1]
    BY <1>3, <1>4, <2>1
  <2> QED
    BY <1>2, <2>1, <2>2, PriceOrders
<1>5. ASSUME NEW s \in MinTick..MaxTick, SqrtRatio[s] <= x PROVE s <= a
  <2>1. CASE a = MaxTick
    BY <1>2, <2>1
  <2>2. CASE a < MaxTick
    <3>1. a + 1 \in MinTick..MaxTick
      BY <1>2, <2>2
    <3>2. SqrtRatio[s] < SqrtRatio[a + 1]
      BY <1>1, <1>2, <1>3, <1>5, <2>2, <3>1
    <3>3. s < a + 1
      BY <3>1, <3>2, PriceOrders
    <3> QED
      BY <1>2, <3>3
  <2> QED
    BY <1>2, <2>1, <2>2
<1>6. CASE lte = TRUE
  <2>1. SqrtRatio[end] < x /\ x <= p /\ x < p /\ SqrtRatio[end] <= x
    BY <1>2, <1>3, <1>6
  <2>2. end <= a
    BY <1>5, <2>1
  <2>3. a <= t
    <3>1. CASE t = MaxTick
      BY <1>2, <3>1
    <3>2. CASE t < MaxTick
      <4>1. t + 1 \in MinTick..MaxTick /\ p <= SqrtRatio[t + 1]
        BY <1>2, <3>2 DEF OnStep
      <4>2. x < SqrtRatio[t + 1]
        BY <1>2, <1>3, <2>1, <4>1
      <4> QED
        BY <1>1, <1>2, <1>4, <3>2, <4>2
    <3> QED
      BY <1>2, <3>1, <3>2
  <2> QED
    BY <1>1, <1>2, <1>3, <1>6, <2>2, <2>3 DEF StepBounds, OnStep, a
<1>7. CASE lte = FALSE
  <2>1. x < SqrtRatio[end] /\ p <= x
    BY <1>7
  <2>2. t <= a
    <3>1. SqrtRatio[t] <= x
      BY <1>2, <1>3, <2>1 DEF OnStep
    <3> QED
      BY <1>5, <3>1
  <2>3. a < end
    <3>1. SqrtRatio[a] < SqrtRatio[end]
      BY <1>1, <1>2, <1>3, <2>1
    <3> QED
      BY <1>1, <3>1, PriceOrders
  <2> QED
    BY <1>1, <1>2, <1>3, <1>7, <2>2, <2>3 DEF StepBounds, OnStep, a
<1> QED
  BY <1>6, <1>7

\* The part of the state that swaps read: the curve and the positions on it.
CurveInv ==
    /\ price \in Prices /\ tick \in MinTick..MaxTick /\ OnStep(price, tick)
    /\ growth \in [Tokens -> Growth]
    /\ pos \in Positions
    /\ map \in MapType /\ Indexed(map) /\ TicksKnow(map, pos)
    /\ liquidity = Held(pos, ActiveAt(tick))
    /\ raw \in [user : [Users -> Nat], total : Nat]
    /\ raw.total = Held(pos, Places)
    /\ \A u \in Users : raw.user[u] = Held(pos, {x \in Places : x[1] = u})
    /\ fullRange = Held(pos, {x \in Places : x[2] = FullRange})

\* What a swap carries from round to round: unless it failed, a price that has
\* not passed the limit, its tick, and the liquidity in use there.
LoopState(s, down) ==
    /\ s.price # Fail =>
         /\ s.price \in Prices /\ OnStep(s.price, s.tick)
         /\ IF down THEN PriceLimit(down) <= s.price ELSE s.price <= PriceLimit(down)
         /\ s.liq = Held(pos, ActiveAt(s.tick))
    /\ \A c \in CTicks : s.ticks[c].gross = map.tick[c].gross /\ s.ticks[c].net = map.tick[c].net
LoopStates(down) ==
    {s \in [price : Nat \cup {Fail}, tick : MinTick..MaxTick, liq : Nat, last : Nat,
            crossed : SUBSET Int, left : Nat, worth : Nat, cut : Nat,
            growth : [Tokens -> Growth], ticks : [CTicks -> TickInfo]] : LoopState(s, down)}

\* While there is a position, there is a tick with liquidity.
LEMMA LiveWithPositions ==
    ASSUME CurveInv, raw.total > 0
    PROVE  Live(map) # {}
<1>1. \E x \in Places : pos[x[1]][x[2]].liq # 0
  BY HeldZero DEF CurveInv
<1> QED
  BY <1>1, EndsLive DEF CurveInv

\* The next tick with liquidity, from where a swap that goes on stands.
LEMMA NextOfSwap ==
    ASSUME CurveInv, raw.total > 0, NEW down \in BOOLEAN,
           NEW s \in LoopStates(down), ~Stops(s, down)
    PROVE  \E c \in Live(map) :
              /\ FindInitializedTick(map, s.tick, down) = [tick |-> c * TickSpacing, init |-> TRUE]
              /\ OnSide(c * TickSpacing, s.tick, down)
              /\ \A d \in Live(map) : OnSide(d * TickSpacing, s.tick, down) =>
                    Within(d * TickSpacing, c * TickSpacing, down)
<1>1. s.tick \in MinTick..MaxTick /\ s.tick \in Int
  BY Sizes DEF LoopStates
<1>2. map.min \in Int /\ map.max \in Int
  BY Sizes DEF CurveInv, MapType
<1>3. IF down THEN s.tick >= map.min ELSE s.tick < map.max
  BY <1>1, <1>2 DEF Stops
<1>4. Live(map) # {} /\ Indexed(map)
  BY LiveWithPositions DEF CurveInv
<1> QED
  BY <1>1, <1>3, <1>4, NextFound

\* The target of the step is ahead of the price and not beyond the next tick.
LEMMA TargetFacts ==
    ASSUME NEW down \in BOOLEAN, NEW p \in Prices, NEW t \in MinTick..MaxTick, OnStep(p, t),
           IF down THEN PriceLimit(down) <= p ELSE p <= PriceLimit(down),
           NEW end \in MinTick..MaxTick, OnSide(end, t, down), NEW next, next.tick = end
    PROVE  /\ Target(next, down) \in Prices /\ PriceLimit(down) \in Int
           /\ IF down THEN Target(next, down) <= p ELSE p <= Target(next, down)
           /\ IF down THEN SqrtRatio[end] <= Target(next, down) /\ PriceLimit(down) <= Target(next, down)
              ELSE Target(next, down) <= SqrtRatio[end] /\ Target(next, down) <= PriceLimit(down)
<1> DEFINE x == SqrtRatio[end]
           l == PriceLimit(down)
           y == Target(next, down)
<1>1. x \in Prices /\ x \in Int /\ p \in Int /\ SqrtRatio[t] \in Int
  BY PriceRange, PriceNat
<1>2. l \in Int
  BY PriceRange DEF PriceLimit
<1>3. y = IF down THEN MaxOf(x, l) ELSE MinOf(x, l)
  BY DEF Target
<1>4. IF down THEN x <= p ELSE p <= x
  <2>1. t \in Int /\ end \in Int /\ t <= MaxTick /\ end <= MaxTick /\ MinTick <= t /\ MaxTick \in Int
        /\ MinTick \in Int
    BY Sizes
  <2>2. CASE down = TRUE
    <3>1. SqrtRatio[end] <= SqrtRatio[t]
      BY <2>1, <2>2, PriceRises DEF OnSide
    <3> QED
      BY <1>1, <2>2, <3>1 DEF OnStep
  <2>3. CASE down = FALSE
    <3>1. t < end /\ t < MaxTick /\ t + 1 \in MinTick..MaxTick /\ t + 1 <= end
      BY <2>1, <2>3 DEF OnSide
    <3>2. SqrtRatio[t + 1] <= SqrtRatio[end] /\ SqrtRatio[t + 1] \in Int
      BY <3>1, PriceRises, PriceNat
    <3> QED
      BY <1>1, <2>3, <3>1, <3>2 DEF OnStep
  <2> QED
    BY <2>2, <2>3
<1> HIDE DEF x, l, y
<1>5. CASE down = TRUE
  <2>1. /\ y \in Int /\ y >= x /\ y >= l /\ y \in {x, l}
    BY <1>1, <1>2, <1>3, <1>5, OrderOf
  <2>2. y <= p
    <3>1. x <= p /\ l <= p
      BY <1>4, <1>5 DEF l
    <3> QED
      BY <2>1, <3>1
  <2>3. y \in Prices
    BY <1>1, <2>1, <2>2, PriceRange DEF Prices
  <2> QED
    BY <1>2, <1>5, <2>1, <2>2, <2>3 DEF x, l, y
<1>6. CASE down = FALSE
  <2>1. /\ y \in Int /\ y <= x /\ y <= l /\ y \in {x, l}
    BY <1>1, <1>2, <1>3, <1>6, OrderOf
  <2>2. p <= y
    <3>1. p <= x /\ p <= l
      BY <1>4, <1>6 DEF l
    <3> QED
      BY <2>1, <3>1
  <2>3. y \in Prices
    BY <1>1, <2>1, <2>2, PriceRange DEF Prices
  <2> QED
    BY <1>2, <1>6, <2>1, <2>2, <2>3 DEF x, l, y
<1> QED
  BY <1>5, <1>6

\* One round of the loop: the step, the tick it leads to, the crossing.
LEMMA RoundKeeps ==
    ASSUME CurveInv, pfFraction \in 0..FeeDenominator, raw.total > 0,
           NEW down \in BOOLEAN, NEW exactIn \in BOOLEAN,
           NEW s \in LoopStates(down), ~Stops(s, down)
    PROVE  Round(s, down, exactIn) \in LoopStates(down)
<1> DEFINE next == FindInitializedTick(map, s.tick, down)
           target == Target(next, down)
           step == SwapStep(s.price, target, s.liq, s.left, down, exactIn)
           token == IF down THEN 0 ELSE 1
           cut == FeePart(step.fee)
           g == [s.growth EXCEPT ![token] =
                   WrappingAdd(@, FeeGrowthDelta(step.fee - cut, s.liq))]
           d == CompressTick(next.tick)
           reached == step.next = SqrtRatio[next.tick]
           crossing == reached /\ next.init
           toTick == IF reached THEN TickReached(next, down)
                     ELSE IF step.next # s.price /\ step.next # Fail THEN TickAt(step.next)
                     ELSE s.tick
           toLiq == IF crossing THEN s.liq + NetAcross(s.ticks, d, down) ELSE s.liq
           last == IF s.liq > 0 THEN s.liq ELSE s.last
           crossed == IF crossing THEN {next.tick} ELSE s.crossed
           left == MaxOf(0, s.left - IF exactIn THEN step.in + step.fee ELSE step.out)
           worth == s.worth + IF exactIn THEN step.out ELSE step.in + step.fee
           ticks == IF crossing THEN CrossTick(s.ticks, d, g) ELSE s.ticks
           r == Round(s, down, exactIn)
<1>1. PICK c \in Live(map) :
              /\ next = [tick |-> c * TickSpacing, init |-> TRUE]
              /\ OnSide(c * TickSpacing, s.tick, down)
              /\ \A e \in Live(map) : OnSide(e * TickSpacing, s.tick, down) =>
                    Within(e * TickSpacing, c * TickSpacing, down)
  BY NextOfSwap
<1> DEFINE T == c * TickSpacing
<1>2. r = [price |-> step.next, tick |-> toTick, liq |-> toLiq, last |-> last,
           crossed |-> crossed, left |-> left, worth |-> worth, cut |-> s.cut + cut,
           growth |-> g, ticks |-> ticks]
  BY Zenon DEF Round, Advance
<1>3. /\ c \in CTicks /\ c \in Int /\ T \in Int /\ T \in MinTick..MaxTick /\ T - 1 \in MinTick..MaxTick
      /\ d = c
  <2>1. c \in CTicks /\ Usable(c) /\ c \in Int
    BY CTicksBounded DEF Indexed, Live, CurveInv
  <2>2. T \in Int
    BY <2>1, Sizes
  <2>3. (TickSpacing * c + 0) \div TickSpacing = c
    BY <2>1, DivUnique, Sizes
  <2>4. T = TickSpacing * c + 0
    BY <2>1, Sizes
  <2>5. CompressTick(T) = c
    BY <2>3, <2>4 DEF CompressTick
  <2>6. d = c
    BY <1>1, <2>5
  <2> QED
    BY <2>1, <2>2, <2>6, Sizes DEF Usable
<1>4. next.tick = T /\ next.init = TRUE
  BY <1>1
<1>5. /\ s.price # Fail /\ s.left # 0 /\ s.price \in Prices /\ OnStep(s.price, s.tick)
      /\ IF down THEN PriceLimit(down) <= s.price ELSE s.price <= PriceLimit(down)
      /\ s.liq = Held(pos, ActiveAt(s.tick))
  <2>1. s.price # Fail /\ s.left # 0
    BY DEF Stops
  <2> QED
    BY <2>1 DEF LoopStates, LoopState
<1>6. /\ s.tick \in MinTick..MaxTick /\ s.liq \in Nat /\ s.last \in Nat /\ s.crossed \in SUBSET Int
      /\ s.left \in Nat /\ s.worth \in Nat /\ s.cut \in Nat
      /\ s.growth \in [Tokens -> Growth] /\ s.ticks \in [CTicks -> TickInfo]
      /\ \A e \in CTicks : s.ticks[e].gross = map.tick[e].gross /\ s.ticks[e].net = map.tick[e].net
  BY DEF LoopStates, LoopState
<1> HIDE DEF r, next, T
<1>7. OnSide(T, s.tick, down)
  BY <1>1 DEF T
<1>8. /\ target \in Prices /\ PriceLimit(down) \in Int
      /\ IF down THEN target <= s.price ELSE s.price <= target
      /\ IF down THEN SqrtRatio[T] <= target /\ PriceLimit(down) <= target
         ELSE target <= SqrtRatio[T] /\ target <= PriceLimit(down)
  BY <1>3, <1>4, <1>5, <1>6, <1>7, TargetFacts
<1> HIDE DEF target
<1>9. /\ step.in \in Nat /\ step.out \in Nat /\ step.fee \in Nat
      /\ step.next # Fail =>
            step.next \in Nat \ {0} /\ StepBounds(step.next, s.price, target, down)
  <2>1. s.price \in Nat \ {0} /\ target \in Nat \ {0}
    BY <1>5, <1>8, PriceRange
  <2>2. step = SwapStep(s.price, target, s.liq, s.left, down, exactIn)
    OBVIOUS
  <2> HIDE DEF step
  <2>3. Facing(s.price, target, down)
    BY <1>8 DEF Facing
  <2>4. s.liq \in Nat /\ s.left \in Nat
    BY <1>6
  <2> QED
    BY <2>1, <2>2, <2>3, <2>4, SwapStepFacts, SMTT(40)
<1> HIDE DEF step
<1>10. cut \in Nat /\ step.fee - cut \in Nat
  BY <1>9, FeePartFacts
<1> HIDE DEF cut
<1>11. g \in [Tokens -> Growth]
  <2>1. FeeGrowthDelta(step.fee - cut, s.liq) \in Nat
    BY <1>6, <1>10, GrowthDeltaNat
  <2>2. token \in Tokens
    BY DEF Tokens
  <2> HIDE DEF token
  <2> QED
    BY <1>6, <2>1, <2>2, AddGrowth
<1> HIDE DEF g
<1>12. /\ ticks \in [CTicks -> TickInfo]
       /\ \A e \in CTicks : ticks[e].gross = map.tick[e].gross /\ ticks[e].net = map.tick[e].net
  <2>1. /\ CrossTick(s.ticks, d, g) \in [CTicks -> TickInfo]
        /\ \A e \in CTicks : CrossTick(s.ticks, d, g)[e].gross = s.ticks[e].gross
                             /\ CrossTick(s.ticks, d, g)[e].net = s.ticks[e].net
    <3> HIDE DEF d
    <3> QED BY <1>3, <1>6, <1>11, CrossTickFacts
  <2> HIDE DEF crossing, d
  <2> QED
    BY <1>6, <2>1
<1> HIDE DEF ticks
<1>13. /\ left \in Nat /\ worth \in Nat /\ last \in Nat /\ s.cut + cut \in Nat
       /\ crossed \in SUBSET Int
  <2>1. left \in Nat
    BY <1>6, <1>9 DEF MaxOf
  <2>2. worth \in Nat /\ last \in Nat /\ s.cut + cut \in Nat
    BY <1>6, <1>9, <1>10
  <2>3. crossed \in SUBSET Int
    <3> HIDE DEF crossing
    <3> QED BY <1>3, <1>4, <1>6
  <2> QED
    BY <2>1, <2>2, <2>3
<1> HIDE DEF left, worth, last, crossed
<1>14. step.next # Fail => step.next \in Prices
  <2> SUFFICES ASSUME step.next # Fail PROVE step.next \in Prices
    OBVIOUS
  <2>1. step.next \in Nat \ {0} /\ StepBounds(step.next, s.price, target, down)
    BY <1>9
  <2> DEFINE x == step.next
  <2> HIDE DEF x
  <2>2. x \in Int /\ s.price \in Int /\ target \in Int /\ target \in Prices /\ s.price \in Prices
    BY <1>5, <1>8, <2>1, PriceRange DEF x
  <2>3. CASE down = TRUE
    BY <2>1, <2>2, <2>3, PriceRange DEF StepBounds, x, Prices
  <2>4. CASE down = FALSE
    BY <2>1, <2>2, <2>4, PriceRange DEF StepBounds, x, Prices
  <2> QED
    BY <2>3, <2>4
<1>15. step.next # Fail => IF down THEN PriceLimit(down) <= step.next ELSE step.next <= PriceLimit(down)
  <2> SUFFICES ASSUME step.next # Fail
               PROVE  IF down THEN PriceLimit(down) <= step.next ELSE step.next <= PriceLimit(down)
    OBVIOUS
  <2>1. step.next \in Nat \ {0} /\ StepBounds(step.next, s.price, target, down)
    BY <1>9
  <2>2. target \in Int /\ PriceLimit(down) \in Int /\ step.next \in Int
    BY <1>8, <2>1, PriceRange
  <2> DEFINE l == PriceLimit(down)
             x == step.next
  <2>3. /\ IF down THEN l <= target ELSE target <= l
        /\ IF down THEN target <= x ELSE x <= target
        /\ l \in Int /\ x \in Int /\ target \in Int
    BY <1>8, <2>1, <2>2 DEF StepBounds
  <2> HIDE DEF l, x
  <2>4. IF down THEN l <= x ELSE x <= l
    BY <2>3
  <2> QED
    BY <2>4 DEF l, x
\* The curve at the end of the round.
<1>16. /\ toTick \in MinTick..MaxTick /\ toLiq \in Nat
       /\ step.next # Fail => OnStep(step.next, toTick) /\ toLiq = Held(pos, ActiveAt(toTick))
  <2>1. /\ \A x \in Int : StepBounds(x, s.tick, IF down THEN T ELSE T - 1, down)
              => Held(pos, ActiveAt(x)) = Held(pos, ActiveAt(s.tick))
        /\ Held(pos, ActiveAt(IF down THEN T - 1 ELSE T))
              = Held(pos, ActiveAt(s.tick)) + IF down THEN -map.tick[c].net ELSE map.tick[c].net
    BY <1>1, <1>6, HeldUpTo DEF T, CurveInv
  <2>2. \A x \in Int : Held(pos, ActiveAt(x)) \in Nat
    BY HeldType DEF CurveInv
  <2>3. SqrtRatio[T] \in Nat \ {0} /\ SqrtRatio[T - 1] \in Nat /\ SqrtRatio[T - 1] <= SqrtRatio[T]
        /\ Fail # SqrtRatio[T]
    BY <1>3, PriceNat, PriceRises DEF Fail
  <2>4. ASSUME step.next = SqrtRatio[T]
        PROVE  /\ toTick = IF down THEN T - 1 ELSE T
               /\ toLiq = Held(pos, ActiveAt(toTick)) /\ OnStep(step.next, toTick)
    <3>1. toTick = TickReached(next, down) /\ toLiq = s.liq + NetAcross(s.ticks, d, down)
      BY <1>4, <2>4
    <3>2. TickReached(next, down) = IF down THEN T - 1 ELSE T
      BY <1>3, <1>4, Sizes DEF TickReached, MaxOf
    <3>3. NetAcross(s.ticks, d, down) = IF down THEN -map.tick[c].net ELSE map.tick[c].net
      BY <1>3, <1>6 DEF NetAcross
    <3> HIDE DEF toTick, toLiq
    <3>4. toLiq = Held(pos, ActiveAt(toTick))
      BY <1>5, <2>1, <3>1, <3>2, <3>3
    <3>5. OnStep(step.next, toTick)
      <4>1. CASE down = TRUE
        <5>1. toTick = T - 1 /\ toTick + 1 = T
          BY <1>3, <3>1, <3>2, <4>1
        <5> QED
          BY <2>3, <2>4, <5>1 DEF OnStep
      <4>2. CASE down = FALSE
        <5>1. toTick = T
          BY <3>1, <3>2, <4>2
        <5>2. T < MaxTick => T + 1 \in MinTick..MaxTick
          BY <1>3, Sizes
        <5>3. T < MaxTick => SqrtRatio[T] <= SqrtRatio[T + 1]
          BY <1>3, <5>2, PriceRises
        <5> QED
          BY <2>3, <2>4, <5>1, <5>3 DEF OnStep
      <4> QED
        BY <4>1, <4>2
    <3> QED
      BY <3>1, <3>2, <3>4, <3>5
  <2>5. ASSUME step.next # SqrtRatio[T], step.next # s.price, step.next # Fail
        PROVE  /\ toTick \in MinTick..MaxTick
               /\ toLiq = Held(pos, ActiveAt(toTick)) /\ OnStep(step.next, toTick)
    <3>1. toTick = TickAt(step.next) /\ toLiq = s.liq
      BY <1>4, <2>5
    <3> HIDE DEF toTick, toLiq
    <3>2. IF down THEN SqrtRatio[T] < step.next /\ step.next <= s.price
          ELSE s.price <= step.next /\ step.next < SqrtRatio[T]
      <4>1. StepBounds(step.next, s.price, target, down) /\ step.next \in Int
        BY <1>9, <2>5
      <4>2. target \in Int
        BY <1>8, PriceRange
      <4>3. CASE down = TRUE
        BY <1>8, <2>3, <2>5, <4>1, <4>2, <4>3 DEF StepBounds
      <4>4. CASE down = FALSE
        BY <1>8, <2>3, <2>5, <4>1, <4>2, <4>4 DEF StepBounds
      <4> QED
        BY <4>3, <4>4
    <3> DEFINE x == step.next
    <3>3. /\ x \in Prices /\ x # s.price
          /\ IF down THEN SqrtRatio[T] < x /\ x <= s.price ELSE s.price <= x /\ x < SqrtRatio[T]
      BY <1>14, <2>5, <3>2
    <3> HIDE DEF x
    <3>4. /\ TickAt(x) \in MinTick..MaxTick /\ OnStep(x, TickAt(x))
          /\ StepBounds(TickAt(x), s.tick, IF down THEN T ELSE T - 1, down)
      BY <1>3, <1>5, <1>6, <3>3, Landing
    <3>5. TickAt(x) \in Int
      BY <3>4, Sizes
    <3> QED
      BY <1>5, <2>1, <3>1, <3>4, <3>5 DEF x
  <2>6. ASSUME step.next # SqrtRatio[T], step.next = s.price \/ step.next = Fail
        PROVE  toTick = s.tick /\ toLiq = s.liq
    BY <1>4, <2>6
  <2> HIDE DEF toTick, toLiq
  <2>7. CASE step.next = SqrtRatio[T]
    <3>1. toTick \in MinTick..MaxTick /\ toTick \in Int
      BY <1>3, <2>4, <2>7
    <3> QED
      BY <2>2, <2>4, <2>7, <3>1
  <2>8. CASE step.next # SqrtRatio[T] /\ step.next # s.price /\ step.next # Fail
    <3>1. toTick \in Int
      BY <2>5, <2>8, Sizes
    <3> QED
      BY <2>2, <2>5, <2>8, <3>1
  <2>9. CASE step.next # SqrtRatio[T] /\ (step.next = s.price \/ step.next = Fail)
    BY <1>5, <1>6, <2>6, <2>9
  <2> QED
    BY <2>7, <2>8, <2>9
<1> HIDE DEF toTick, toLiq
<1>17. r \in [price : Nat \cup {Fail}, tick : MinTick..MaxTick, liq : Nat, last : Nat,
              crossed : SUBSET Int, left : Nat, worth : Nat, cut : Nat,
              growth : [Tokens -> Growth], ticks : [CTicks -> TickInfo]]
  <2>1. step.next \in Nat \cup {Fail}
    BY <1>9
  <2> QED
    BY <1>2, <1>11, <1>12, <1>13, <1>16, <2>1
<1>18. LoopState(r, down)
  <2>1. r.price = step.next /\ r.tick = toTick /\ r.liq = toLiq /\ r.ticks = ticks
    BY <1>2
  <2> QED
    BY <1>12, <1>14, <1>15, <1>16, <2>1 DEF LoopState
<1> QED
  BY <1>17, <1>18 DEF LoopStates, r

\* The loop begins in such a state.
LEMMA BeforeSwapOK ==
    ASSUME CurveInv, NEW down \in BOOLEAN, LimitAhead(down), NEW n \in Nat
    PROVE  BeforeSwap(n) \in LoopStates(down)
<1> DEFINE b == BeforeSwap(n)
<1>1. /\ price \in Prices /\ price \in Nat /\ liquidity \in Nat /\ tick \in MinTick..MaxTick
      /\ growth \in [Tokens -> Growth] /\ map.tick \in [CTicks -> TickInfo]
      /\ OnStep(price, tick) /\ liquidity = Held(pos, ActiveAt(tick))
  BY HeldType, PriceRange DEF CurveInv, MapType
<1>2. /\ b.price = price /\ b.tick = tick /\ b.liq = liquidity /\ b.ticks = map.tick
      /\ b = [price |-> price, tick |-> tick, liq |-> liquidity, last |-> liquidity,
              crossed |-> {}, left |-> n, worth |-> 0, cut |-> 0,
              growth |-> growth, ticks |-> map.tick]
  BY DEF BeforeSwap
<1>3. IF down THEN PriceLimit(down) <= price ELSE price <= PriceLimit(down)
  <2> DEFINE l == PriceLimit(down)
  <2>1. l \in Int
    BY PriceRange DEF PriceLimit
  <2>2. IF down THEN l < price ELSE l > price
    BY DEF LimitAhead
  <2> HIDE DEF l
  <2>3. IF down THEN l <= price ELSE price <= l
    BY <1>1, <2>1, <2>2
  <2> QED
    BY <2>3 DEF l
<1>4. LoopState(b, down)
  BY <1>1, <1>2, <1>3 DEF LoopState
<1>5. b \in [price : Nat \cup {Fail}, tick : MinTick..MaxTick, liq : Nat, last : Nat,
             crossed : SUBSET Int, left : Nat, worth : Nat, cut : Nat,
             growth : [Tokens -> Growth], ticks : [CTicks -> TickInfo]]
  BY <1>1, <1>2
<1> QED
  BY <1>4, <1>5 DEF LoopStates

\* The states that the loop goes through.
Rounds(k, n, down, exactIn) ==
    /\ k \in [0..MaxRounds -> LoopStates(down)] /\ k[0] = BeforeSwap(n)
    /\ \A i \in 1..MaxRounds :
          k[i] = IF Stops(k[i - 1], down) THEN k[i - 1] ELSE Round(k[i - 1], down, exactIn)
    /\ SwapLoop(n, down, exactIn)
         = IF Stops(k[MaxRounds], down) THEN k[MaxRounds] ELSE [k[MaxRounds] EXCEPT !.price = Fail]

\* The states a swap goes through are states of the loop.
LEMMA LoopRounds ==
    ASSUME CurveInv, pfFraction \in 0..FeeDenominator, raw.total > 0,
           NEW down \in BOOLEAN, NEW exactIn \in BOOLEAN, NEW n \in Nat, LimitAhead(down)
    PROVE  \E k : Rounds(k, n, down, exactIn)
<1> DEFINE S == LoopStates(down)
           b == BeforeSwap(n)
           pass(s) == IF Stops(s, down) THEN s ELSE Round(s, down, exactIn)
           g == [i \in 1..MaxRounds |-> [s \in S |-> pass(s)]]
           P(h) == h = [i \in 0..MaxRounds |->
                          IF i = 0 THEN b
                          ELSE LET s == h[i - 1]
                               IN IF Stops(s, down) THEN s ELSE Round(s, down, exactIn)]
           k == CHOOSE h : P(h)
           end == k[MaxRounds]
<1>1. b \in S
  BY BeforeSwapOK
<1>2. ASSUME NEW s \in S PROVE pass(s) \in S
  <2>1. CASE Stops(s, down)
    BY <2>1
  <2>2. CASE ~Stops(s, down)
    <3>1. Round(s, down, exactIn) \in S
      BY <2>2, RoundKeeps
    <3> QED
      BY <2>2, <3>1, Zenon
  <2> QED
    BY <2>1, <2>2
<1>3. g \in [1..MaxRounds -> [S -> S]]
  <2> HIDE DEF pass, S
  <2> QED BY <1>2
<1>4. ASSUME NEW h \in [0..MaxRounds -> S]
      PROVE  P(h) <=> Recursion(h, MaxRounds, b, g)
  <2>1. ASSUME NEW i \in 0..MaxRounds
        PROVE  (IF i = 0 THEN b ELSE g[i][h[i - 1]]) = (IF i = 0 THEN b ELSE pass(h[i - 1]))
    <3>1. CASE i # 0
      <4>1. i \in 1..MaxRounds /\ i - 1 \in 0..MaxRounds
        BY <3>1, Sizes
      <4>2. h[i - 1] \in S
        BY <4>1
      <4> HIDE DEF S, b, pass
      <4>3. g[i][h[i - 1]] = pass(h[i - 1])
        BY <4>1, <4>2
      <4> QED
        BY <4>3
    <3>2. CASE i = 0
      BY <3>2
    <3> QED
      BY <3>1, <3>2
  <2> QED
    BY <2>1, Zenon DEF Recursion
<1>5. PICK f \in [0..MaxRounds -> S] : Recursion(f, MaxRounds, b, g)
  <2> HIDE DEF g, S, b
  <2> QED BY <1>1, <1>3, RecursionExists, Sizes
<1>6. SwapLoop(n, down, exactIn) = IF Stops(end, down) THEN end ELSE [end EXCEPT !.price = Fail]
  BY Zenon DEF SwapLoop
<1>7. P(f)
  BY <1>4, <1>5, Zenon
<1>8. P(k)
  <2> HIDE DEF P
  <2> QED BY <1>7, Zenon
<1> HIDE DEF k
<1>9. k = [i \in 0..MaxRounds |-> IF i = 0 THEN b ELSE pass(k[i - 1])]
  BY <1>8
<1> HIDE DEF P, b, pass
<1>10. k[0] = b
  BY <1>9, Sizes
<1>p. ASSUME NEW i \in 1..MaxRounds PROVE k[i] = pass(k[i - 1])
  <2>1. i \in 0..MaxRounds /\ i # 0
    BY Sizes
  <2> QED
    BY <1>9, <2>1
<1>11. ASSUME NEW i \in 1..MaxRounds, k[i - 1] \in S PROVE k[i] \in S
  <2>1. k[i] = pass(k[i - 1])
    BY <1>p
  <2> HIDE DEF S
  <2> QED
    BY <1>2, <1>11, <2>1
<1> HIDE DEF S
<1>12. \A i \in 0..MaxRounds : k[i] \in S
  <2>1. k[0] \in S
    BY <1>1, <1>10
  <2>2. \A i \in 1..MaxRounds : k[i - 1] \in S => k[i] \in S
    BY <1>11
  <2> QED
    BY <2>1, <2>2, RecursionStays, Sizes
<1>13. k \in [0..MaxRounds -> S]
  <2>1. k = [i \in 0..MaxRounds |-> k[i]]
    BY <1>9
  <2> QED
    BY <1>12, <2>1
<1>14. \A i \in 1..MaxRounds :
         k[i] = IF Stops(k[i - 1], down) THEN k[i - 1] ELSE Round(k[i - 1], down, exactIn)
  BY <1>p, Zenon DEF pass
<1> QED
  BY <1>6, <1>10, <1>13, <1>14, Zenon DEF Rounds, S, b

\* So a swap that does not fail ends on the curve.
LEMMA SwapLoopOK ==
    ASSUME CurveInv, pfFraction \in 0..FeeDenominator, raw.total > 0,
           NEW down \in BOOLEAN, NEW exactIn \in BOOLEAN, NEW n \in Nat, LimitAhead(down)
    PROVE  SwapLoop(n, down, exactIn) \in LoopStates(down)
<1>1. PICK k : Rounds(k, n, down, exactIn)
  BY LoopRounds
<1> DEFINE end == k[MaxRounds]
<1>2. /\ end \in LoopStates(down)
      /\ SwapLoop(n, down, exactIn) = IF Stops(end, down) THEN end ELSE [end EXCEPT !.price = Fail]
  BY <1>1, Sizes DEF Rounds
<1> HIDE DEF end
<1>3. [end EXCEPT !.price = Fail] \in LoopStates(down)
  BY <1>2 DEF LoopStates, LoopState
<1> QED
  BY <1>2, <1>3, Zenon

-----------------------------------------------------------------------------
(* An exact output, quoted, buys itself                                    *)

\* What a step from p to q takes, and what it gives.
Needs(p, q, l, down) == IF down THEN Amount0(q, p, l, TRUE) ELSE Amount1(p, q, l, TRUE)
Gives(p, q, l, down) == IF down THEN Amount1(q, p, l, FALSE) ELSE Amount0(p, q, l, FALSE)

\* What a quotient rounded down reaches, the product with the divisor says.
LEMMA FloorAtLeast ==
    ASSUME NEW x \in Nat, NEW y \in Nat \ {0}, NEW k \in Nat
    PROVE  k <= x \div y <=> k * y <= x
<1> DEFINE q == x \div y
<1>1. q \in Nat /\ q * y <= x
  BY DivFacts
<1>2. k * y <= x => k <= q
  BY QuotientAtLeast
<1> HIDE DEF q
<1>3. ASSUME k <= q PROVE k * y <= x
  <2>1. k * y <= q * y /\ k * y \in Nat /\ q * y \in Nat
    BY <1>1, <1>3, MulMono
  <2> QED
    BY <1>1, <2>1
<1> QED
  BY <1>2, <1>3 DEF q

\* What a quotient rounded up stays below, likewise.
LEMMA CeilCovers ==
    ASSUME NEW x \in Nat, NEW y \in Nat \ {0}, NEW z \in Nat, CeilDiv(x, y) <= z
    PROVE  x <= z * y
<1> DEFINE q == (x + y - 1) \div y
<1>1. q \in Nat /\ q * y >= x
  BY CeilFacts
<1>2. q <= z
  BY DEF CeilDiv
<1> HIDE DEF q
<1>3. q * y <= z * y /\ q * y \in Nat /\ z * y \in Nat
  BY <1>1, <1>2, MulMono
<1> QED
  BY <1>1, <1>3

\* What the roundings of the amounts say of the products behind them.
LEMMA AmountBounds ==
    ASSUME NEW a \in Nat \ {0}, NEW b \in Nat \ {0}, a <= b, NEW l \in Nat, NEW n \in Nat
    PROVE  /\ Amount0(a, b, l, TRUE) <= n => l * Q * (b - a) <= n * a * b
           /\ n <= Amount0(a, b, l, FALSE) <=> n * a * b <= l * Q * (b - a)
           /\ Amount1(a, b, l, TRUE) <= n => l * (b - a) <= n * Q
           /\ n <= Amount1(a, b, l, FALSE) <=> n * Q <= l * (b - a)
<1> DEFINE x == l * Q * (b - a)
           y == l * (b - a)
<1>1. x \in Nat /\ y \in Nat
  BY Sizes, MulNat
<1>2. MinOf(a, b) = a /\ MaxOf(a, b) = b
  BY DEF MinOf, MaxOf
<1>3. /\ Amount0(a, b, l, TRUE) = CeilDiv(CeilDiv(x, b), a)
      /\ Amount0(a, b, l, FALSE) = (x \div b) \div a
      /\ Amount1(a, b, l, TRUE) = CeilDiv(y, Q)
      /\ Amount1(a, b, l, FALSE) = y \div Q
  BY <1>2 DEF Amount0, Amount1, Divide
<1> HIDE DEF x, y
<1>4. ASSUME CeilDiv(CeilDiv(x, b), a) <= n PROVE x <= n * a * b
  <2>1. CeilDiv(x, b) \in Nat
    BY <1>1, DivideNat
  <2>2. CeilDiv(x, b) <= n * a /\ n * a \in Nat
    BY <1>4, <2>1, CeilCovers
  <2> QED
    BY <1>1, <2>2, CeilCovers
<1>5. n <= (x \div b) \div a <=> n * a * b <= x
  <2>1. x \div b \in Nat
    BY <1>1, DivFacts
  <2>2. n <= (x \div b) \div a <=> n * a <= x \div b
    BY <2>1, FloorAtLeast
  <2>3. n * a \in Nat
    OBVIOUS
  <2>4. n * a <= x \div b <=> (n * a) * b <= x
    BY <1>1, <2>3, FloorAtLeast
  <2> QED
    BY <2>2, <2>4
<1>6. CeilDiv(y, Q) <= n => y <= n * Q
  BY <1>1, CeilCovers, Sizes
<1>7. n <= y \div Q <=> n * Q <= y
  BY <1>1, FloorAtLeast, Sizes
<1> QED
  BY <1>3, <1>4, <1>5, <1>6, <1>7 DEF x, y

\* A step that goes further gives more.
LEMMA GivesMore ==
    ASSUME NEW p \in Nat \ {0}, NEW q \in Nat \ {0}, NEW r \in Nat \ {0}, NEW l \in Nat \ {0},
           NEW down \in BOOLEAN, Facing(p, q, down), Facing(q, r, down),
           NEW n \in Nat, n <= Gives(p, q, l, down)
    PROVE  n <= Gives(p, r, l, down)
<1>1. CASE down = TRUE
  <2>1. q <= p /\ r <= q /\ r <= p
    BY <1>1 DEF Facing
  <2>2. n <= Amount1(q, p, l, FALSE)
    BY <1>1 DEF Gives
  <2>3. n * Q <= l * (p - q)
    BY <2>1, <2>2, AmountBounds
  <2>4. l * (p - q) <= l * (p - r) /\ n * Q \in Nat /\ l * (p - q) \in Nat /\ l * (p - r) \in Nat
    BY <2>1, MulMono, MulNat, Sizes
  <2>5. n * Q <= l * (p - r)
    BY <2>3, <2>4
  <2>6. n <= Amount1(r, p, l, FALSE)
    BY <2>1, <2>5, AmountBounds
  <2> QED
    BY <1>1, <2>6 DEF Gives
<1>2. CASE down = FALSE
  <2>1. p <= q /\ q <= r /\ p <= r
    BY <1>2 DEF Facing
  <2>2. n <= Amount0(p, q, l, FALSE)
    BY <1>2 DEF Gives
  <2>3. n * p * q <= l * Q * (q - p)
    BY <2>1, <2>2, AmountBounds
  <2> DEFINE x == l * Q
             y == n * p
  <2>4. x \in Nat \ {0} /\ y \in Nat
    BY Sizes
  <2>5. y * q <= x * (q - p)
    BY <2>3
  <2> HIDE DEF x, y
  <2>6. x * p <= q * (x - y)
    BY <2>1, <2>4, <2>5
  <2>7. x - y \in Nat
    <3>1. x * p > 0
      BY <2>4
    <3>2. q * (x - y) > 0
      BY <2>4, <2>6, <3>1
    <3> QED
      BY <2>4, <3>2
  <2>8. q * (x - y) <= r * (x - y)
    BY <2>1, <2>7
  <2>9. y * r <= x * (r - p)
    BY <2>1, <2>4, <2>6, <2>7, <2>8
  <2>10. n * p * r <= l * Q * (r - p)
    BY <2>9 DEF x, y
  <2>11. n <= Amount0(p, r, l, FALSE)
    BY <2>1, <2>10, AmountBounds
  <2> QED
    BY <1>2, <2>11 DEF Gives
<1> QED
  BY <1>1, <1>2

\* Going back on an output far enough gives it, by the rounding.
LEMMA OutputGiven ==
    ASSUME NEW p \in Nat \ {0}, NEW l \in Nat \ {0}, NEW n \in Nat \ {0}, NEW down \in BOOLEAN,
           NextFromOutput(p, l, n, down) # Fail
    PROVE  /\ NextFromOutput(p, l, n, down) \in Nat \ {0}
           /\ Facing(p, NextFromOutput(p, l, n, down), down)
           /\ n <= Gives(p, NextFromOutput(p, l, n, down), l, down)
<1> DEFINE x == l * Q
           y == n * p
           c == CeilDiv(n * Q, l)
           d == CeilDiv(x * p, x - y)
           q == NextFromOutput(p, l, n, down)
<1>1. x \in Nat \ {0} /\ y \in Nat /\ n * Q \in Nat /\ Q \in Nat \ {0}
  BY Sizes
<1>2. CASE down = TRUE
  <2>1. q = IF p <= c THEN Fail ELSE p - c
    BY <1>2 DEF NextFromOutput, NextFrom1
  <2>2. c \in Nat /\ n * Q <= c * l
    <3>1. c \in Nat
      BY <1>1, DivideNat
    <3>2. c <= c
      BY <3>1
    <3> HIDE DEF c
    <3>3. CeilDiv(n * Q, l) <= c
      BY <3>2 DEF c
    <3> QED
      BY <1>1, <3>1, <3>3, CeilCovers
  <2>3. q # Fail
    OBVIOUS
  <2> HIDE DEF q, c
  <2>4. q = p - c /\ q \in Nat \ {0} /\ q <= p
    BY <2>1, <2>2, <2>3
  <2>5. n * Q <= l * (p - q)
    BY <1>1, <2>2, <2>4
  <2>6. n <= Amount1(q, p, l, FALSE)
    BY <2>4, <2>5, AmountBounds
  <2>7. Facing(p, q, down) /\ n <= Gives(p, q, l, down)
    BY <1>2, <2>4, <2>6 DEF Facing, Gives
  <2> QED
    BY <2>4, <2>7 DEF q
<1>3. CASE down = FALSE
  <2>1. q = IF x <= y THEN Fail ELSE d
    BY <1>3 DEF NextFromOutput, NextFrom0
  <2>2. q # Fail
    OBVIOUS
  <2> HIDE DEF q
  <2>3. q = d /\ ~(x <= y)
    <3> HIDE DEF x, y, d
    <3> QED BY <2>1, <2>2
  <2>4. x - y \in Nat \ {0} /\ x * p \in Nat \ {0} /\ p * (x - y) <= x * p
    <3> HIDE DEF x, y
    <3> QED BY <1>1, <2>3
  <2>5. d \in Nat /\ p <= d
    <3> HIDE DEF x, y
    <3> QED BY <2>4, DivideNat, CeilAtLeast
  <2>6. x * p <= d * (x - y)
    <3>1. d <= d
      BY <2>5
    <3> HIDE DEF x, y
    <3>2. x * p \in Nat /\ x - y \in Nat \ {0} /\ CeilDiv(x * p, x - y) <= d /\ d \in Nat
      BY <2>4, <2>5, <3>1
    <3> HIDE DEF d
    <3> QED
      BY <3>2, CeilCovers
  <2> HIDE DEF x, y, d
  <2>7. q \in Nat \ {0} /\ p <= q
    BY <2>3, <2>5
  <2>8. y * q <= x * (q - p)
    BY <1>1, <2>3, <2>6, <2>7
  <2>9. n * p * q <= l * Q * (q - p)
    BY <2>8 DEF x, y
  <2>10. n <= Amount0(p, q, l, FALSE)
    BY <2>7, <2>9, AmountBounds
  <2>11. Facing(p, q, down) /\ n <= Gives(p, q, l, down)
    BY <1>3, <2>7, <2>10 DEF Facing, Gives
  <2> QED
    BY <2>7, <2>11 DEF q
<1> QED
  BY <1>2, <1>3

\* An input that covers the step to q leads to q or beyond.
LEMMA InputLeads ==
    ASSUME NEW p \in Nat \ {0}, NEW q \in Nat \ {0}, NEW l \in Nat \ {0}, NEW n \in Nat,
           NEW down \in BOOLEAN, Facing(p, q, down), Needs(p, q, l, down) <= n
    PROVE  /\ Facing(q, NextFromInput(p, l, n, down), down)
           /\ NextFromInput(p, l, n, down) \in Nat
<1> DEFINE r == NextFromInput(p, l, n, down)
<1>1. CASE down = TRUE
  <2>1. q <= p
    BY <1>1 DEF Facing
  <2>2. l * Q * (p - q) <= n * q * p
    BY <1>1, <2>1, AmountBounds DEF Needs
  <2> DEFINE x == l * Q
             y == n * p
             c == CeilDiv(x * p, x + y)
  <2>3. x \in Nat \ {0} /\ y \in Nat /\ n * q * p = y * q
    BY Sizes
  <2>4. x * (p - q) <= y * q
    BY <2>2, <2>3
  <2>5. r = IF n = 0 THEN p ELSE c
    BY <1>1 DEF NextFromInput, NextFrom0
  <2>6. n = 0 => y = 0
    OBVIOUS
  <2> HIDE DEF x, y
  <2>7. x * p <= q * (x + y) /\ x * p \in Nat /\ x + y \in Nat \ {0}
    BY <2>1, <2>3, <2>4
  <2>8. c \in Nat /\ c <= q
    BY <2>7, DivideNat, CeilAtMost
  <2>9. n = 0 => p <= q
    <3> SUFFICES ASSUME n = 0, q < p PROVE FALSE
      BY <2>1
    <3>1. x * (p - q) <= 0
      BY <2>4, <2>6
    <3>2. x * (p - q) > 0
      BY <2>3
    <3>3. x * (p - q) \in Int
      BY <2>3
    <3> QED
      BY <3>1, <3>2, <3>3
  <2> HIDE DEF c, r
  <2>10. r \in Nat /\ r <= q
    BY <2>5, <2>8, <2>9
  <2> QED
    BY <1>1, <2>10 DEF Facing, r
<1>2. CASE down = FALSE
  <2>1. p <= q
    BY <1>2 DEF Facing
  <2>2. l * (q - p) <= n * Q
    BY <1>2, <2>1, AmountBounds DEF Needs
  <2>3. r = p + (n * Q) \div l
    BY <1>2 DEF NextFromInput, NextFrom1
  <2>4. n * Q \in Nat /\ q - p \in Nat /\ (q - p) * l <= n * Q
    BY <2>1, <2>2, Sizes
  <2>5. q - p <= (n * Q) \div l /\ (n * Q) \div l \in Nat
    BY <2>4, QuotientAtLeast, DivFacts
  <2> DEFINE d == (n * Q) \div l
  <2> HIDE DEF d, r
  <2>6. r = p + d /\ q - p <= d /\ d \in Nat
    BY <2>3, <2>5 DEF d
  <2>7. r \in Nat /\ q <= r
    BY <2>6
  <2> QED
    BY <1>2, <2>7 DEF Facing, r
<1> QED
  BY <1>1, <1>2

\* Where nothing is needed, nothing is given.
LEMMA NothingFree ==
    ASSUME NEW p \in Nat \ {0}, NEW q \in Nat \ {0}, NEW l \in Nat \ {0},
           NEW down \in BOOLEAN, Facing(p, q, down), Needs(p, q, l, down) = 0
    PROVE  Gives(p, q, l, down) = 0
<1>0. Q \in Nat \ {0} /\ l * Q \in Nat \ {0} /\ p \in Nat /\ q \in Nat
  BY Sizes
<1> DEFINE z == 0
           o == 1
<1>z. z \in Nat /\ o \in Nat /\ Needs(p, q, l, down) = z
  OBVIOUS
<1>n. Needs(p, q, l, down) <= z
  <2> HIDE DEF z
  <2> QED BY <1>z
<1> HIDE DEF z, o
<1>1. q = p
  <2>1. CASE down = TRUE
    <3>1. q <= p
      BY <2>1 DEF Facing
    <3>2. Amount0(q, p, l, TRUE) <= z
      BY <1>n, <2>1 DEF Needs
    <3>3. l * Q * (p - q) <= z * q * p
      BY <1>z, <3>1, <3>2, AmountBounds
    <3> DEFINE x == l * Q
    <3> HIDE DEF x
    <3>4. x * (p - q) <= 0 /\ x \in Nat \ {0}
      BY <1>0, <3>3 DEF x, z
    <3> QED
      BY <3>1, <3>4
  <2>2. CASE down = FALSE
    <3>1. p <= q
      BY <2>2 DEF Facing
    <3>2. Amount1(p, q, l, TRUE) <= z
      BY <1>n, <2>2 DEF Needs
    <3>3. l * (q - p) <= z * Q
      BY <1>z, <3>1, <3>2, AmountBounds
    <3>4. l * (q - p) <= 0
      BY <1>0, <3>3 DEF z
    <3> QED
      BY <3>1, <3>4
  <2> QED
    BY <2>1, <2>2
<1>2. Gives(p, q, l, down) = IF down THEN Amount1(p, p, l, FALSE) ELSE Amount0(p, p, l, FALSE)
  BY <1>1 DEF Gives
<1>3. ~(o <= Amount0(p, p, l, FALSE)) /\ ~(o <= Amount1(p, p, l, FALSE))
  <2>1. p <= p
    OBVIOUS
  <2>2. /\ o <= Amount0(p, p, l, FALSE) <=> o * p * p <= l * Q * (p - p)
        /\ o <= Amount1(p, p, l, FALSE) <=> o * Q <= l * (p - p)
    BY <1>z, <2>1, AmountBounds
  <2>3. ~(o * p * p <= l * Q * (p - p))
    <3>1. o * p * p > 0 /\ o * p * p \in Nat
      BY DEF o
    <3>2. l * Q * (p - p) = 0
      <4> DEFINE x == l * Q
      <4>1. x \in Nat
        BY <1>0
      <4> HIDE DEF x
      <4>2. x * (p - p) = 0
        BY <4>1
      <4> QED
        BY <4>2 DEF x
    <3> QED
      BY <3>1, <3>2
  <2>4. ~(o * Q <= l * (p - p))
    <3>1. o * Q > 0 /\ o * Q \in Nat /\ l * (p - p) = 0
      BY <1>0 DEF o
    <3> QED
      BY <3>1
  <2> QED
    BY <2>2, <2>3, <2>4
<1>4. Amount0(p, p, l, FALSE) \in Nat /\ Amount1(p, p, l, FALSE) \in Nat
  BY AmountNat
<1>5. Amount0(p, p, l, FALSE) = 0 /\ Amount1(p, p, l, FALSE) = 0
  <2> DEFINE x == Amount0(p, p, l, FALSE)
             y == Amount1(p, p, l, FALSE)
  <2>1. ~(o <= x) /\ ~(o <= y) /\ x \in Nat /\ y \in Nat
    BY <1>3, <1>4
  <2> HIDE DEF x, y
  <2>2. x = 0 /\ y = 0
    BY <2>1 DEF o
  <2> QED
    BY <2>2 DEF x, y
<1> QED
  BY <1>2, <1>5

\* What is left of an input, once its fee is set aside.
NetOf(left) == (left * (FeeDenominator - Fee)) \div FeeDenominator

\* An input with its fee on top covers itself.
LEMMA NetCovers ==
    ASSUME NEW n \in Nat, NEW left \in Nat, n + FeeOnTop(n) <= left
    PROVE  n <= NetOf(left) /\ NetOf(left) \in Nat
<1> DEFINE d == FeeDenominator - Fee
           f == FeeOnTop(n)
<1>1. d \in Nat \ {0} /\ Fee \in Nat /\ FeeDenominator \in Nat \ {0} /\ FeeDenominator = d + Fee
  BY Sizes
<1>2. f \in Nat
  BY FeeOnTopNat
<1>3. n * Fee <= f * d
  <2>1. f = CeilDiv(n * Fee, d) /\ n * Fee \in Nat
    BY <1>1 DEF FeeOnTop
  <2> HIDE DEF f, d
  <2>2. CeilDiv(n * Fee, d) <= f
    BY <1>2, <2>1
  <2> QED
    BY <1>1, <1>2, <2>1, <2>2, CeilCovers
<1>4. n + f <= left
  OBVIOUS
<1> HIDE DEF d, f
<1>5. (n + f) * d <= left * d /\ left * d \in Nat
  BY <1>1, <1>2, <1>4, MulMono, MulNat
<1>6. n * FeeDenominator <= left * d
  BY <1>1, <1>2, <1>3, <1>5
<1>7. n <= (left * d) \div FeeDenominator /\ (left * d) \div FeeDenominator \in Nat
  BY <1>1, <1>5, <1>6, QuotientAtLeast, DivFacts
<1> QED
  BY <1>7 DEF NetOf, d

\* Where a step ends, with an exact output and with an exact input.
OutEnd(p, target, l, left, down) ==
    IF left >= Gives(p, target, l, down) THEN target
    ELSE IF NextFromOutput(p, l, left, down) = Fail THEN Fail
    ELSE IF down THEN MaxOf(NextFromOutput(p, l, left, down), target)
    ELSE MinOf(NextFromOutput(p, l, left, down), target)
InEnd(p, target, l, left, down) ==
    IF NetOf(left) >= Needs(p, target, l, down) THEN target
    ELSE IF NextFromInput(p, l, NetOf(left), down) = Fail THEN Fail
    ELSE IF down THEN MaxOf(NextFromInput(p, l, NetOf(left), down), target)
    ELSE MinOf(NextFromInput(p, l, NetOf(left), down), target)

\* A step of a swap, in these words.
NoStep(target) == [next |-> target, in |-> 0, out |-> 0, fee |-> 0]
StepOut(p, target, l, left, down) ==
    LET end == OutEnd(p, target, l, left, down)
    IN IF l = 0 THEN NoStep(target)
       ELSE IF end = Fail THEN NoStep(Fail)
       ELSE [next |-> end, in |-> Needs(p, end, l, down),
             out |-> MinOf(Gives(p, end, l, down), left), fee |-> FeeOnTop(Needs(p, end, l, down))]
StepIn(p, target, l, left, down) ==
    LET end == InEnd(p, target, l, left, down)
    IN IF l = 0 THEN NoStep(target)
       ELSE IF end = Fail THEN NoStep(Fail)
       ELSE [next |-> end, in |-> Needs(p, end, l, down), out |-> Gives(p, end, l, down),
             fee |-> IF end # target THEN MaxOf(0, left - Needs(p, end, l, down))
                     ELSE FeeOnTop(Needs(p, end, l, down))]

LEMMA StepForm ==
    ASSUME NEW p, NEW target, NEW l, NEW left, NEW down \in BOOLEAN
    PROVE  /\ SwapStep(p, target, l, left, down, FALSE) = StepOut(p, target, l, left, down)
           /\ SwapStep(p, target, l, left, down, TRUE) = StepIn(p, target, l, left, down)
<1> DEFINE far(x) == IF x THEN NextFromInput(p, l, NetOf(left), down)
                     ELSE NextFromOutput(p, l, left, down)
           end(x) == IF IF x THEN NetOf(left) >= Needs(p, target, l, down)
                        ELSE left >= Gives(p, target, l, down)
                     THEN target
                     ELSE IF far(x) = Fail THEN Fail
                     ELSE IF down THEN MaxOf(far(x), target) ELSE MinOf(far(x), target)
           fee(x) == IF x /\ end(x) # target THEN MaxOf(0, left - Needs(p, end(x), l, down))
                     ELSE FeeOnTop(Needs(p, end(x), l, down))
           given(x) == IF x THEN Gives(p, end(x), l, down)
                       ELSE MinOf(Gives(p, end(x), l, down), left)
           step(x) == IF l = 0 THEN NoStep(target)
                      ELSE IF end(x) = Fail THEN [next |-> Fail, in |-> 0, out |-> 0, fee |-> 0]
                      ELSE [next |-> end(x), in |-> Needs(p, end(x), l, down),
                            out |-> given(x), fee |-> fee(x)]
<1>1. SwapStep(p, target, l, left, down, FALSE) = step(FALSE)
  BY Zenon DEF SwapStep, Needs, Gives, NetOf, NoStep
<1>2. SwapStep(p, target, l, left, down, TRUE) = step(TRUE)
  BY Zenon DEF SwapStep, Needs, Gives, NetOf, NoStep
<1>3. end(FALSE) = OutEnd(p, target, l, left, down) /\ end(TRUE) = InEnd(p, target, l, left, down)
  <2>1. far(FALSE) = NextFromOutput(p, l, left, down)
        /\ far(TRUE) = NextFromInput(p, l, NetOf(left), down)
    OBVIOUS
  <2> HIDE DEF far
  <2> QED
    BY <2>1 DEF OutEnd, InEnd
<1> HIDE DEF end
<1>4. /\ given(FALSE) = MinOf(Gives(p, end(FALSE), l, down), left)
      /\ given(TRUE) = Gives(p, end(TRUE), l, down)
      /\ fee(FALSE) = FeeOnTop(Needs(p, end(FALSE), l, down))
      /\ fee(TRUE) = IF end(TRUE) # target THEN MaxOf(0, left - Needs(p, end(TRUE), l, down))
                     ELSE FeeOnTop(Needs(p, end(TRUE), l, down))
  OBVIOUS
<1>5. \A x \in BOOLEAN : step(x) =
          IF l = 0 THEN NoStep(target)
          ELSE IF end(x) = Fail THEN [next |-> Fail, in |-> 0, out |-> 0, fee |-> 0]
          ELSE [next |-> end(x), in |-> Needs(p, end(x), l, down), out |-> given(x), fee |-> fee(x)]
  OBVIOUS
<1> HIDE DEF given, fee, step
<1>6. step(FALSE) = StepOut(p, target, l, left, down)
  BY <1>3, <1>4, <1>5 DEF StepOut, NoStep
<1>7. step(TRUE) = StepIn(p, target, l, left, down)
  BY <1>3, <1>4, <1>5 DEF StepIn, NoStep
<1> QED
  BY <1>1, <1>2, <1>6, <1>7

\* A step with an exact output: there is no liquidity to cross; or it takes the
\* target and has more to go; or it ends where the output is given.
OutStep(e, p, target, l, n, down) ==
    \/ l = 0 /\ e = NoStep(target)
    \/ /\ l # 0 /\ Gives(p, target, l, down) <= n
       /\ e = [next |-> target, in |-> Needs(p, target, l, down),
               out |-> Gives(p, target, l, down), fee |-> FeeOnTop(Needs(p, target, l, down))]
    \/ /\ l # 0 /\ e.next \in Nat \ {0} /\ StepBounds(e.next, p, target, down)
       /\ e.in = Needs(p, e.next, l, down) /\ e.fee = FeeOnTop(e.in)
       /\ e.out = n /\ n <= Gives(p, e.next, l, down)

LEMMA ExactOutStep ==
    ASSUME NEW p \in Nat \ {0}, NEW target \in Nat \ {0}, NEW l \in Nat, NEW n \in Nat \ {0},
           NEW down \in BOOLEAN, Facing(p, target, down),
           NEW e, e = StepOut(p, target, l, n, down), e.next # Fail
    PROVE  OutStep(e, p, target, l, n, down)
<1> DEFINE far == NextFromOutput(p, l, n, down)
           next == OutEnd(p, target, l, n, down)
           given == MinOf(Gives(p, next, l, down), n)
<1>0. next = IF n >= Gives(p, target, l, down) THEN target
             ELSE IF far = Fail THEN Fail
             ELSE IF down THEN MaxOf(far, target) ELSE MinOf(far, target)
  BY DEF OutEnd
<1>1. e = IF l = 0 THEN NoStep(target)
          ELSE IF next = Fail THEN NoStep(Fail)
          ELSE [next |-> next, in |-> Needs(p, next, l, down), out |-> given,
                fee |-> FeeOnTop(Needs(p, next, l, down))]
  BY DEF StepOut
<1>d. given = MinOf(Gives(p, next, l, down), n)
  OBVIOUS
<1> HIDE DEF next, given
<1>2. ASSUME NEW q \in Nat \ {0} PROVE Gives(p, q, l, down) \in Nat
  BY AmountNat DEF Gives
<1>3. CASE l = 0
  BY <1>1, <1>3 DEF OutStep, NoStep
<1>4. CASE l # 0 /\ n >= Gives(p, target, l, down)
  <2>1. next = target /\ given = MinOf(Gives(p, target, l, down), n) /\ target # Fail
    BY <1>0, <1>4, <1>d DEF Fail
  <2>2. given = Gives(p, target, l, down) /\ Gives(p, target, l, down) <= n
    BY <1>2, <1>4, <2>1 DEF MinOf
  <2> QED
    BY <1>1, <1>4, <2>1, <2>2 DEF OutStep
<1>5. CASE l # 0 /\ ~(n >= Gives(p, target, l, down))
  <2>1. next # Fail
    BY <1>1, <1>5 DEF NoStep
  <2>2. far # Fail /\ next = IF down THEN MaxOf(far, target) ELSE MinOf(far, target)
    BY <1>0, <1>5, <2>1
  <2> HIDE DEF far
  <2>3. /\ far \in Nat \ {0} /\ Facing(p, far, down) /\ n <= Gives(p, far, l, down)
    BY <1>5, <2>2, OutputGiven DEF far
  <2>4. next \in {far, target} /\ next \in Nat \ {0} /\ StepBounds(next, p, target, down)
    BY <2>2, <2>3 DEF Facing, StepBounds, MaxOf, MinOf
  <2>5. n <= Gives(p, target, l, down)
    BY <1>2, <1>5
  <2>6. n <= Gives(p, next, l, down)
    BY <2>3, <2>4, <2>5
  <2>7. given = n
    BY <1>2, <1>d, <2>4, <2>6 DEF MinOf
  <2>8. /\ e.next = next /\ e.in = Needs(p, next, l, down) /\ e.out = n
        /\ e.fee = FeeOnTop(Needs(p, next, l, down))
    BY <1>1, <1>5, <2>1, <2>7
  <2> QED
    BY <1>5, <2>4, <2>6, <2>8 DEF OutStep
<1> QED
  BY <1>3, <1>4, <1>5

\* A step with an exact input goes at least as far as the input covers.
LEMMA ExactInStep ==
    ASSUME NEW p \in Nat \ {0}, NEW target \in Nat \ {0}, NEW l \in Nat, NEW w \in Nat,
           NEW down \in BOOLEAN, Facing(p, target, down),
           NEW s, s = StepIn(p, target, l, w, down)
    PROVE  /\ l = 0 => s = NoStep(target)
           /\ l # 0 /\ Needs(p, target, l, down) <= NetOf(w) =>
                s = [next |-> target, in |-> Needs(p, target, l, down),
                     out |-> Gives(p, target, l, down), fee |-> FeeOnTop(Needs(p, target, l, down))]
           /\ \A q \in Nat \ {0}, n \in Nat :
                /\ l # 0 /\ StepBounds(q, p, target, down)
                /\ Needs(p, q, l, down) <= NetOf(w) /\ n <= Gives(p, q, l, down)
                => n <= s.out
<1> DEFINE far == NextFromInput(p, l, NetOf(w), down)
           next == InEnd(p, target, l, w, down)
           fee == IF next # target THEN MaxOf(0, w - Needs(p, next, l, down))
                  ELSE FeeOnTop(Needs(p, next, l, down))
<1>0. next = IF NetOf(w) >= Needs(p, target, l, down) THEN target
             ELSE IF far = Fail THEN Fail
             ELSE IF down THEN MaxOf(far, target) ELSE MinOf(far, target)
  BY DEF InEnd
<1>1. s = IF l = 0 THEN NoStep(target)
          ELSE IF next = Fail THEN NoStep(Fail)
          ELSE [next |-> next, in |-> Needs(p, next, l, down), out |-> Gives(p, next, l, down),
                fee |-> fee]
  BY DEF StepIn
<1>d. next = target => fee = FeeOnTop(Needs(p, target, l, down))
  OBVIOUS
<1> HIDE DEF next, fee
<1>2. NetOf(w) \in Nat
  <2>1. w * (FeeDenominator - Fee) \in Nat /\ FeeDenominator \in Nat \ {0}
    BY Sizes
  <2> QED
    BY <2>1, DivFacts DEF NetOf
<1>3. ASSUME NEW q \in Nat \ {0} PROVE Needs(p, q, l, down) \in Nat
  BY AmountNat DEF Needs
<1>4. target # Fail
  BY DEF Fail
<1>5. l = 0 => s = NoStep(target)
  BY <1>1
<1>6. ASSUME l # 0, Needs(p, target, l, down) <= NetOf(w)
      PROVE  s = [next |-> target, in |-> Needs(p, target, l, down),
                  out |-> Gives(p, target, l, down), fee |-> FeeOnTop(Needs(p, target, l, down))]
  <2>1. next = target
    BY <1>0, <1>2, <1>3, <1>6
  <2> QED
    BY <1>1, <1>4, <1>6, <1>d, <2>1
<1>7. ASSUME NEW q \in Nat \ {0}, NEW n \in Nat, l # 0, StepBounds(q, p, target, down),
             Needs(p, q, l, down) <= NetOf(w), n <= Gives(p, q, l, down)
      PROVE  n <= s.out
  <2>1. Facing(p, q, down) /\ Facing(q, target, down)
    BY <1>7 DEF StepBounds, Facing
  <2>2. CASE Needs(p, target, l, down) <= NetOf(w)
    <3>1. s.out = Gives(p, target, l, down)
      BY <1>6, <1>7, <2>2
    <3> QED
      BY <1>7, <2>1, <3>1, GivesMore
  <2>3. CASE ~(Needs(p, target, l, down) <= NetOf(w))
    <3>1. far \in Nat /\ Facing(q, far, down)
      BY <1>2, <1>7, <2>1, InputLeads
    <3>2. far # Fail
      BY <3>1 DEF Fail
    <3> HIDE DEF far
    <3>3. next = IF down THEN MaxOf(far, target) ELSE MinOf(far, target)
      BY <1>0, <1>2, <1>3, <2>3, <3>2
    <3>4. next \in Nat \ {0} /\ Facing(q, next, down) /\ next # Fail
      BY <1>7, <2>1, <3>1, <3>3 DEF Facing, MaxOf, MinOf, Fail
    <3>5. s.out = Gives(p, next, l, down)
      BY <1>1, <1>7, <3>4
    <3> QED
      BY <1>7, <2>1, <3>4, <3>5, GivesMore
  <2> QED
    BY <2>2, <2>3
<1> QED
  BY <1>5, <1>6, <1>7

\* What a round of the loop starts from.
LEMMA RoundStarts ==
    ASSUME CurveInv, raw.total > 0, NEW down \in BOOLEAN,
           NEW s \in LoopStates(down), ~Stops(s, down),
           NEW target, target = Target(FindInitializedTick(map, s.tick, down), down)
    PROVE  /\ s.price \in Nat \ {0} /\ target \in Nat \ {0} /\ Facing(s.price, target, down)
           /\ s.liq \in Nat /\ s.left \in Nat \ {0} /\ s.worth \in Nat
           /\ s.liq = Held(pos, ActiveAt(s.tick))
<1> DEFINE next == FindInitializedTick(map, s.tick, down)
<1>1. PICK c \in Live(map) :
              /\ next = [tick |-> c * TickSpacing, init |-> TRUE]
              /\ OnSide(c * TickSpacing, s.tick, down)
              /\ \A e \in Live(map) : OnSide(e * TickSpacing, s.tick, down) =>
                    Within(e * TickSpacing, c * TickSpacing, down)
  BY NextOfSwap
<1> DEFINE T == c * TickSpacing
<1>2. T \in MinTick..MaxTick
  <2>1. c \in CTicks /\ Usable(c) /\ c \in Int
    BY CTicksBounded DEF Indexed, Live, CurveInv
  <2>2. T \in Int
    BY <2>1, Sizes
  <2> QED
    BY <2>1, <2>2, Sizes DEF Usable
<1>3. next.tick = T /\ OnSide(T, s.tick, down)
  BY <1>1
<1>4. /\ s.price # Fail /\ s.left # 0 /\ s.price \in Prices /\ OnStep(s.price, s.tick)
      /\ IF down THEN PriceLimit(down) <= s.price ELSE s.price <= PriceLimit(down)
      /\ s.liq = Held(pos, ActiveAt(s.tick))
  <2>1. s.price # Fail /\ s.left # 0
    BY DEF Stops
  <2> QED
    BY <2>1 DEF LoopStates, LoopState
<1>5. s.tick \in MinTick..MaxTick /\ s.liq \in Nat /\ s.left \in Nat /\ s.worth \in Nat
  BY DEF LoopStates
<1>6. target = Target(next, down)
  OBVIOUS
<1> HIDE DEF next, T
<1>7. /\ target \in Prices /\ IF down THEN target <= s.price ELSE s.price <= target
  BY <1>2, <1>3, <1>4, <1>5, <1>6, TargetFacts
<1> QED
  BY <1>4, <1>5, <1>7, PriceRange DEF Facing

\* What a round leaves of its step.
Takes(r, s, step, down, exactIn) ==
    /\ r.price = step.next
    /\ r.left = MaxOf(0, s.left - IF exactIn THEN step.in + step.fee ELSE step.out)
    /\ r.worth = s.worth + IF exactIn THEN step.out ELSE step.in + step.fee
    /\ r.tick = LET next == FindInitializedTick(map, s.tick, down)
                IN IF step.next = SqrtRatio[next.tick] THEN TickReached(next, down)
                   ELSE IF step.next # s.price /\ step.next # Fail THEN TickAt(step.next)
                   ELSE s.tick
StepOf(s, down, exactIn) ==
    SwapStep(s.price, Target(FindInitializedTick(map, s.tick, down), down),
             s.liq, s.left, down, exactIn)

LEMMA RoundIs ==
    ASSUME NEW down \in BOOLEAN, NEW exactIn \in BOOLEAN, NEW s
    PROVE  Takes(Round(s, down, exactIn), s, StepOf(s, down, exactIn), down, exactIn)
<1> DEFINE next == FindInitializedTick(map, s.tick, down)
           step == StepOf(s, down, exactIn)
           r == Round(s, down, exactIn)
           token == IF down THEN 0 ELSE 1
           cut == FeePart(step.fee)
           g == [s.growth EXCEPT ![token] =
                   WrappingAdd(@, FeeGrowthDelta(step.fee - cut, s.liq))]
           d == CompressTick(next.tick)
           reached == step.next = SqrtRatio[next.tick]
           crossing == reached /\ next.init
           toTick == IF reached THEN TickReached(next, down)
                     ELSE IF step.next # s.price /\ step.next # Fail THEN TickAt(step.next)
                     ELSE s.tick
           toLiq == IF crossing THEN s.liq + NetAcross(s.ticks, d, down) ELSE s.liq
           last == IF s.liq > 0 THEN s.liq ELSE s.last
           crossed == IF crossing THEN {next.tick} ELSE s.crossed
           left == MaxOf(0, s.left - IF exactIn THEN step.in + step.fee ELSE step.out)
           worth == s.worth + IF exactIn THEN step.out ELSE step.in + step.fee
           ticks == IF crossing THEN CrossTick(s.ticks, d, g) ELSE s.ticks
<1>1. r = Advance(s, step, next, down, exactIn)
  BY Zenon DEF Round, StepOf
<1> HIDE DEF step, r
<1> HIDE DEF next
<1>2. r = [price |-> step.next, tick |-> toTick, liq |-> toLiq, last |-> last,
           crossed |-> crossed, left |-> left, worth |-> worth, cut |-> s.cut + cut,
           growth |-> g, ticks |-> ticks]
  BY <1>1, Zenon DEF Advance
<1>3. toTick = IF step.next = SqrtRatio[next.tick] THEN TickReached(next, down)
               ELSE IF step.next # s.price /\ step.next # Fail THEN TickAt(step.next)
               ELSE s.tick
  BY Zenon
<1> HIDE DEF cut, g, d, reached, crossing, toTick, toLiq, last, crossed, left, worth, ticks
<1>4. r.price = step.next /\ r.tick = toTick /\ r.left = left /\ r.worth = worth
  BY <1>2
<1>5. Takes(r, s, step, down, exactIn)
  BY <1>3, <1>4, Zenon DEF Takes, left, worth, next
<1> QED
  BY <1>5 DEF r, step

\* What a swap is worth only grows, and what is left of an output stays while it
\* does not.
LEMMA WorthRises ==
    ASSUME CurveInv, raw.total > 0, NEW down \in BOOLEAN, NEW exactIn \in BOOLEAN,
           NEW s \in LoopStates(down), ~Stops(s, down), NEW r, r = Round(s, down, exactIn)
    PROVE  /\ r.worth >= s.worth
           /\ ~exactIn /\ r.worth = s.worth => r.left = s.left
<1> DEFINE target == Target(FindInitializedTick(map, s.tick, down), down)
           step == SwapStep(s.price, target, s.liq, s.left, down, exactIn)
<1>1. /\ r.left = MaxOf(0, s.left - IF exactIn THEN step.in + step.fee ELSE step.out)
      /\ r.worth = s.worth + IF exactIn THEN step.out ELSE step.in + step.fee
  <2>1. Takes(r, s, StepOf(s, down, exactIn), down, exactIn)
    BY RoundIs, Zenon
  <2>2. step = StepOf(s, down, exactIn)
    BY Zenon DEF StepOf
  <2> HIDE DEF step
  <2> QED
    BY <2>1, <2>2, Zenon DEF Takes
<1>2. /\ s.price \in Nat \ {0} /\ target \in Nat \ {0} /\ Facing(s.price, target, down)
      /\ s.liq \in Nat /\ s.left \in Nat \ {0} /\ s.worth \in Nat
  BY RoundStarts
<1>3. step = SwapStep(s.price, target, s.liq, s.left, down, exactIn)
  OBVIOUS
<1>4. ~exactIn => step = StepOut(s.price, target, s.liq, s.left, down)
  <2> HIDE DEF target
  <2> SUFFICES ASSUME ~exactIn PROVE step = StepOut(s.price, target, s.liq, s.left, down)
    OBVIOUS
  <2>1. exactIn = FALSE
    OBVIOUS
  <2> QED
    BY <1>3, <2>1, StepForm, Zenon
<1> HIDE DEF step, target
<1>5. step.in \in Nat /\ step.out \in Nat /\ step.fee \in Nat
  <2>1. s.left \in Nat
    BY <1>2
  <2> QED
    BY <1>2, <1>3, <2>1, SwapStepFacts, SMTT(40)
<1>6. r.worth >= s.worth
  BY <1>1, <1>2, <1>5
<1>7. ASSUME ~exactIn, r.worth = s.worth PROVE r.left = s.left
  <2>1. step.in = 0
    BY <1>1, <1>2, <1>5, <1>7
  <2>2. step.out = 0
    <3>1. CASE step.next = Fail
      <4>1. step = StepOut(s.price, target, s.liq, s.left, down) /\ target # Fail
        BY <1>2, <1>4, <1>7 DEF Fail
      <4>2. step = NoStep(Fail)
        BY <3>1, <4>1 DEF StepOut, NoStep
      <4> QED
        BY <4>2 DEF NoStep
    <3>2. CASE step.next # Fail
      <4>1. OutStep(step, s.price, target, s.liq, s.left, down)
        BY <1>2, <1>4, <1>7, <3>2, ExactOutStep
      <4>2. CASE s.liq = 0
        BY <4>1, <4>2 DEF OutStep, NoStep
      <4>3. CASE s.liq # 0 /\ step = [next |-> target, in |-> Needs(s.price, target, s.liq, down),
                                       out |-> Gives(s.price, target, s.liq, down),
                                       fee |-> FeeOnTop(Needs(s.price, target, s.liq, down))]
        <5>1. Needs(s.price, target, s.liq, down) = 0 /\ s.liq \in Nat \ {0}
          BY <1>2, <2>1, <4>3
        <5>2. Gives(s.price, target, s.liq, down) = 0
          BY <1>2, <5>1, NothingFree
        <5> QED
          BY <4>3, <5>2
      <4>4. CASE /\ s.liq # 0 /\ step.next \in Nat \ {0}
                 /\ StepBounds(step.next, s.price, target, down)
                 /\ step.in = Needs(s.price, step.next, s.liq, down)
                 /\ step.out = s.left /\ s.left <= Gives(s.price, step.next, s.liq, down)
        <5>1. /\ Needs(s.price, step.next, s.liq, down) = 0 /\ s.liq \in Nat \ {0}
              /\ Facing(s.price, step.next, down)
          BY <1>2, <2>1, <4>4 DEF Facing, StepBounds
        <5>2. Gives(s.price, step.next, s.liq, down) = 0
          BY <1>2, <4>4, <5>1, NothingFree
        <5> QED
          BY <1>2, <4>4, <5>2
      <4> QED
        BY <4>1, <4>2, <4>3, <4>4 DEF OutStep
    <3> QED
      BY <3>1, <3>2
  <2>3. r.left = MaxOf(0, s.left - 0)
    BY <1>1, <1>7, <2>2
  <2> QED
    BY <1>2, <2>3 DEF MaxOf
<1> QED
  BY <1>6, <1>7

\* What a step of an input gives is an amount.
LEMMA StepInGives ==
    ASSUME NEW p \in Nat \ {0}, NEW target \in Nat \ {0}, NEW l \in Nat, NEW left \in Nat,
           NEW down \in BOOLEAN, Facing(p, target, down)
    PROVE  StepIn(p, target, l, left, down).out \in Nat
<1>1. \A exactIn \in BOOLEAN : SwapStep(p, target, l, left, down, exactIn).out \in Nat
  <2> TAKE exactIn \in BOOLEAN
  <2> DEFINE step == SwapStep(p, target, l, left, down, exactIn)
  <2>1. step = SwapStep(p, target, l, left, down, exactIn)
    OBVIOUS
  <2> HIDE DEF step
  <2>2. step.in \in Nat /\ step.out \in Nat /\ step.fee \in Nat
    BY <2>1, SwapStepFacts, SMTT(40)
  <2> QED
    BY <2>2 DEF step
<1>2. TRUE \in BOOLEAN
  OBVIOUS
<1>3. SwapStep(p, target, l, left, down, TRUE).out \in Nat
  BY <1>1, <1>2, Zenon
<1> QED
  BY <1>3, StepForm, Zenon

\* A quoted swap and the swap that pays what it is worth, at the same place:
\* what the one has spent is what the other has left to spend, and what the one
\* has to get is what the other has not got.
Along(e, s, n, w) ==
    /\ s.price = e.price /\ s.tick = e.tick
    /\ s.left + e.worth = w /\ s.worth + e.left = n

\* Where a round leaves its price and its tick.
Leaves(r, s, step, down) ==
    /\ r.price = step.next
    /\ r.tick = LET next == FindInitializedTick(map, s.tick, down)
                IN IF step.next = SqrtRatio[next.tick] THEN TickReached(next, down)
                   ELSE IF step.next # s.price /\ step.next # Fail THEN TickAt(step.next)
                   ELSE s.tick

LeavesOut(r, s, step, down) ==
    /\ Leaves(r, s, step, down) /\ r.left = MaxOf(0, s.left - step.out)
    /\ r.worth = s.worth + (step.in + step.fee)
LeavesIn(r, s, step, down) ==
    /\ Leaves(r, s, step, down) /\ r.left = MaxOf(0, s.left - (step.in + step.fee))
    /\ r.worth = s.worth + step.out

\* A round of the quote, and a round of the swap that pays it.
RoundOut(s, down) == Round(s, down, FALSE)
RoundIn(s, down) == Round(s, down, TRUE)

\* What each leaves of its step.
LEMMA RoundsAre ==
    ASSUME NEW down \in BOOLEAN, NEW s, NEW target,
           target = Target(FindInitializedTick(map, s.tick, down), down)
    PROVE  /\ LeavesOut(RoundOut(s, down), s, StepOut(s.price, target, s.liq, s.left, down), down)
           /\ LeavesIn(RoundIn(s, down), s, StepIn(s.price, target, s.liq, s.left, down), down)
<1> DEFINE a == StepOut(s.price, target, s.liq, s.left, down)
           b == StepIn(s.price, target, s.liq, s.left, down)
<1>1. StepOf(s, down, FALSE) = a /\ StepOf(s, down, TRUE) = b
  <2>1. /\ StepOf(s, down, FALSE) = SwapStep(s.price, target, s.liq, s.left, down, FALSE)
        /\ StepOf(s, down, TRUE) = SwapStep(s.price, target, s.liq, s.left, down, TRUE)
    BY Zenon DEF StepOf
  <2> QED
    BY <2>1, StepForm, Zenon
<1>2. /\ Takes(RoundOut(s, down), s, StepOf(s, down, FALSE), down, FALSE)
      /\ Takes(RoundIn(s, down), s, StepOf(s, down, TRUE), down, TRUE)
  <2>1. FALSE \in BOOLEAN /\ TRUE \in BOOLEAN
    OBVIOUS
  <2> QED
    BY <2>1, RoundIs, Zenon DEF RoundOut, RoundIn
<1> HIDE DEF a, b
<1>3. /\ Takes(RoundOut(s, down), s, a, down, FALSE)
      /\ Takes(RoundIn(s, down), s, b, down, TRUE)
  BY <1>1, <1>2, Zenon
<1>4. /\ Leaves(RoundOut(s, down), s, a, down)
      /\ RoundOut(s, down).left = MaxOf(0, s.left - a.out)
      /\ RoundOut(s, down).worth = s.worth + (a.in + a.fee)
  BY <1>3, Zenon DEF Takes, Leaves
<1>5. /\ Leaves(RoundIn(s, down), s, b, down)
      /\ RoundIn(s, down).left = MaxOf(0, s.left - (b.in + b.fee))
      /\ RoundIn(s, down).worth = s.worth + b.out
  BY <1>3, Zenon DEF Takes, Leaves
<1> QED
  BY <1>4, <1>5, Zenon DEF a, b, LeavesOut, LeavesIn

\* They stay together until the quote ends, at the latest where the swap has got
\* all that was quoted.
LEMMA RoundsAlong ==
    ASSUME CurveInv, raw.total > 0, NEW down \in BOOLEAN, NEW n \in Nat, NEW w \in Nat,
           NEW e \in LoopStates(down), NEW s \in LoopStates(down), Along(e, s, n, w),
           ~Stops(e, down), ~Stops(s, down),
           NEW re, re = RoundOut(e, down), NEW rs, rs = RoundIn(s, down),
           re.price # Fail, re.worth <= w
    PROVE  Along(re, rs, n, w) \/ n <= rs.worth
<1> DEFINE target == Target(FindInitializedTick(map, s.tick, down), down)
<1>1. /\ s.price \in Nat \ {0} /\ target \in Nat \ {0} /\ Facing(s.price, target, down)
      /\ s.liq \in Nat /\ s.left \in Nat \ {0} /\ s.worth \in Nat
      /\ s.liq = Held(pos, ActiveAt(s.tick))
  BY RoundStarts
<1>2. e.tick = s.tick /\ e.price = s.price
  BY DEF Along
<1>3. /\ e.price \in Nat \ {0} /\ target \in Nat \ {0} /\ Facing(e.price, target, down)
      /\ e.liq \in Nat /\ e.left \in Nat \ {0} /\ e.worth \in Nat
      /\ e.liq = Held(pos, ActiveAt(e.tick))
  <2>1. target = Target(FindInitializedTick(map, e.tick, down), down)
    BY <1>2
  <2> HIDE DEF target
  <2> QED
    BY <2>1, RoundStarts
<1>4. e.liq = s.liq
  BY <1>1, <1>2, <1>3
<1>5. target = Target(FindInitializedTick(map, e.tick, down), down)
      /\ target = Target(FindInitializedTick(map, s.tick, down), down)
  BY <1>2
<1> HIDE DEF target
<1> DEFINE a == StepOut(e.price, target, e.liq, e.left, down)
           b == StepIn(s.price, target, s.liq, s.left, down)
<1>a. LeavesOut(re, e, a, down)
  BY <1>5, RoundsAre, Zenon
<1>b. LeavesIn(rs, s, b, down)
  BY <1>5, RoundsAre, Zenon
<1>c. a = StepOut(e.price, target, e.liq, e.left, down) /\ b = StepIn(s.price, target, s.liq, s.left, down)
  OBVIOUS
<1> HIDE DEF a, b
<1>6. /\ Leaves(re, e, a, down) /\ re.left = MaxOf(0, e.left - a.out)
      /\ re.worth = e.worth + (a.in + a.fee)
  BY <1>a, Zenon DEF LeavesOut
<1>7. /\ Leaves(rs, s, b, down) /\ rs.left = MaxOf(0, s.left - (b.in + b.fee))
      /\ rs.worth = s.worth + b.out
  BY <1>b, Zenon DEF LeavesIn
<1> DEFINE p == s.price
           l == s.liq
           x == e.left
           y == s.left
<1>9. /\ p \in Nat \ {0} /\ target \in Nat \ {0} /\ l \in Nat /\ Facing(p, target, down)
      /\ x \in Nat \ {0} /\ y \in Nat \ {0} /\ y \in Nat
      /\ a = StepOut(p, target, l, x, down) /\ b = StepIn(p, target, l, y, down)
  BY <1>1, <1>2, <1>3, <1>4, <1>c
<1>10. a.next # Fail
  BY <1>6 DEF Leaves
<1>11. OutStep(a, p, target, l, x, down)
  <2> HIDE DEF p, l, x, y
  <2> QED BY <1>9, <1>10, ExactOutStep
<1>12. /\ l = 0 => b = NoStep(target)
       /\ l # 0 /\ Needs(p, target, l, down) <= NetOf(y) =>
             b = [next |-> target, in |-> Needs(p, target, l, down),
                  out |-> Gives(p, target, l, down), fee |-> FeeOnTop(Needs(p, target, l, down))]
       /\ \A q \in Nat \ {0}, k \in Nat :
             /\ l # 0 /\ StepBounds(q, p, target, down)
             /\ Needs(p, q, l, down) <= NetOf(y) /\ k <= Gives(p, q, l, down)
             => k <= b.out
  <2> HIDE DEF p, l, x, y
  <2> QED BY <1>9, ExactInStep
<1>13. ASSUME NEW q \in Nat \ {0} PROVE Needs(p, q, l, down) \in Nat /\ Gives(p, q, l, down) \in Nat
  <2> HIDE DEF p, l
  <2> QED BY <1>9, AmountNat DEF Needs, Gives
<1>14. /\ y + e.worth = w /\ s.worth + x = n /\ e.worth \in Nat /\ s.worth \in Nat
       /\ rs.left = MaxOf(0, y - (b.in + b.fee)) /\ rs.worth = s.worth + b.out
       /\ re.left = MaxOf(0, x - a.out) /\ re.worth = e.worth + (a.in + a.fee)
  BY <1>1, <1>3, <1>6, <1>7 DEF Along
<1> HIDE DEF p, l, x, y
\* The same step.
<1>15. ASSUME a = b, a.in \in Nat, a.fee \in Nat, a.out \in Nat, a.out <= x
       PROVE  Along(re, rs, n, w)
  <2>1. rs.price = re.price /\ rs.tick = re.tick
    BY <1>2, <1>6, <1>7, <1>15, Zenon DEF Leaves
  <2> DEFINE i == a.in
             f == a.fee
             o == a.out
  <2>2. /\ i \in Nat /\ f \in Nat /\ o \in Nat /\ o <= x
        /\ rs.left = MaxOf(0, y - (i + f)) /\ rs.worth = s.worth + o
        /\ re.left = MaxOf(0, x - o) /\ re.worth = e.worth + (i + f)
    BY <1>14, <1>15, Zenon
  <2> HIDE DEF i, f, o
  <2>3. i + f <= y
    BY <1>9, <1>14, <2>2
  <2>4. rs.left + re.worth = w /\ rs.worth + re.left = n
    <3>1. rs.left = y - (i + f) /\ re.left = x - o
      BY <1>9, <2>2, <2>3 DEF MaxOf
    <3> QED
      BY <1>9, <1>14, <2>2, <3>1
  <2> QED
    BY <2>1, <2>4 DEF Along
<1>16. CASE l = 0
  <2>1. a = NoStep(target) /\ b = NoStep(target)
    BY <1>11, <1>12, <1>16 DEF OutStep
  <2>2. a = b /\ a.in = 0 /\ a.fee = 0 /\ a.out = 0
    BY <2>1 DEF NoStep
  <2> QED
    BY <1>9, <1>15, <2>2
<1>17. CASE /\ l # 0 /\ Gives(p, target, l, down) <= x
            /\ a = [next |-> target, in |-> Needs(p, target, l, down),
                    out |-> Gives(p, target, l, down), fee |-> FeeOnTop(Needs(p, target, l, down))]
  <2> DEFINE m == Needs(p, target, l, down)
  <2>1. m \in Nat /\ FeeOnTop(m) \in Nat /\ Gives(p, target, l, down) \in Nat
    BY <1>9, <1>13, FeeOnTopNat
  <2>2. a.in = m /\ a.fee = FeeOnTop(m) /\ a.out = Gives(p, target, l, down)
    BY <1>17
  <2> HIDE DEF m
  <2>3. m + FeeOnTop(m) <= y
    BY <1>9, <1>14, <2>1, <2>2
  <2>4. m <= NetOf(y)
    BY <1>9, <2>1, <2>3, NetCovers
  <2>5. a = b
    BY <1>12, <1>17, <2>4 DEF m
  <2> QED
    BY <1>15, <1>17, <2>1, <2>2, <2>5
<1>18. CASE /\ l # 0 /\ a.next \in Nat \ {0} /\ StepBounds(a.next, p, target, down)
            /\ a.in = Needs(p, a.next, l, down) /\ a.fee = FeeOnTop(a.in)
            /\ a.out = x /\ x <= Gives(p, a.next, l, down)
  <2> DEFINE m == Needs(p, a.next, l, down)
  <2>1. m \in Nat /\ FeeOnTop(m) \in Nat
    BY <1>13, <1>18, FeeOnTopNat
  <2>2. a.in = m /\ a.fee = FeeOnTop(m)
    BY <1>18
  <2> HIDE DEF m
  <2>3. m + FeeOnTop(m) <= y
    BY <1>9, <1>14, <2>1, <2>2
  <2>4. m <= NetOf(y)
    BY <1>9, <2>1, <2>3, NetCovers
  <2>5. x <= b.out
    BY <1>9, <1>12, <1>18, <2>4 DEF m
  <2>6. b.out \in Nat
    <3>1. y \in Nat
      BY <1>9
    <3> QED
      BY <1>9, <3>1, StepInGives
  <2> QED
    BY <1>9, <1>14, <2>5, <2>6
<1> QED
  BY <1>11, <1>16, <1>17, <1>18 DEF OutStep

\* estimate_swap_strict_receive of an output; a swap of an input.
Quote(n, down) == SwapLoop(n, down, FALSE)
Paying(n, down) == SwapLoop(n, down, TRUE)

\* The states of a quote, and of a swap that pays it.
LEMMA QuoteRounds ==
    ASSUME CurveInv, pfFraction \in 0..FeeDenominator, raw.total > 0,
           NEW down \in BOOLEAN, NEW n \in Nat, LimitAhead(down)
    PROVE  /\ \E k \in [0..MaxRounds -> LoopStates(down)] :
                /\ k[0] = BeforeSwap(n)
                /\ \A i \in 1..MaxRounds :
                     k[i] = IF Stops(k[i - 1], down) THEN k[i - 1] ELSE RoundOut(k[i - 1], down)
                /\ Quote(n, down) = IF Stops(k[MaxRounds], down) THEN k[MaxRounds]
                                    ELSE [k[MaxRounds] EXCEPT !.price = Fail]
           /\ \E k \in [0..MaxRounds -> LoopStates(down)] :
                /\ k[0] = BeforeSwap(n)
                /\ \A i \in 1..MaxRounds :
                     k[i] = IF Stops(k[i - 1], down) THEN k[i - 1] ELSE RoundIn(k[i - 1], down)
                /\ Paying(n, down) = IF Stops(k[MaxRounds], down) THEN k[MaxRounds]
                                     ELSE [k[MaxRounds] EXCEPT !.price = Fail]
<1>0. FALSE \in BOOLEAN /\ TRUE \in BOOLEAN
  OBVIOUS
<1>1. PICK k : Rounds(k, n, down, FALSE)
  BY <1>0, LoopRounds, Zenon
<1>2. PICK h : Rounds(h, n, down, TRUE)
  BY <1>0, LoopRounds, Zenon
<1>3. /\ k \in [0..MaxRounds -> LoopStates(down)] /\ k[0] = BeforeSwap(n)
      /\ \A i \in 1..MaxRounds :
            k[i] = IF Stops(k[i - 1], down) THEN k[i - 1] ELSE RoundOut(k[i - 1], down)
      /\ Quote(n, down) = IF Stops(k[MaxRounds], down) THEN k[MaxRounds]
                          ELSE [k[MaxRounds] EXCEPT !.price = Fail]
  BY <1>1, Zenon DEF Rounds, RoundOut, Quote
<1>4. /\ h \in [0..MaxRounds -> LoopStates(down)] /\ h[0] = BeforeSwap(n)
      /\ \A i \in 1..MaxRounds :
            h[i] = IF Stops(h[i - 1], down) THEN h[i - 1] ELSE RoundIn(h[i - 1], down)
      /\ Paying(n, down) = IF Stops(h[MaxRounds], down) THEN h[MaxRounds]
                           ELSE [h[MaxRounds] EXCEPT !.price = Fail]
  BY <1>2, Zenon DEF Rounds, RoundIn, Paying
<1> QED
  BY <1>3, <1>4, Zenon

\* What a swap has gained or spent only grows from round to round.
LEMMA RoundsRise ==
    ASSUME CurveInv, raw.total > 0, NEW down \in BOOLEAN,
           NEW s \in LoopStates(down), ~Stops(s, down)
    PROVE  /\ RoundOut(s, down).worth >= s.worth
           /\ RoundOut(s, down).worth = s.worth => RoundOut(s, down).left = s.left
           /\ RoundIn(s, down).worth >= s.worth
<1>1. \A exactIn \in BOOLEAN :
         /\ Round(s, down, exactIn).worth >= s.worth
         /\ ~exactIn /\ Round(s, down, exactIn).worth = s.worth
              => Round(s, down, exactIn).left = s.left
  BY WorthRises
<1>2. /\ Round(s, down, FALSE).worth >= s.worth /\ Round(s, down, TRUE).worth >= s.worth
      /\ Round(s, down, FALSE).worth = s.worth => Round(s, down, FALSE).left = s.left
  <2>1. FALSE \in BOOLEAN /\ TRUE \in BOOLEAN
    OBVIOUS
  <2> QED
    BY <1>1, <2>1, Zenon
<1> QED
  BY <1>2, Zenon DEF RoundOut, RoundIn

\* What the quote asks for buys the output.
LEMMA QuoteBuys ==
    ASSUME CurveInv, pfFraction \in 0..FeeDenominator, raw.total > 0,
           NEW down \in BOOLEAN, NEW n \in Nat, LimitAhead(down),
           Quote(n, down).price # Fail, ~(Quote(n, down).left > 0)
    PROVE  n <= Paying(Quote(n, down).worth, down).worth
<1> DEFINE S == LoopStates(down)
           w == Quote(n, down).worth
<1>1. PICK e \in [0..MaxRounds -> S] :
                /\ e[0] = BeforeSwap(n)
                /\ \A i \in 1..MaxRounds :
                     e[i] = IF Stops(e[i - 1], down) THEN e[i - 1] ELSE RoundOut(e[i - 1], down)
                /\ Quote(n, down) = IF Stops(e[MaxRounds], down) THEN e[MaxRounds]
                                    ELSE [e[MaxRounds] EXCEPT !.price = Fail]
  BY QuoteRounds
<1>2. MaxRounds \in Nat /\ MaxRounds \in 0..MaxRounds /\ 0 \in 0..MaxRounds
  BY Sizes
<1>3. \A s \in S : /\ s.left \in Nat /\ s.worth \in Nat
                   /\ [s EXCEPT !.price = Fail].price = Fail
                   /\ [s EXCEPT !.price = Fail].worth = s.worth
  BY DEF LoopStates
<1>4. /\ Stops(e[MaxRounds], down) /\ Quote(n, down) = e[MaxRounds]
      /\ e[MaxRounds].left = 0 /\ e[MaxRounds].price # Fail /\ w = e[MaxRounds].worth /\ w \in Nat
  <2> DEFINE end == e[MaxRounds]
  <2>1. end \in S
    BY <1>1, <1>2
  <2>2. Quote(n, down) = IF Stops(end, down) THEN end ELSE [end EXCEPT !.price = Fail]
    BY <1>1
  <2> HIDE DEF end, S
  <2>3. Stops(end, down)
    BY <1>3, <2>1, <2>2
  <2>4. Quote(n, down) = end
    BY <2>2, <2>3
  <2>5. end.left = 0 /\ end.price # Fail /\ end.worth \in Nat
    BY <1>3, <2>1, <2>4
  <2> QED
    BY <2>3, <2>4, <2>5 DEF end
<1> HIDE DEF w
<1>5. PICK s \in [0..MaxRounds -> S] :
                /\ s[0] = BeforeSwap(w)
                /\ \A i \in 1..MaxRounds :
                     s[i] = IF Stops(s[i - 1], down) THEN s[i - 1] ELSE RoundIn(s[i - 1], down)
                /\ Paying(w, down) = IF Stops(s[MaxRounds], down) THEN s[MaxRounds]
                                     ELSE [s[MaxRounds] EXCEPT !.price = Fail]
  BY <1>4, QuoteRounds
<1>6. \A i \in 1..MaxRounds : i - 1 \in 0..MaxRounds /\ i \in 0..MaxRounds
  BY <1>2
<1>7. \A i \in 1..MaxRounds : e[i - 1] \in S /\ e[i] \in S /\ s[i - 1] \in S /\ s[i] \in S
  BY <1>6
<1> HIDE DEF S
\* The worth of the quote grows to what it is worth, and it ends with nothing left.
<1> DEFINE Behind(i) == /\ e[i].worth <= w
                        /\ e[i].worth = w => e[i].left = 0
                        /\ Stops(e[i], down) => e[i].left = 0 /\ e[i].price # Fail
<1>8. \A i \in 0..MaxRounds : Behind(i)
  <2> DEFINE T == {j \in 0..MaxRounds : Behind(MaxRounds - j)}
  <2>1. 0 \in T
    <3>1. Behind(MaxRounds)
      BY <1>4
    <3>2. MaxRounds - 0 = MaxRounds
      BY <1>2
    <3> HIDE DEF Behind
    <3> QED
      BY <1>2, <3>1, <3>2
  <2>2. ASSUME NEW i \in 1..MaxRounds, Behind(i) PROVE Behind(i - 1)
    <3>1. /\ e[i] = IF Stops(e[i - 1], down) THEN e[i - 1] ELSE RoundOut(e[i - 1], down)
          /\ e[i - 1] \in S /\ e[i] \in S
      BY <1>1, <1>7
    <3> DEFINE x == e[i - 1]
               y == e[i]
    <3>2. /\ y = IF Stops(x, down) THEN x ELSE RoundOut(x, down)
          /\ x \in S /\ y \in S
          /\ y.worth <= w /\ (y.worth = w => y.left = 0)
          /\ Stops(y, down) => y.left = 0 /\ y.price # Fail
      BY <2>2, <3>1
    <3> HIDE DEF x, y
    <3>3. x.worth \in Nat /\ y.worth \in Nat /\ w \in Nat
      BY <1>3, <1>4, <3>2
    <3>4. x.worth <= w /\ (x.worth = w => x.left = 0)
          /\ (Stops(x, down) => x.left = 0 /\ x.price # Fail)
      <4>1. CASE Stops(x, down)
        BY <3>2, <4>1
      <4>2. CASE ~Stops(x, down)
        <5>1. y = RoundOut(x, down)
          BY <3>2, <4>2
        <5>2. /\ RoundOut(x, down).worth >= x.worth
              /\ RoundOut(x, down).worth = x.worth => RoundOut(x, down).left = x.left
              /\ RoundIn(x, down).worth >= x.worth
          BY <3>2, <4>2, RoundsRise DEF S
        <5>3. y.worth >= x.worth /\ (y.worth = x.worth => y.left = x.left)
          BY <5>1, <5>2
        <5> QED
          BY <3>2, <3>3, <4>2, <5>3
      <4> QED
        BY <4>1, <4>2
    <3> QED
      BY <3>4 DEF x
  <2> HIDE DEF Behind
  <2>3. \A j \in 1..MaxRounds : j - 1 \in T => j \in T
    <3> SUFFICES ASSUME NEW j \in 1..MaxRounds, Behind(MaxRounds - (j - 1))
                 PROVE  Behind(MaxRounds - j)
      BY <1>2
    <3>1. MaxRounds - (j - 1) \in 1..MaxRounds /\ (MaxRounds - (j - 1)) - 1 = MaxRounds - j
      BY <1>2
    <3> QED
      BY <2>2, <3>1
  <2>4. \A j \in 0..MaxRounds : j \in T
    <3> HIDE DEF T
    <3> QED BY <1>2, <2>1, <2>3, BoundedInduction
  <2>5. ASSUME NEW i \in 0..MaxRounds PROVE Behind(i)
    <3>1. MaxRounds - i \in 0..MaxRounds /\ MaxRounds - (MaxRounds - i) = i
      BY <1>2
    <3> QED
      BY <2>4, <3>1
  <2> QED
    BY <2>5
\* So the swap follows it to where it has got the output.
<1> DEFINE Follows(i) == Along(e[i], s[i], n, w) \/ n <= s[i].worth
           U == {i \in 0..MaxRounds : Follows(i)}
<1>9. 0 \in U
  <2>1. /\ BeforeSwap(w).price = BeforeSwap(n).price /\ BeforeSwap(w).tick = BeforeSwap(n).tick
        /\ BeforeSwap(w).left = w /\ BeforeSwap(n).left = n
        /\ BeforeSwap(w).worth = 0 /\ BeforeSwap(n).worth = 0
    BY DEF BeforeSwap
  <2>2. Along(BeforeSwap(n), BeforeSwap(w), n, w)
    BY <1>4, <2>1 DEF Along
  <2> QED
    BY <1>1, <1>2, <1>5, <2>2
<1>10. ASSUME NEW i \in 1..MaxRounds, Follows(i - 1) PROVE Follows(i)
  <2> DEFINE x == e[i - 1]
             y == e[i]
             t == s[i - 1]
             u == s[i]
  <2>1. /\ y = IF Stops(x, down) THEN x ELSE RoundOut(x, down)
        /\ u = IF Stops(t, down) THEN t ELSE RoundIn(t, down)
        /\ x \in S /\ y \in S /\ t \in S /\ u \in S
        /\ Along(x, t, n, w) \/ n <= t.worth
    BY <1>1, <1>5, <1>7, <1>10
  <2>2. /\ x.worth <= w /\ (x.worth = w => x.left = 0)
        /\ Stops(x, down) => x.left = 0 /\ x.price # Fail
        /\ y.worth <= w /\ (Stops(y, down) => y.price # Fail)
    BY <1>6, <1>8
  <2> HIDE DEF x, y, t, u
  <2>3. /\ x.left \in Nat /\ x.worth \in Nat /\ y.worth \in Nat
        /\ t.left \in Nat /\ t.worth \in Nat /\ u.worth \in Nat
    BY <1>3, <2>1
  <2>4. u.worth >= t.worth
    <3>1. CASE Stops(t, down)
      BY <2>1, <2>3, <3>1
    <3>2. CASE ~Stops(t, down)
      <4>1. u = RoundIn(t, down)
        BY <2>1, <3>2
      <4>2. /\ RoundOut(t, down).worth >= t.worth
            /\ RoundOut(t, down).worth = t.worth => RoundOut(t, down).left = t.left
            /\ RoundIn(t, down).worth >= t.worth
        BY <2>1, <3>2, RoundsRise DEF S
      <4> QED
        BY <4>1, <4>2
    <3> QED
      BY <3>1, <3>2
  <2>5. CASE n <= t.worth
    <3>1. n <= u.worth
      BY <2>3, <2>4, <2>5
    <3> QED
      BY <3>1 DEF u
  <2>6. CASE Along(x, t, n, w) /\ x.left = 0
    <3>1. n <= t.worth
      BY <2>3, <2>6 DEF Along
    <3>2. n <= u.worth
      BY <2>3, <2>4, <3>1
    <3> QED
      BY <3>2 DEF u
  <2>7. CASE Along(x, t, n, w) /\ x.left # 0
    <3>1. ~Stops(x, down) /\ y = RoundOut(x, down)
      BY <2>1, <2>2, <2>7
    <3>2. ~Stops(t, down)
      <4>1. x.worth # w
        BY <2>2, <2>7
      <4>2. t.left # 0 /\ t.price = x.price /\ t.tick = x.tick
        BY <1>4, <2>2, <2>3, <2>7, <4>1 DEF Along
      <4>3. t.liq \in Nat
        BY <2>1 DEF S, LoopStates
      <4> QED
        BY <3>1, <4>2, <4>3 DEF Stops
    <3>3. u = RoundIn(t, down)
      BY <2>1, <3>2
    <3>4. y.price # Fail
      <4>1. y.price = Fail => Stops(y, down)
        BY DEF Stops
      <4> QED
        BY <2>2, <4>1
    <3>5. Along(y, u, n, w) \/ n <= u.worth
      BY <1>4, <2>1, <2>2, <2>7, <3>1, <3>2, <3>3, <3>4, RoundsAlong DEF S
    <3> QED
      BY <3>5 DEF y, u
  <2> QED
    BY <2>1, <2>5, <2>6, <2>7
<1> HIDE DEF Follows
<1>11. \A i \in 0..MaxRounds : i \in U
  <2>1. \A i \in 1..MaxRounds : i - 1 \in U => i \in U
    BY <1>6, <1>10
  <2> HIDE DEF U
  <2> QED
    BY <1>2, <1>9, <2>1, BoundedInduction
<1>12. Along(e[MaxRounds], s[MaxRounds], n, w) \/ n <= s[MaxRounds].worth
  BY <1>2, <1>11 DEF Follows
<1>13. n <= s[MaxRounds].worth
  <2>1. s[MaxRounds].worth \in Nat
    BY <1>2, <1>3
  <2> QED
    BY <1>4, <1>12, <2>1 DEF Along
<1>14. Paying(w, down).worth = s[MaxRounds].worth
  BY <1>2, <1>3, <1>5
<1> QED
  BY <1>13, <1>14 DEF w

-----------------------------------------------------------------------------
(* Opening and leaving positions                                           *)

\* update_tick_liquidity of an end of a range.
NetAfter(net, delta, isUpper) == IF isUpper THEN net - delta ELSE net + delta

\* A tick that an update may find, and what the update leaves there.
Updatable(m, c, delta) ==
    /\ m \in MapType /\ Indexed(m) /\ c \in CTicks /\ Usable(c)
    /\ delta \in Int /\ m.tick[c].gross + delta \in Nat
Updated(m, R, c, delta, isUpper) ==
    /\ R \in MapType /\ Indexed(R)
    /\ R.tick[c].gross = m.tick[c].gross + delta
    /\ R.tick[c].net = NetAfter(m.tick[c].net, delta, isUpper)
    /\ \A d \in CTicks : d # c => R.tick[d] = m.tick[d]

LEMMA UpdateEnd ==
    ASSUME NEW m, NEW c, NEW delta, Updatable(m, c, delta), NEW isUpper \in BOOLEAN,
           NEW t, NEW g \in [Tokens -> Growth]
    PROVE  Updated(m, UpdateTickLiquidity(m, c * TickSpacing, delta, isUpper, t, g),
                   c, delta, isUpper)
<1> DEFINE x == c * TickSpacing
           S == UpdateTickLiquidity(m, x, delta, isUpper, t, g)
<1>1. /\ S \in MapType /\ Indexed(S)
      /\ S.tick = [m.tick EXCEPT ![c] = NewInfo(@, delta, isUpper, x, t, g)]
  BY UpdateTick DEF Updatable
<1>2. m \in MapType /\ c \in CTicks /\ S = UpdateTickLiquidity(m, c * TickSpacing, delta, isUpper, t, g)
  BY DEF Updatable
<1> HIDE DEF S, x
<1> DEFINE info == NewInfo(m.tick[c], delta, isUpper, x, t, g)
<1>3. m.tick \in [CTicks -> TickInfo]
  BY <1>2 DEF MapType
<1>4. S.tick[c] = info /\ \A d \in CTicks : d # c => S.tick[d] = m.tick[d]
  <2> HIDE DEF info
  <2>1. S.tick = [m.tick EXCEPT ![c] = info]
    BY <1>1 DEF info
  <2> QED
    BY <1>2, <1>3, <2>1
<1>5. /\ info.gross = m.tick[c].gross + delta
      /\ info.net = NetAfter(m.tick[c].net, delta, isUpper)
  BY DEF NewInfo, NetAfter
<1> HIDE DEF info
<1>6. Updated(m, S, c, delta, isUpper)
  BY <1>1, <1>4, <1>5 DEF Updated
<1> QED
  BY <1>2, <1>6

\* The positions after that of u in r became p.
Placed(u, r, p) == [pos EXCEPT ![u][r] = p]

\* A change of one position changes what is held by as much, where it counts.
LEMMA PlaceOfMove ==
    ASSUME NEW u \in Users, NEW r \in UsedRanges, NEW p \in Position,
           pos \in Positions, NEW q, q = Placed(u, r, p),
           NEW delta \in Int, p.liq = pos[u][r].liq + delta
    PROVE  /\ q \in Positions
           /\ \A S : Held(q, S) = Held(pos, S) + (IF <<u, r>> \in S THEN delta ELSE 0)
<1>1. pos[u] \in [UsedRanges -> Position]
  BY DEF Positions
<1>2. q \in Positions /\ q[u][r] = p
  BY <1>1 DEF Positions, Placed
<1>3. \A v \in Users : v # u => q[v] = pos[v]
  BY DEF Positions, Placed
<1>4. \A s \in UsedRanges : s # r => q[u][s] = pos[u][s]
  BY <1>1 DEF Positions, Placed
<1>5. ASSUME NEW x \in Places, x # <<u, r>> PROVE q[x[1]][x[2]] = pos[x[1]][x[2]]
  <2>1. x[1] \in Users /\ x[2] \in UsedRanges /\ x = <<x[1], x[2]>>
    BY DEF Places
  <2>2. x[1] # u \/ x[2] # r
    BY <1>5, <2>1
  <2> QED
    BY <1>3, <1>4, <2>1, <2>2
<1>6. /\ q \in Positions /\ q[u][r].liq = pos[u][r].liq + delta
      /\ \A x \in Places : x # <<u, r>> => q[x[1]][x[2]].liq = pos[x[1]][x[2]].liq
  BY <1>2, <1>5
<1>7. \A S : Held(q, S) = Held(pos, S) + (IF <<u, r>> \in S THEN delta ELSE 0)
  BY <1>6, HeldMoves
<1> QED
  BY <1>6, <1>7

\* An end of a range is the tick of one address only.
LEMMA EndAddress ==
    ASSUME NEW r \in Ranges, NEW i \in {1, 2}, NEW d \in CTicks
    PROVE  r[i] = CompressedToTick(d) <=> d = CompressTick(r[i])
<1> DEFINE c == CompressTick(r[i])
<1>1. c \in CTicks /\ Usable(c) /\ r[i] = c * TickSpacing /\ c \in Int /\ d \in Int
  BY EndUsable, CTicksBounded
<1> HIDE DEF c
<1>2. MinTick < r[i] /\ r[i] < MaxTick /\ r[i] \in Int
  BY <1>1, Sizes DEF Usable
<1>3. c * TickSpacing \in Int /\ d * TickSpacing \in Int
  BY <1>1, Sizes
<1>4. d = c => CompressedToTick(d) = r[i]
  BY <1>1, <1>2, Sizes DEF CompressedToTick, ClampTick
<1>5. ASSUME CompressedToTick(d) = r[i] PROVE d * TickSpacing = c * TickSpacing
  <2> DEFINE x == d * TickSpacing
  <2>1. ClampTick(x) = r[i] /\ x \in Int
    BY <1>3, <1>5 DEF CompressedToTick
  <2> HIDE DEF x
  <2>2. x = r[i]
    BY <1>2, <2>1, Sizes DEF ClampTick
  <2> QED
    BY <1>1, <2>2 DEF x
<1>6. d * TickSpacing = c * TickSpacing => d = c
  <2> DEFINE n == TickSpacing
  <2>1. n \in Nat \ {0}
    BY Sizes
  <2> HIDE DEF n
  <2>2. d * n = c * n => d = c
    BY <1>1, <2>1
  <2> QED
    BY <2>2 DEF n
<1> QED
  BY <1>4, <1>5, <1>6 DEF c

\* Both ends of a range are told of a change of a position there.
LEMMA TicksMove ==
    ASSUME CurveInv, NEW u \in Users, NEW r \in UsedRanges, NEW p \in Position,
           NEW q, q = Placed(u, r, p), NEW delta \in Int, p.liq = pos[u][r].liq + delta,
           NEW t, NEW n, n = BothTicks(map, r, delta, t, growth)
    PROVE  n \in MapType /\ Indexed(n) /\ TicksKnow(n, q)
<1> DEFINE a == CompressTick(r[1])
           b == CompressTick(r[2])
           m == UpdateTickLiquidity(map, r[1], delta, FALSE, t, growth)
           R == UpdateTickLiquidity(m, r[2], delta, TRUE, t, growth)
<1>1. r \in Ranges /\ q \in Positions /\ pos \in Positions
      /\ \A S : Held(q, S) = Held(pos, S) + (IF <<u, r>> \in S THEN delta ELSE 0)
  <2>1. r \in Ranges /\ pos \in Positions
    BY ConcentratedAssumption DEF CurveInv
  <2>2. /\ q \in Positions
        /\ \A S : Held(q, S) = Held(pos, S) + (IF <<u, r>> \in S THEN delta ELSE 0)
    BY <2>1, PlaceOfMove
  <2> QED
    BY <2>1, <2>2
<1>2. /\ a \in CTicks /\ Usable(a) /\ r[1] = a * TickSpacing
      /\ b \in CTicks /\ Usable(b) /\ r[2] = b * TickSpacing /\ r[1] < r[2]
  BY <1>1, EndUsable
<1>3. map \in MapType /\ Indexed(map) /\ growth \in [Tokens -> Growth] /\ TicksKnow(map, pos)
  BY DEF CurveInv
<1>4. \A d \in CTicks : (r[1] = CompressedToTick(d) <=> d = a) /\ (r[2] = CompressedToTick(d) <=> d = b)
  BY <1>1, EndAddress
<1>5. n = R
  BY Zenon DEF BothTicks
<1> HIDE DEF a, b
<1>6. a # b
  <2>1. r[1] \in Int
    BY <1>1, EndUsable
  <2> QED
    BY <1>2, <2>1
<1>7. \A x \in CTicks : LET s == CompressedToTick(x)
                        IN /\ Held(q, BeginsAt(s)) = Held(pos, BeginsAt(s)) + (IF x = a THEN delta ELSE 0)
                           /\ Held(q, EndsAt(s)) = Held(pos, EndsAt(s)) + (IF x = b THEN delta ELSE 0)
  <2> SUFFICES ASSUME NEW x \in CTicks, NEW s, s = CompressedToTick(x)
               PROVE /\ Held(q, BeginsAt(s)) = Held(pos, BeginsAt(s)) + (IF x = a THEN delta ELSE 0)
                     /\ Held(q, EndsAt(s)) = Held(pos, EndsAt(s)) + (IF x = b THEN delta ELSE 0)
    OBVIOUS
  <2>1. <<u, r>> \in Places
    BY DEF Places
  <2>2. <<u, r>> \in BeginsAt(s) <=> x = a
    BY <1>4, <2>1 DEF BeginsAt
  <2>3. <<u, r>> \in EndsAt(s) <=> x = b
    BY <1>4, <2>1 DEF EndsAt
  <2> QED
    BY <1>1, <2>2, <2>3
<1>8. \A S : Held(q, S) \in Nat /\ Held(pos, S) \in Nat
  BY <1>1, HeldType
<1>9. \A x \in CTicks : LET s == CompressedToTick(x)
                        IN /\ map.tick[x].gross = Held(pos, BeginsAt(s)) + Held(pos, EndsAt(s))
                           /\ map.tick[x].net = Held(pos, BeginsAt(s)) - Held(pos, EndsAt(s))
  BY <1>3 DEF TicksKnow
<1>10. map.tick[a].gross + delta \in Nat
  <2> DEFINE s == CompressedToTick(a)
  <2>1. map.tick[a].gross = Held(pos, BeginsAt(s)) + Held(pos, EndsAt(s))
    BY <1>2, <1>9
  <2>2. Held(q, BeginsAt(s)) = Held(pos, BeginsAt(s)) + delta
    BY <1>2, <1>7
  <2>3. Held(q, BeginsAt(s)) \in Nat /\ Held(pos, BeginsAt(s)) \in Nat /\ Held(pos, EndsAt(s)) \in Nat
    BY <1>8
  <2> QED
    BY <2>1, <2>2, <2>3
<1>11. map.tick[b].gross + delta \in Nat
  <2> DEFINE s == CompressedToTick(b)
  <2>1. map.tick[b].gross = Held(pos, BeginsAt(s)) + Held(pos, EndsAt(s))
    BY <1>2, <1>9
  <2>2. Held(q, EndsAt(s)) = Held(pos, EndsAt(s)) + delta
    BY <1>2, <1>7
  <2>3. Held(q, EndsAt(s)) \in Nat /\ Held(pos, BeginsAt(s)) \in Nat /\ Held(pos, EndsAt(s)) \in Nat
    BY <1>8
  <2> QED
    BY <2>1, <2>2, <2>3
<1>12. m = UpdateTickLiquidity(map, r[1], delta, FALSE, t, growth)
       /\ R = UpdateTickLiquidity(m, r[2], delta, TRUE, t, growth)
  OBVIOUS
<1> HIDE DEF m, R
<1>13. /\ m \in MapType /\ Indexed(m)
       /\ m.tick[a].gross = map.tick[a].gross + delta
       /\ m.tick[a].net = map.tick[a].net + delta
       /\ \A d \in CTicks : d # a => m.tick[d] = map.tick[d]
  <2>1. /\ m \in MapType /\ Indexed(m)
        /\ m.tick[a].gross = map.tick[a].gross + delta
        /\ m.tick[a].net = NetAfter(map.tick[a].net, delta, FALSE)
        /\ \A d \in CTicks : d # a => m.tick[d] = map.tick[d]
    <3>1. Updatable(map, a, delta)
      BY <1>2, <1>3, <1>10 DEF Updatable
    <3>2. Updated(map, UpdateTickLiquidity(map, a * TickSpacing, delta, FALSE, t, growth),
                  a, delta, FALSE)
      BY <1>3, <3>1, UpdateEnd
    <3>3. m = UpdateTickLiquidity(map, a * TickSpacing, delta, FALSE, t, growth)
      BY <1>2, <1>12
    <3>4. Updated(map, m, a, delta, FALSE)
      BY <3>2, <3>3
    <3> QED
      BY <3>4 DEF Updated
  <2> QED
    BY <2>1 DEF NetAfter
<1>14. /\ R \in MapType /\ Indexed(R)
       /\ R.tick[b].gross = m.tick[b].gross + delta
       /\ R.tick[b].net = m.tick[b].net - delta
       /\ \A d \in CTicks : d # b => R.tick[d] = m.tick[d]
  <2>0. m.tick[b].gross + delta \in Nat
    BY <1>2, <1>6, <1>11, <1>13
  <2>1. /\ R \in MapType /\ Indexed(R)
        /\ R.tick[b].gross = m.tick[b].gross + delta
        /\ R.tick[b].net = NetAfter(m.tick[b].net, delta, TRUE)
        /\ \A d \in CTicks : d # b => R.tick[d] = m.tick[d]
    <3>1. Updatable(m, b, delta)
      BY <1>2, <1>13, <2>0 DEF Updatable
    <3>2. Updated(m, UpdateTickLiquidity(m, b * TickSpacing, delta, TRUE, t, growth),
                  b, delta, TRUE)
      BY <1>3, <3>1, UpdateEnd
    <3>3. R = UpdateTickLiquidity(m, b * TickSpacing, delta, TRUE, t, growth)
      BY <1>2, <1>12
    <3>4. Updated(m, R, b, delta, TRUE)
      BY <3>2, <3>3
    <3> QED
      BY <3>4 DEF Updated
  <2> QED
    BY <2>1 DEF NetAfter
<1>15. ASSUME NEW x \in CTicks, NEW s, s = CompressedToTick(x)
       PROVE  /\ R.tick[x].gross = Held(q, BeginsAt(s)) + Held(q, EndsAt(s))
              /\ R.tick[x].net = Held(q, BeginsAt(s)) - Held(q, EndsAt(s))
  <2>1. /\ map.tick[x].gross = Held(pos, BeginsAt(s)) + Held(pos, EndsAt(s))
        /\ map.tick[x].net = Held(pos, BeginsAt(s)) - Held(pos, EndsAt(s))
        /\ Held(q, BeginsAt(s)) = Held(pos, BeginsAt(s)) + (IF x = a THEN delta ELSE 0)
        /\ Held(q, EndsAt(s)) = Held(pos, EndsAt(s)) + (IF x = b THEN delta ELSE 0)
        /\ Held(pos, BeginsAt(s)) \in Nat /\ Held(pos, EndsAt(s)) \in Nat
    BY <1>7, <1>8, <1>9, <1>15
  <2>2. CASE x = a
    <3>1. R.tick[x].gross = map.tick[x].gross + delta /\ R.tick[x].net = map.tick[x].net + delta
      BY <1>6, <1>13, <1>14, <2>2
    <3> QED
      BY <1>6, <2>1, <2>2, <3>1
  <2>3. CASE x = b
    <3>1. R.tick[x].gross = map.tick[x].gross + delta /\ R.tick[x].net = map.tick[x].net - delta
      BY <1>6, <1>13, <1>14, <2>3
    <3> QED
      BY <1>6, <2>1, <2>3, <3>1
  <2>4. CASE x # a /\ x # b
    <3>1. R.tick[x].gross = map.tick[x].gross /\ R.tick[x].net = map.tick[x].net
      BY <1>13, <1>14, <2>4
    <3> QED
      BY <2>1, <2>4, <3>1
  <2> QED
    BY <2>2, <2>3, <2>4
<1>16. TicksKnow(R, q)
  BY <1>15 DEF TicksKnow
<1> QED
  BY <1>5, <1>14, <1>16

-----------------------------------------------------------------------------
(* Moves of positions and the amounts they are worth                       *)

\* Positions that hold nothing in all hold nothing anywhere.
LEMMA NothingHeld ==
    ASSUME NEW p \in Positions, Held(p, Places) = 0, NEW S
    PROVE  Held(p, S) = 0
<1>1. ASSUME NEW x \in Places PROVE p[x[1]][x[2]].liq = 0
  <2>1. p[x[1]][x[2]].liq <= 0
    BY HeldAtLeast
  <2>2. p[x[1]][x[2]].liq \in Nat
    BY DEF Places, Positions, Position
  <2> QED
    BY <2>1, <2>2
<1> QED
  BY <1>1, HeldZero

\* MoveLiquidity, from where the liquidity in use is that of the tick t.
LEMMA MoveKeepsCurve ==
    ASSUME CurveInv, NEW u \in Users, NEW r \in UsedRanges, NEW delta \in Int,
           NEW p \in Position, p.liq = pos[u][r].liq + delta, NEW t \in MinTick..MaxTick,
           price' \in Prices, tick' = t, OnStep(price', t),
           liquidity = Held(pos, ActiveAt(t)),
           MoveLiquidity(u, r, delta, p, t)
    PROVE  CurveInv'
<1>1. /\ map' = BothTicks(map, r, delta, t, growth)
      /\ liquidity' = IF Active(r, t) THEN liquidity + delta ELSE liquidity
      /\ fullRange' = IF r = FullRange THEN fullRange + delta ELSE fullRange
      /\ raw' = [user |-> [raw.user EXCEPT ![u] = @ + delta], total |-> raw.total + delta]
      /\ pos' = [pos EXCEPT ![u][r] = p]
      /\ growth' = growth
  BY DEF MoveLiquidity
<1>2. map' \in MapType /\ Indexed(map') /\ TicksKnow(map', pos')
  <2>1. p.liq = pos[u][r].liq + delta /\ CurveInv /\ pos' = Placed(u, r, p)
    BY <1>1, Zenon DEF Placed
  <2> QED
    BY <1>1, <2>1, TicksMove, Zenon
<1>3. /\ pos \in Positions /\ growth \in [Tokens -> Growth]
      /\ raw \in [user : [Users -> Nat], total : Nat]
      /\ raw.total = Held(pos, Places)
      /\ \A v \in Users : raw.user[v] = Held(pos, {x \in Places : x[1] = v})
      /\ fullRange = Held(pos, {x \in Places : x[2] = FullRange})
  BY DEF CurveInv
<1> DEFINE q == pos'
           z == <<u, r>>
<1>4. /\ q \in Positions
      /\ \A S : Held(q, S) = Held(pos, S) + (IF z \in S THEN delta ELSE 0)
  <2>1. /\ pos \in Positions /\ q = Placed(u, r, p)
        /\ p.liq = pos[u][r].liq + delta
    BY <1>1, <1>3, Zenon DEF Placed
  <2> HIDE DEF q
  <2> QED
    BY <2>1, PlaceOfMove
<1>5. z \in Places /\ z[1] = u /\ z[2] = r
  BY DEF Places
<1> HIDE DEF q, z
<1>6. \A S : Held(q, S) \in Nat /\ Held(pos, S) \in Nat
  BY <1>3, <1>4, HeldType
<1>7. liquidity' = Held(q, ActiveAt(t))
  <2>1. z \in ActiveAt(t) <=> Active(r, t)
    BY <1>5 DEF ActiveAt
  <2>2. Held(q, ActiveAt(t)) = liquidity + (IF z \in ActiveAt(t) THEN delta ELSE 0)
    BY <1>4
  <2>3. liquidity \in Nat
    BY <1>6
  <2> QED
    BY <1>1, <2>1, <2>2, <2>3
<1>8. raw'.total = Held(q, Places) /\ raw'.total \in Nat
  <2>1. Held(q, Places) = Held(pos, Places) + delta
    BY <1>4, <1>5
  <2> QED
    BY <1>1, <1>3, <1>6, <2>1
<1>9. ASSUME NEW v \in Users
      PROVE  raw'.user[v] = Held(q, {x \in Places : x[1] = v}) /\ raw'.user[v] \in Nat
  <2> DEFINE S == {x \in Places : x[1] = v}
  <2>1. z \in S <=> v = u
    BY <1>5
  <2>2. raw.user[v] = Held(pos, S) /\ raw.user \in [Users -> Nat]
    BY <1>3
  <2> HIDE DEF S
  <2>3. Held(q, S) = Held(pos, S) + (IF v = u THEN delta ELSE 0) /\ Held(q, S) \in Nat
        /\ Held(pos, S) \in Nat
    BY <1>4, <1>6, <2>1
  <2>4. raw'.user[v] = raw.user[v] + (IF v = u THEN delta ELSE 0)
    <3>1. raw'.user = [raw.user EXCEPT ![u] = @ + delta]
      BY <1>1
    <3> QED
      BY <2>2, <2>3, <3>1
  <2> QED
    BY <2>2, <2>3, <2>4 DEF S
<1>10. raw' \in [user : [Users -> Nat], total : Nat]
  <2>1. DOMAIN raw'.user = Users /\ raw'.user = [v \in Users |-> raw'.user[v]]
    BY <1>1, <1>3
  <2>2. raw'.user \in [Users -> Nat]
    BY <1>9, <2>1
  <2> QED
    BY <1>1, <1>8, <2>2
<1>11. fullRange' = Held(q, {x \in Places : x[2] = FullRange})
  <2> DEFINE S == {x \in Places : x[2] = FullRange}
  <2>1. z \in S <=> r = FullRange
    BY <1>5
  <2>2. fullRange = Held(pos, S)
    BY <1>3
  <2> HIDE DEF S
  <2>3. Held(q, S) = Held(pos, S) + (IF r = FullRange THEN delta ELSE 0) /\ Held(pos, S) \in Nat
    BY <1>4, <1>6, <2>1
  <2> QED
    BY <1>1, <2>2, <2>3 DEF S
<1> QED
  BY <1>1, <1>2, <1>3, <1>4, <1>7, <1>8, <1>9, <1>10, <1>11 DEF CurveInv, q

\* The integer square root.
LEMMA RootFacts ==
    ASSUME NEW n \in Nat
    PROVE  Root(n) \in Nat
<1> DEFINE S == {r \in 0..n : r * r <= n}
<1>1. S # {} /\ S \in SUBSET (0..n) /\ 0 \in Int /\ n \in Int /\ TRUE \in BOOLEAN
  <2>1. 0 \in S
    OBVIOUS
  <2> QED
    BY <2>1
<1>2. \E r \in S : \A y \in S : Within(y, r, TRUE)
  <2> HIDE DEF S
  <2> QED BY <1>1, ExtremeExists
<1>3. PICK r \in S : \A y \in S : y <= r
  BY <1>2 DEF Within
<1>4. n < (r + 1) * (r + 1)
  <2> DEFINE k == r + 1
             s == k * k
  <2>1. k \in Nat \ {0} /\ s \in Nat
    BY MulNat
  <2>2. k <= s
    <3> HIDE DEF k
    <3>1. k * 1 <= k * k
      BY <2>1, MulMono
    <3> QED
      BY <2>1, <3>1 DEF s
  <2>3. k \notin S
    BY <1>3
  <2> HIDE DEF k
  <2>4. ~(s <= n)
    BY <2>1, <2>2, <2>3
  <2> QED
    BY <2>1, <2>4 DEF s, k
<1>5. \E x \in 0..n : x * x <= n /\ n < (x + 1) * (x + 1)
  BY <1>3, <1>4
<1>6. Root(n) \in 0..n
  BY <1>5, Zenon DEF Root
<1> QED
  BY <1>6

\* sqrt_price_from_amounts fails or is a price of the pool.
LEMMA PriceOfAmountsFacts ==
    ASSUME NEW n, n[0] \in Nat \ {0}, n[1] \in Nat
    PROVE  PriceOfAmounts(n) = Fail \/ PriceOfAmounts(n) \in Prices
<1> DEFINE x == (n[1] * Q * Q) \div n[0]
           p == Root(x)
<1>1. n[1] * Q * Q \in Nat
  BY Sizes, MulNat
<1>2. x \in Nat
  BY <1>1, DivFacts
<1> HIDE DEF x
<1>3. p \in Nat
  BY <1>2, RootFacts
<1>4. PriceOfAmounts(n) = IF p < SqrtRatio[MinTick] \/ p >= SqrtRatio[MaxTick] THEN Fail ELSE p
  BY DEF PriceOfAmounts, x
<1> HIDE DEF p
<1> QED
  BY <1>3, <1>4, PriceRange DEF Prices

\* The prices at the ends of a range.
LEMMA RangePrices ==
    ASSUME NEW r \in UsedRanges
    PROVE  /\ SqrtRatio[r[1]] \in Nat \ {0} /\ SqrtRatio[r[2]] \in Nat \ {0}
           /\ SqrtRatio[r[1]] < SqrtRatio[r[2]]
<1>1. r \in Ranges
  BY ConcentratedAssumption
<1>2. r[1] \in MinTick..MaxTick /\ r[2] \in MinTick..MaxTick /\ r[1] < r[2]
  BY <1>1, EndUsable
<1> QED
  BY <1>2, PriceNat, PriceRises

LEMMA LiquidityNat ==
    ASSUME NEW a \in Nat, NEW b \in Nat, a < b, NEW n \in Nat
    PROVE  LiquidityFor0(a, b, n) \in Nat /\ LiquidityFor1(a, b, n) \in Nat
<1>1. b - a \in Nat \ {0} /\ Q \in Nat \ {0}
  BY Sizes
<1> DEFINE x == (a * b) \div Q
<1>2. a * b \in Nat /\ n * Q \in Nat
  BY <1>1, MulNat
<1>3. x \in Nat
  BY <1>1, <1>2, DivFacts
<1> HIDE DEF x
<1>4. n * x \in Nat
  BY <1>3, MulNat
<1>5. (n * x) \div (b - a) \in Nat /\ (n * Q) \div (b - a) \in Nat
  <2> DEFINE d == b - a
  <2> HIDE DEF d
  <2>1. d \in Nat \ {0}
    BY <1>1 DEF d
  <2>2. (n * x) \div d \in Nat /\ (n * Q) \div d \in Nat
    BY <1>2, <1>4, <2>1, DivFacts
  <2> QED
    BY <2>2 DEF d
<1> QED
  BY <1>5 DEF LiquidityFor0, LiquidityFor1, x

LEMMA MaxLiquidityNat ==
    ASSUME NEW r \in UsedRanges, NEW p \in Prices, NEW n, n[0] \in Nat, n[1] \in Nat
    PROVE  MaxLiquidityFor(r, p, n) \in Nat
<1> DEFINE lo == SqrtRatio[r[1]]
           hi == SqrtRatio[r[2]]
<1>1. lo \in Nat \ {0} /\ hi \in Nat \ {0} /\ lo < hi /\ p \in Nat
  BY RangePrices, PriceRange
<1>2. MaxLiquidityFor(r, p, n)
        = IF p <= lo THEN LiquidityFor0(lo, hi, n[0])
          ELSE IF p >= hi THEN LiquidityFor1(lo, hi, n[1])
          ELSE MinOf(LiquidityFor0(p, hi, n[0]), LiquidityFor1(lo, p, n[1]))
  BY DEF MaxLiquidityFor
<1> HIDE DEF lo, hi
<1>3. LiquidityFor0(lo, hi, n[0]) \in Nat /\ LiquidityFor1(lo, hi, n[1]) \in Nat
  BY <1>1, LiquidityNat
<1>4. ASSUME ~(p <= lo), ~(p >= hi)
      PROVE  MinOf(LiquidityFor0(p, hi, n[0]), LiquidityFor1(lo, p, n[1])) \in Nat
  <2>1. LiquidityFor0(p, hi, n[0]) \in Nat /\ LiquidityFor1(lo, p, n[1]) \in Nat
    <3>1. p < hi /\ lo < p /\ p \in Nat /\ lo \in Nat /\ hi \in Nat
      BY <1>1, <1>4
    <3> QED
      BY <3>1, LiquidityNat
  <2> QED
    BY <2>1 DEF MinOf
<1> QED
  BY <1>2, <1>3, <1>4

LEMMA AmountsForNat ==
    ASSUME NEW r \in UsedRanges, NEW p \in Prices, NEW l \in Nat, NEW roundUp \in BOOLEAN
    PROVE  AmountsFor(r, p, l, roundUp) \in [Tokens -> Nat]
<1> DEFINE lo == SqrtRatio[r[1]]
           hi == SqrtRatio[r[2]]
           at == MaxOf(lo, MinOf(p, hi))
<1>1. lo \in Nat \ {0} /\ hi \in Nat \ {0} /\ lo < hi /\ p \in Nat \ {0}
  BY RangePrices, PriceRange
<1>2. AmountsFor(r, p, l, roundUp)
        = [i \in Tokens |-> IF i = 0 THEN Amount0(at, hi, l, roundUp)
                            ELSE Amount1(lo, at, l, roundUp)]
  BY DEF AmountsFor
<1> HIDE DEF lo, hi
<1>3. at \in Nat \ {0}
  BY <1>1 DEF MaxOf, MinOf
<1> HIDE DEF at
<1>4. Amount0(at, hi, l, roundUp) \in Nat /\ Amount1(lo, at, l, roundUp) \in Nat
  BY <1>1, <1>3, AmountNat
<1> QED
  BY <1>2, <1>4

\* accrue_position_fees: fees are only ever added.
LEMMA AccrueFacts ==
    ASSUME NEW p \in Position, NEW m \in MapType, NEW r \in UsedRanges, NEW t, 
           NEW g \in [Tokens -> Growth], NEW a, a = Accrue(p, Inside(m, r, t, g))
    PROVE  a \in Position /\ a.liq = p.liq /\ Inside(m, r, t, g) \in [Tokens -> Growth]
<1> DEFINE inside == Inside(m, r, t, g)
<1>1. ASSUME NEW i \in Tokens
      PROVE  FeeGrowthInside(m, r[1], r[2], t, g, i) \in Growth
  <2> DEFINE lo == GetTick(m, r[1]).out[i]
             up == GetTick(m, r[2]).out[i]
             below == IF t >= r[1] THEN lo ELSE WrappingSub(g[i], lo)
             above == IF t < r[2] THEN up ELSE WrappingSub(g[i], up)
  <2>1. r \in Ranges
    BY ConcentratedAssumption
  <2>2. CompressTick(r[1]) \in CTicks /\ CompressTick(r[2]) \in CTicks
    BY <2>1, EndUsable
  <2>3. lo \in Growth /\ up \in Growth /\ g[i] \in Growth
    BY <2>2 DEF GetTick, MapType, TickInfo
  <2>4. FeeGrowthInside(m, r[1], r[2], t, g, i)
          = WrappingSub(WrappingSub(g[i], below), above)
    BY Zenon DEF FeeGrowthInside
  <2> HIDE DEF lo, up
  <2>5. lo \in Int /\ up \in Int /\ g[i] \in Int
    BY <2>3, GrowthInt
  <2>6. WrappingSub(g[i], lo) \in Growth /\ WrappingSub(g[i], up) \in Growth
    BY <2>5, WrapType
  <2>7. below \in Growth /\ above \in Growth
    BY <2>3, <2>6
  <2> HIDE DEF below, above
  <2>8. WrappingSub(g[i], below) \in Growth /\ above \in Int
    BY <2>5, <2>7, WrapType, GrowthInt
  <2>9. WrappingSub(g[i], below) \in Int
    BY <2>8, GrowthInt
  <2> QED
    BY <2>4, <2>8, <2>9, WrapType
<1>2. inside \in [Tokens -> Growth]
  BY <1>1 DEF Inside
<1> HIDE DEF inside
<1>3. p.last \in [Tokens -> Growth] /\ p.owed \in [Tokens -> Nat] /\ p.liq \in Nat
  BY DEF Position
<1> DEFINE owed == [i \in Tokens |->
              p.owed[i] + (WrappingSub(inside[i], p.last[i]) * p.liq) \div GrowthScale]
<1>4. ASSUME NEW i \in Tokens
      PROVE  p.owed[i] + (WrappingSub(inside[i], p.last[i]) * p.liq) \div GrowthScale \in Nat
  <2> DEFINE d == WrappingSub(inside[i], p.last[i])
  <2>1. inside[i] \in Int /\ p.last[i] \in Int
    BY <1>2, <1>3, GrowthInt
  <2>2. d \in Nat
    BY <2>1, WrapType, GrowthInt
  <2> HIDE DEF d
  <2>3. d * p.liq \in Nat /\ GrowthScale \in Nat \ {0}
    BY <1>3, <2>2, MulNat, Sizes
  <2>4. (d * p.liq) \div GrowthScale \in Nat
    BY <2>3, DivFacts
  <2> QED
    BY <1>3, <2>4 DEF d
<1>5. owed \in [Tokens -> Nat]
  BY <1>4
<1>6. a = [p EXCEPT !.last = inside, !.owed = owed]
  <2>1. a = Accrue(p, inside)
    BY DEF inside
  <2> QED
    BY <2>1 DEF Accrue
<1> HIDE DEF owed
<1>7. a \in Position /\ a.liq = p.liq
  BY <1>2, <1>5, <1>6 DEF Position
<1> QED
  BY <1>2, <1>7 DEF inside

-----------------------------------------------------------------------------
(* What a deposit is priced at                                             *)

\* The ticks stay well formed when liquidity moves that is there to move.
LEMMA TicksTyped ==
    ASSUME CurveInv, NEW u \in Users, NEW r \in UsedRanges, NEW delta \in Int,
           pos[u][r].liq + delta \in Nat, NEW t
    PROVE  BothTicks(map, r, delta, t, growth) \in MapType
<1> DEFINE p == [pos[u][r] EXCEPT !.liq = @ + delta]
<1>1. pos[u][r] \in Position
  BY DEF CurveInv, Positions
<1>2. p \in Position /\ p.liq = pos[u][r].liq + delta
  BY <1>1 DEF Position
<1> HIDE DEF p
<1> QED
  BY <1>2, TicksMove, Zenon

\* A deposit adds its liquidity to a position and settles its fees.
LEMMA DepositedFacts ==
    ASSUME CurveInv, NEW u \in Users, NEW r \in UsedRanges, NEW l \in Nat, NEW t
    PROVE  /\ Deposited(u, r, l, t) \in Position
           /\ Deposited(u, r, l, t).liq = pos[u][r].liq + l
<1> DEFINE m == BothTicks(map, r, l, t, growth)
           inside == Inside(m, r, t, growth)
           p == IF pos[u][r].liq > 0 THEN pos[u][r] ELSE [NoPosition EXCEPT !.last = inside]
           a == Accrue(p, inside)
<1>1. pos[u][r] \in Position /\ pos[u][r].liq \in Nat /\ growth \in [Tokens -> Growth]
  BY DEF CurveInv, Positions, Position
<1>2. m \in MapType
  <2>1. l \in Int /\ pos[u][r].liq + l \in Nat
    BY <1>1
  <2> QED
    BY <2>1, TicksTyped
<1> HIDE DEF m
<1>3. NoPosition \in Position
  BY GrowthZero DEF NoPosition, Position
<1>4. inside \in [Tokens -> Growth]
  BY <1>1, <1>2, <1>3, AccrueFacts
<1>5. p \in Position /\ p.liq = pos[u][r].liq
  <2>1. [NoPosition EXCEPT !.last = inside] \in Position
        /\ [NoPosition EXCEPT !.last = inside].liq = 0
    <3> HIDE DEF inside
    <3> QED BY <1>3, <1>4 DEF Position, NoPosition
  <2> HIDE DEF inside
  <2> QED
    BY <1>1, <2>1
<1> HIDE DEF p
<1>6. a \in Position /\ a.liq = pos[u][r].liq
  BY <1>1, <1>2, <1>5, AccrueFacts
<1>7. Deposited(u, r, l, t) = [a EXCEPT !.liq = @ + l]
  BY Zenon DEF Deposited, p, m
<1> HIDE DEF a
<1> QED
  BY <1>1, <1>6, <1>7 DEF Position

LEMMA AccruedFacts ==
    ASSUME CurveInv, NEW u \in Users, NEW r \in UsedRanges
    PROVE  Accrued(u, r) \in Position /\ Accrued(u, r).liq = pos[u][r].liq
<1>1. pos[u][r] \in Position /\ growth \in [Tokens -> Growth] /\ map \in MapType
  BY DEF CurveInv, Positions
<1>2. Accrued(u, r) = Accrue(pos[u][r], Inside(map, r, tick, growth))
  BY DEF Accrued
<1> QED
  BY <1>1, <1>2, AccrueFacts

\* What a withdrawal leaves of a position.
Left(u, r, l) == IF l = pos[u][r].liq THEN NoPosition
                 ELSE [Accrued(u, r) EXCEPT !.liq = @ - l, !.owed = [i \in Tokens |-> 0]]

\* A withdrawal takes its liquidity, and the last of it removes the position.
LEMMA LeftFacts ==
    ASSUME CurveInv, NEW u \in Users, NEW r \in UsedRanges, NEW l \in Nat, l <= pos[u][r].liq
    PROVE  Left(u, r, l) \in Position /\ Left(u, r, l).liq = pos[u][r].liq + (-l)
<1> DEFINE a == Accrued(u, r)
           none == [i \in Tokens |-> 0]
           b == [a EXCEPT !.liq = @ - l, !.owed = none]
           left == Left(u, r, l)
           have == pos[u][r].liq
<1>1. a \in Position /\ a.liq = have
  BY AccruedFacts
<1>2. have \in Nat /\ l <= have
  BY DEF CurveInv, Positions, Position
<1>3. NoPosition \in Position /\ NoPosition.liq = 0
  BY GrowthZero DEF NoPosition, Position
<1>4. none \in [Tokens -> Nat]
  OBVIOUS
<1>5. left = IF l = have THEN NoPosition ELSE b
  BY Zenon DEF Left
<1> HIDE DEF a, none, left, have
<1>6. l # have => b \in Position /\ b.liq = have - l
  <2>1. have - l \in Nat
    BY <1>2
  <2> QED
    BY <1>1, <1>2, <1>4, <2>1 DEF Position
<1> HIDE DEF b
<1>7. left \in Position /\ left.liq = have + (-l)
  BY <1>2, <1>3, <1>5, <1>6
<1> QED
  BY <1>7 DEF left, have

\* What is taken is what is needed, or all there is.
LEMMA TakenFacts ==
    ASSUME NEW paid \in [Tokens -> Nat], NEW n \in [Tokens -> Nat],
           NEW taken, taken = [i \in Tokens |-> MinOf(paid[i], n[i])]
    PROVE  taken \in [Tokens -> Nat] /\ \A i \in Tokens : taken[i] <= n[i]
<1>1. ASSUME NEW i \in Tokens PROVE MinOf(paid[i], n[i]) \in Nat /\ MinOf(paid[i], n[i]) <= n[i]
  BY DEF MinOf
<1> QED
  BY <1>1

LEMMA SameHeld ==
    ASSUME NEW p \in Positions, NEW q \in Positions,
           \A u \in Users, r \in UsedRanges : q[u][r].liq = p[u][r].liq
    PROVE  \A S : Held(q, S) = Held(p, S)
<1>1. \A x \in Places : q[x[1]][x[2]].liq = p[x[1]][x[2]].liq
  BY DEF Places
<1> QED
  BY <1>1, HeldSame

LEMMA OnStepOfPrice ==
    ASSUME NEW p \in Prices
    PROVE  TickAt(p) \in MinTick..MaxTick /\ OnStep(p, TickAt(p))
<1>1. /\ TickAt(p) \in MinTick..MaxTick /\ SqrtRatio[TickAt(p)] <= p
      /\ TickAt(p) < MaxTick => p < SqrtRatio[TickAt(p) + 1]
  BY TickAtFacts
<1>2. p \in Int
  BY PriceRange
<1>3. TickAt(p) < MaxTick => SqrtRatio[TickAt(p) + 1] \in Int
  <2>1. TickAt(p) < MaxTick => TickAt(p) + 1 \in MinTick..MaxTick
    BY <1>1, Sizes
  <2> QED
    BY <2>1, PriceNat
<1> QED
  BY <1>1, <1>2, <1>3 DEF OnStep

-----------------------------------------------------------------------------
(* The curve and the positions, action by action                           *)

\* What a deposit is priced at: the price and tick it leaves, its liquidity,
\* what it needs and takes.
LEMMA DepositFacts ==
    ASSUME CurveInv, NEW u \in Users, NEW r \in UsedRanges, NEW n \in [Tokens -> Nat],
           DepositPosition(u, r, n)
    PROVE  \E l \in Nat, t \in MinTick..MaxTick, taken \in [Tokens -> Nat] :
             /\ l > 0
             /\ price' \in Prices /\ tick' = t /\ OnStep(price', t)
             /\ liquidity = Held(pos, ActiveAt(t))
             /\ \A i \in Tokens : taken[i] <= n[i] /\ n[i] <= bal[u][i]
             /\ reserve' = [i \in Tokens |-> reserve[i] + taken[i]]
             /\ bal' = [bal EXCEPT
                   ![u]    = [i \in Assets |-> IF i \in Tokens THEN @[i] - taken[i] ELSE @[i]],
                   ![Pool] = [i \in Assets |-> IF i \in Tokens THEN @[i] + taken[i] ELSE @[i]]]
             /\ MoveLiquidity(u, r, l, Deposited(u, r, l, t), t)
<1>1. n[0] \in Nat /\ n[1] \in Nat /\ raw.total \in Nat
  BY DEF Tokens, CurveInv
<1>2. raw.total = 0 => n[0] > 0
  BY DEF DepositPosition
<1>3. PICK p \in {IF raw.total = 0 THEN PriceOfAmounts(n) ELSE price} :
          /\ p # Fail
          /\ raw.total = 0 => Active(r, TickAt(p))
          /\ \E t \in {IF raw.total = 0 THEN TickAt(p) ELSE tick},
                l \in {MaxLiquidityFor(r, p, n)} :
                /\ price' = p /\ tick' = t
                /\ l > 0 /\ TickRoom(r, l)
                /\ Cardinality(Ranged(u) \cup {r}) <= MaxUserPositions
                /\ \E paid \in {AmountsFor(r, p, l, TRUE)} :
                   \E taken \in {[i \in Tokens |-> MinOf(paid[i], n[i])]} :
                      /\ reserve' = [i \in Tokens |-> reserve[i] + taken[i]]
                      /\ bal' = [bal EXCEPT
                            ![u]    = [i \in Assets |-> IF i \in Tokens THEN @[i] - taken[i] ELSE @[i]],
                            ![Pool] = [i \in Assets |-> IF i \in Tokens THEN @[i] + taken[i] ELSE @[i]]]
                /\ MoveLiquidity(u, r, l, Deposited(u, r, l, t), t)
  BY Zenon DEF DepositPosition
<1>4. PICK t \in {IF raw.total = 0 THEN TickAt(p) ELSE tick}, l \in {MaxLiquidityFor(r, p, n)} :
         /\ price' = p /\ tick' = t
         /\ l > 0
         /\ \E paid \in {AmountsFor(r, p, l, TRUE)} :
            \E taken \in {[i \in Tokens |-> MinOf(paid[i], n[i])]} :
               /\ reserve' = [i \in Tokens |-> reserve[i] + taken[i]]
               /\ bal' = [bal EXCEPT
                     ![u]    = [i \in Assets |-> IF i \in Tokens THEN @[i] - taken[i] ELSE @[i]],
                     ![Pool] = [i \in Assets |-> IF i \in Tokens THEN @[i] + taken[i] ELSE @[i]]]
         /\ MoveLiquidity(u, r, l, Deposited(u, r, l, t), t)
  BY <1>3, Zenon
<1>4a. PICK paid \in {AmountsFor(r, p, l, TRUE)} :
            \E taken \in {[i \in Tokens |-> MinOf(paid[i], n[i])]} :
               /\ reserve' = [i \in Tokens |-> reserve[i] + taken[i]]
               /\ bal' = [bal EXCEPT
                     ![u]    = [i \in Assets |-> IF i \in Tokens THEN @[i] - taken[i] ELSE @[i]],
                     ![Pool] = [i \in Assets |-> IF i \in Tokens THEN @[i] + taken[i] ELSE @[i]]]
  BY <1>4, Zenon
<1>5. PICK taken \in {[i \in Tokens |-> MinOf(paid[i], n[i])]} :
         /\ reserve' = [i \in Tokens |-> reserve[i] + taken[i]]
         /\ bal' = [bal EXCEPT
               ![u]    = [i \in Assets |-> IF i \in Tokens THEN @[i] - taken[i] ELSE @[i]],
               ![Pool] = [i \in Assets |-> IF i \in Tokens THEN @[i] + taken[i] ELSE @[i]]]
  BY <1>4a, Zenon
<1>6. p = (IF raw.total = 0 THEN PriceOfAmounts(n) ELSE price) /\ p # Fail
      /\ t = (IF raw.total = 0 THEN TickAt(p) ELSE tick) /\ l = MaxLiquidityFor(r, p, n)
      /\ price' = p /\ tick' = t /\ l > 0
  BY <1>3, <1>4, Zenon
<1>7. p \in Prices
  <2>1. CASE raw.total = 0
    <3>1. n[0] \in Nat \ {0}
      BY <1>1, <1>2, <2>1
    <3> QED
      BY <1>1, <1>6, <2>1, <3>1, PriceOfAmountsFacts
  <2>2. CASE raw.total # 0
    BY <1>6, <2>2 DEF CurveInv
  <2> QED
    BY <2>1, <2>2
<1>8. t \in MinTick..MaxTick /\ OnStep(p, t) /\ liquidity = Held(pos, ActiveAt(t))
  <2>1. CASE raw.total = 0
    <3>1. t \in MinTick..MaxTick /\ OnStep(p, t)
      BY <1>6, <1>7, <2>1, OnStepOfPrice
    <3>2. pos \in Positions /\ Held(pos, Places) = 0 /\ liquidity = Held(pos, ActiveAt(tick))
      BY <2>1 DEF CurveInv
    <3>3. Held(pos, ActiveAt(tick)) = 0 /\ Held(pos, ActiveAt(t)) = 0
      BY <3>2, NothingHeld
    <3> QED
      BY <3>1, <3>2, <3>3
  <2>2. CASE raw.total # 0
    BY <1>6, <2>2 DEF CurveInv
  <2> QED
    BY <2>1, <2>2
<1>9. l \in Nat
  BY <1>1, <1>6, <1>7, MaxLiquidityNat
<1>10. paid \in [Tokens -> Nat]
  <2>1. paid = AmountsFor(r, p, l, TRUE)
    BY <1>4a
  <2> QED
    BY <1>7, <1>9, <2>1, AmountsForNat
<1>11. taken \in [Tokens -> Nat] /\ \A i \in Tokens : taken[i] <= n[i]
  <2>1. taken = [i \in Tokens |-> MinOf(paid[i], n[i])]
    BY <1>5, Zenon
  <2> QED
    BY <1>10, <2>1, TakenFacts, Zenon
<1>12. \A i \in Tokens : n[i] <= bal[u][i]
  BY DEF DepositPosition
<1>13. \A i \in Tokens : taken[i] <= n[i] /\ n[i] <= bal[u][i]
  BY <1>11, <1>12
<1> QED
  BY <1>4, <1>5, <1>6, <1>7, <1>8, <1>9, <1>11, <1>13, ZenonT(60)

\* deposit_position keeps the curve,
LEMMA DepositCurve ==
    ASSUME CurveInv, NEW u \in Users, NEW r \in UsedRanges, NEW n \in [Tokens -> Nat],
           DepositPosition(u, r, n)
    PROVE  CurveInv'
<1>1. PICK l \in Nat, t \in MinTick..MaxTick :
         /\ price' \in Prices /\ tick' = t /\ OnStep(price', t)
         /\ liquidity = Held(pos, ActiveAt(t))
         /\ MoveLiquidity(u, r, l, Deposited(u, r, l, t), t)
  BY DepositFacts, Zenon
<1> DEFINE p == Deposited(u, r, l, t)
<1>2. p \in Position /\ p.liq = pos[u][r].liq + l /\ l \in Int
  BY DepositedFacts
<1> HIDE DEF p
<1>3. MoveLiquidity(u, r, l, p, t)
  BY <1>1 DEF p
<1> QED
  BY <1>1, <1>2, <1>3, MoveKeepsCurve, Zenon

\* and so does withdraw_position,
LEMMA WithdrawCurve ==
    ASSUME CurveInv, NEW u \in Users, NEW r \in UsedRanges, NEW l \in Nat,
           WithdrawPosition(u, r, l)
    PROVE  CurveInv'
<1>1. /\ l <= pos[u][r].liq /\ MoveLiquidity(u, r, -l, Left(u, r, l), tick)
      /\ price' = price /\ tick' = tick
  BY Zenon DEF WithdrawPosition, Left
<1>2. Left(u, r, l) \in Position /\ Left(u, r, l).liq = pos[u][r].liq + (-l)
  BY <1>1, LeftFacts
<1>3. /\ -l \in Int /\ tick \in MinTick..MaxTick /\ price' \in Prices /\ tick' = tick
      /\ OnStep(price', tick) /\ liquidity = Held(pos, ActiveAt(tick))
  BY <1>1 DEF CurveInv
<1> QED
  BY <1>1, <1>2, <1>3, MoveKeepsCurve, Zenon

\* Fees leave the liquidity of every position alone.
LEMMA ClaimedPositions ==
    ASSUME CurveInv, NEW u \in Users, NEW ranges, ClaimFees(u, ranges)
    PROVE  /\ pos' \in Positions
           /\ \A v \in Users, r \in UsedRanges : pos'[v][r].liq = pos[v][r].liq
<1> DEFINE none == [i \in Tokens |-> 0]
           emptied(r) == [Accrued(u, r) EXCEPT !.owed = none]
           mine == [r \in UsedRanges |-> IF r \in ranges THEN emptied(r) ELSE pos[u][r]]
<1>1. pos' = [pos EXCEPT ![u] = mine]
  <2>1. pos' = [pos EXCEPT ![u] = [r \in UsedRanges |->
          IF r \in ranges THEN [Accrued(u, r) EXCEPT !.owed = [i \in Tokens |-> 0]] ELSE @[r]]]
    BY Zenon DEF ClaimFees
  <2> QED
    BY <2>1
<1>2. pos \in Positions
  BY DEF CurveInv
<1>3. none \in [Tokens -> Nat]
  OBVIOUS
<1> HIDE DEF none
<1>4. ASSUME NEW r \in UsedRanges
      PROVE  emptied(r) \in Position /\ emptied(r).liq = pos[u][r].liq
  <2> DEFINE a == Accrued(u, r)
  <2>1. a \in Position /\ a.liq = pos[u][r].liq
    BY AccruedFacts
  <2> HIDE DEF a
  <2>2. [a EXCEPT !.owed = none] \in Position /\ [a EXCEPT !.owed = none].liq = a.liq
    BY <1>3, <2>1 DEF Position
  <2> QED
    BY <2>1, <2>2 DEF a
<1> HIDE DEF emptied
<1>5. ASSUME NEW r \in UsedRanges
      PROVE  mine[r] \in Position /\ mine[r].liq = pos[u][r].liq
  <2>1. pos[u][r] \in Position
    BY <1>2 DEF Positions
  <2>2. mine[r] = IF r \in ranges THEN emptied(r) ELSE pos[u][r]
    OBVIOUS
  <2> QED
    BY <1>4, <2>1, <2>2
<1>6. mine = [r \in UsedRanges |-> mine[r]]
  OBVIOUS
<1> HIDE DEF mine
<1>7. mine \in [UsedRanges -> Position]
  BY <1>5, <1>6
<1>8. pos' \in Positions /\ pos'[u] = mine /\ \A v \in Users : v # u => pos'[v] = pos[v]
  BY <1>1, <1>2, <1>7 DEF Positions
<1> QED
  BY <1>5, <1>8

\* Steps that leave the curve and the liquidity of every position alone.
LEMMA SameLiquidity ==
    ASSUME CurveInv, UNCHANGED <<curveVars, fullRange, raw>>,
           pos' \in Positions,
           \A v \in Users, r \in UsedRanges : pos'[v][r].liq = pos[v][r].liq
    PROVE  CurveInv'
<1>1. /\ price' = price /\ tick' = tick /\ liquidity' = liquidity /\ map' = map
      /\ growth' = growth /\ fullRange' = fullRange /\ raw' = raw
  BY DEF curveVars
<1> DEFINE q == pos'
<1>2. q \in Positions /\ pos \in Positions
      /\ \A v \in Users, r \in UsedRanges : q[v][r].liq = pos[v][r].liq
  BY DEF CurveInv
<1> HIDE DEF q
<1>3. \A S : Held(q, S) = Held(pos, S)
  BY <1>2, SameHeld
<1>4. TicksKnow(map, q)
  <2>1. TicksKnow(map, pos)
    BY DEF CurveInv
  <2> QED
    BY <1>3, <2>1 DEF TicksKnow
<1> QED
  BY <1>1, <1>2, <1>3, <1>4 DEF CurveInv, q

\* and a claim of fees, which changes no liquidity.
LEMMA ClaimFeesCurve ==
    ASSUME CurveInv, NEW u \in Users, NEW ranges, ClaimFees(u, ranges)
    PROVE  CurveInv'
<1>1. UNCHANGED <<curveVars, fullRange, raw>>
  BY Zenon DEF ClaimFees
<1> QED
  BY <1>1, ClaimedPositions, SameLiquidity, Zenon

\* The parts that do not touch it.
LEMMA CurveFrame ==
    ASSUME CurveInv, UNCHANGED <<curveVars, posVars>>
    PROVE  CurveInv'
<1>1. /\ price' = price /\ tick' = tick /\ liquidity' = liquidity /\ map' = map
      /\ growth' = growth /\ fullRange' = fullRange /\ raw' = raw /\ pos' = pos
  BY DEF curveVars, posVars
<1> QED
  BY <1>1 DEF CurveInv

\* Swaps: the input that an exact-input swap could not use.
SurplusTold(more, s) ==
    /\ more.growth \in [Tokens -> Growth]
    /\ more.ticks \in [CTicks -> TickInfo]
    /\ \A c \in CTicks : more.ticks[c].gross = s.ticks[c].gross
                         /\ more.ticks[c].net = s.ticks[c].net

\* The surplus changes the growth, globally and outside the last tick crossed.
LEMMA SurplusFacts ==
    ASSUME CurveInv, pfFraction \in 0..FeeDenominator, NEW down \in BOOLEAN,
           NEW s \in LoopStates(down), NEW n \in Nat, NEW token \in Tokens,
           NEW more, more = Surplus(s, n, token)
    PROVE  /\ SurplusTold(more, s)
           /\ more.cut \in Nat /\ more.lp \in Nat /\ more.cut + more.lp <= n
<1> DEFINE cut == FeePart(n)
           delta == FeeGrowthDelta(n - cut, s.last)
           told == {CompressTick(t) : t \in s.crossed}
           new(c) == [s.ticks[c] EXCEPT !.out[token] = WrappingAdd(@, delta)]
           ticks == [c \in CTicks |-> IF c \in told THEN new(c) ELSE s.ticks[c]]
           g == [s.growth EXCEPT ![token] = WrappingAdd(@, delta)]
<1>1. more = IF n = 0 \/ s.last = 0
             THEN [ticks |-> s.ticks, growth |-> s.growth, cut |-> 0, lp |-> 0]
             ELSE [ticks |-> ticks, growth |-> g, cut |-> cut, lp |-> n - cut]
  BY DEF Surplus
<1>2. s.growth \in [Tokens -> Growth] /\ s.ticks \in [CTicks -> TickInfo] /\ s.last \in Nat
  BY DEF LoopStates
<1>3. cut \in Nat /\ n - cut \in Nat
  BY FeePartFacts
<1> HIDE DEF cut
<1>4. delta \in Nat
  BY <1>2, <1>3, GrowthDeltaNat
<1> HIDE DEF delta
<1>5. g \in [Tokens -> Growth]
  BY <1>2, <1>4, AddGrowth
<1>6. ASSUME NEW c \in CTicks
      PROVE  new(c) \in TickInfo /\ new(c).gross = s.ticks[c].gross
             /\ new(c).net = s.ticks[c].net
  <2> DEFINE info == s.ticks[c]
  <2>1. info \in TickInfo /\ info.out \in [Tokens -> Growth]
    BY <1>2 DEF TickInfo
  <2> HIDE DEF info
  <2> DEFINE out == [info.out EXCEPT ![token] = WrappingAdd(@, delta)]
  <2>2. out \in [Tokens -> Growth]
    BY <1>4, <2>1, AddGrowth
  <2>3. [info EXCEPT !.out[token] = WrappingAdd(@, delta)] = [info EXCEPT !.out = out]
    BY <2>1 DEF TickInfo
  <2> HIDE DEF out
  <2>4. [info EXCEPT !.out = out] \in TickInfo /\ [info EXCEPT !.out = out].gross = info.gross
        /\ [info EXCEPT !.out = out].net = info.net
    BY <2>1, <2>2 DEF TickInfo
  <2> QED
    BY <2>3, <2>4 DEF info
<1> HIDE DEF new, told
<1>7. \A c \in CTicks : ticks[c] \in TickInfo /\ ticks[c].gross = s.ticks[c].gross
                        /\ ticks[c].net = s.ticks[c].net
  <2> SUFFICES ASSUME NEW c \in CTicks
               PROVE ticks[c] \in TickInfo /\ ticks[c].gross = s.ticks[c].gross
                     /\ ticks[c].net = s.ticks[c].net
    OBVIOUS
  <2>1. ticks[c] = IF c \in told THEN new(c) ELSE s.ticks[c]
    OBVIOUS
  <2>2. s.ticks[c] \in TickInfo
    BY <1>2
  <2> HIDE DEF ticks
  <2> QED
    BY <1>6, <2>1, <2>2
<1>8. ticks = [c \in CTicks |-> ticks[c]]
  OBVIOUS
<1> HIDE DEF ticks, g
<1>9. ticks \in [CTicks -> TickInfo]
  BY <1>7, <1>8
<1>10. CASE n = 0 \/ s.last = 0
  <2>1. more.ticks = s.ticks /\ more.growth = s.growth /\ more.cut = 0 /\ more.lp = 0
    BY <1>1, <1>10
  <2> QED
    BY <1>2, <2>1 DEF SurplusTold
<1>11. CASE ~(n = 0 \/ s.last = 0)
  <2>1. more.ticks = ticks /\ more.growth = g /\ more.cut = cut /\ more.lp = n - cut
    BY <1>1, <1>11
  <2> QED
    BY <1>3, <1>5, <1>7, <1>9, <2>1 DEF SurplusTold
<1> QED
  BY <1>10, <1>11

\* A swap that is not refused leaves the curve as its last round did.
LEMMA SettleCurve ==
    ASSUME CurveInv, NEW down \in BOOLEAN, NEW s \in LoopStates(down), s.price # Fail,
           NEW more, SurplusTold(more, s),
           NEW u, NEW taken, NEW in, NEW out, Settle(u, s, down, taken, in, out, more)
    PROVE  CurveInv'
<1>1. /\ price' = s.price /\ tick' = s.tick /\ liquidity' = s.liq
      /\ growth' = more.growth /\ map' = [map EXCEPT !.tick = more.ticks]
      /\ pos' = pos /\ fullRange' = fullRange /\ raw' = raw
  BY DEF Settle, posVars
<1>2. /\ s.price \in Prices /\ OnStep(s.price, s.tick) /\ s.tick \in MinTick..MaxTick
      /\ s.liq = Held(pos, ActiveAt(s.tick))
      /\ \A c \in CTicks : s.ticks[c].gross = map.tick[c].gross /\ s.ticks[c].net = map.tick[c].net
  BY DEF LoopStates, LoopState
<1>3. map \in MapType /\ Indexed(map) /\ TicksKnow(map, pos)
  BY DEF CurveInv
<1> DEFINE m == [map EXCEPT !.tick = more.ticks]
<1>4. /\ m \in MapType /\ m.tick = more.ticks /\ m.words = map.words /\ m.l2 = map.l2
      /\ m.min = map.min /\ m.max = map.max
  BY <1>3 DEF SurplusTold, MapType
<1>5. map' = m
  BY <1>1
<1> HIDE DEF m
<1>6. \A c \in CTicks : m.tick[c].gross = map.tick[c].gross /\ m.tick[c].net = map.tick[c].net
  BY <1>2, <1>4 DEF SurplusTold
<1>7. Indexed(m)
  <2>1. \A c \in CTicks : (m.tick[c].gross > 0) = (map.tick[c].gross > 0)
    BY <1>6
  <2> QED
    BY <1>3, <1>4, <2>1, SameLive
<1>8. TicksKnow(m, pos)
  BY <1>3, <1>6 DEF TicksKnow
<1>9. growth' \in [Tokens -> Growth]
  BY <1>1 DEF SurplusTold
<1> QED
  BY <1>1, <1>2, <1>4, <1>5, <1>7, <1>8, <1>9 DEF CurveInv

\* Both swaps store what their last round carries.
LEMMA SwapCurve ==
    ASSUME CurveInv, pfFraction \in 0..FeeDenominator, NEW u \in Users, NEW down \in BOOLEAN,
           NEW n \in Nat, NEW outMin, Swap(u, down, n, outMin)
    PROVE  CurveInv'
<1> DEFINE s == SwapLoop(n, down, TRUE)
           more == Surplus(s, s.left, InToken(down))
<1>1. /\ raw.total > 0 /\ LimitAhead(down) /\ s.price # Fail
      /\ Settle(u, s, down, n, n - s.left, s.worth, more)
  BY DEF Swap, CanSwap, Refused
<1>2. s \in LoopStates(down)
  BY <1>1, SwapLoopOK
<1> HIDE DEF s
<1>3. InToken(down) \in Tokens /\ s.left \in Nat
  BY <1>2 DEF InToken, Tokens, LoopStates
<1>4. SurplusTold(more, s)
  BY <1>2, <1>3, SurplusFacts
<1> HIDE DEF more
<1> QED
  BY <1>1, <1>2, <1>4, SettleCurve, Zenon

LEMMA SwapStrictReceiveCurve ==
    ASSUME CurveInv, pfFraction \in 0..FeeDenominator, NEW u \in Users, NEW down \in BOOLEAN,
           NEW n \in Nat, NEW inMax, SwapStrictReceive(u, down, n, inMax)
    PROVE  CurveInv'
<1> DEFINE s == SwapLoop(n, down, FALSE)
           more == [ticks |-> s.ticks, growth |-> s.growth, cut |-> 0, lp |-> 0]
<1>1. /\ raw.total > 0 /\ LimitAhead(down) /\ s.price # Fail
      /\ Settle(u, s, down, s.worth, s.worth, n, more)
  BY DEF SwapStrictReceive, CanSwap, Refused
<1>2. s \in LoopStates(down)
  BY <1>1, SwapLoopOK
<1> HIDE DEF s
<1>3. SurplusTold(more, s)
  BY <1>2 DEF SurplusTold, LoopStates
<1> HIDE DEF more
<1> QED
  BY <1>1, <1>2, <1>3, SettleCurve, Zenon

-----------------------------------------------------------------------------
(* The weights of the users                                                *)

NoLiquidity(p, u) == \A r \in UsedRanges : p[u][r].liq = 0

WeightsKnown(w) ==
    /\ w \in [user : [Users -> Nat], total : Nat]
    /\ w.total = SumFunctionOnSet(w.user, Users)

\* The books of the rewards: whoever was never given a working balance has no
\* liquidity, so that what is stored for him by default is nothing.
RewardsInv ==
    /\ WeightsKnown(weighted)
    /\ \A u \in Users : NoLiquidity(pos, u) => weighted.user[u] = 0
    /\ RewardsOK(rw, weighted.user, weighted.total, ledger)
    /\ \A u \in Users : rw.wb[u] = Unset => NoLiquidity(pos, u)
    /\ rw.ws = Unset => \A u \in Users : NoLiquidity(pos, u)
    /\ ledger \in Nat /\ lock \in [Users -> Nat]

\* position_multiplier_bps and apply_multiplier.
LEMMA MultiplierNat ==
    ASSUME NEW d \in Int
    PROVE  Multiplier(d) \in Nat
<1> DEFINE k == MaxDistance - d
<1>1. CASE d < MaxDistance
  <2>1. k \in Nat /\ BpsDenominator \in Nat /\ MaxDistance \in Nat \ {0}
    BY <1>1, Sizes
  <2> HIDE DEF k
  <2>2. BpsDenominator * k * k \in Nat
    BY <2>1, MulNat
  <2>3. MaxDistance * MaxDistance \in Nat \ {0}
    BY <2>1
  <2>4. (BpsDenominator * k * k) \div (MaxDistance * MaxDistance) \in Nat
    BY <2>2, <2>3, DivFacts
  <2> QED
    BY <2>1, <2>4 DEF Multiplier, k
<1>2. CASE d >= MaxDistance
  BY <1>2, Sizes DEF Multiplier
<1> QED
  BY <1>1, <1>2, Sizes

\* A weight is a natural number, and zero without liquidity.
LEMMA WeightNat ==
    ASSUME NEW ranges \in [UsedRanges -> Position], NEW t \in Int
    PROVE  /\ Weight(ranges, t) \in Nat
           /\ (\A r \in UsedRanges : ranges[r].liq = 0) => Weight(ranges, t) = 0
<1> DEFINE part(r) == (ranges[r].liq * Multiplier(Distance(r, t))) \div BpsDenominator
           f == [r \in UsedRanges |-> part(r)]
<1>1. ASSUME NEW r \in UsedRanges
      PROVE  /\ part(r) \in Nat
             /\ ranges[r].liq = 0 => part(r) = 0
  <2> DEFINE l == ranges[r].liq
             m == Multiplier(Distance(r, t))
  <2>1. r \in Ranges
    BY ConcentratedAssumption
  <2>2. r[1] \in Int /\ r[2] \in Int
    BY <2>1, EndUsable
  <2>3. Distance(r, t) \in Int
    BY <2>2 DEF Distance, MaxOf
  <2>4. m \in Nat
    BY <2>3, MultiplierNat
  <2>5. l \in Nat /\ BpsDenominator \in Nat \ {0}
    BY Sizes DEF Position
  <2> HIDE DEF l, m
  <2>6. l * m \in Nat /\ (l = 0 => l * m = 0)
    BY <2>4, <2>5, MulNat
  <2> DEFINE n == l * m
  <2> HIDE DEF n
  <2>7. n \in Nat
    BY <2>6 DEF n
  <2>8. n \div BpsDenominator \in Nat /\ (n = 0 => n \div BpsDenominator = 0)
    BY <2>5, <2>7, DivFacts
  <2> QED
    BY <2>6, <2>8 DEF n, l, m
<1> HIDE DEF part
<1>2. f \in [UsedRanges -> Int] /\ (\A r \in UsedRanges : f[r] \in Nat)
      /\ \A r \in UsedRanges : ranges[r].liq = 0 => f[r] = 0
  BY <1>1
<1>3. Weight(ranges, t) = SumFunctionOnSet(f, UsedRanges)
  BY DEF Weight, part
<1> HIDE DEF f
<1>4. SumFunctionOnSet(f, UsedRanges) \in Nat
  BY <1>2, SumNat, PlacesFinite
<1>5. (\A r \in UsedRanges : ranges[r].liq = 0) => SumFunctionOnSet(f, UsedRanges) = 0
  BY <1>2, SumOfZeros, PlacesFinite
<1> QED
  BY <1>3, <1>4, <1>5

\* recompute_user_weighted_liquidity: no difference is ever lost in the total.
LEMMA ReweighFacts ==
    ASSUME NEW w, WeightsKnown(w), NEW u \in Users,
           NEW ranges \in [UsedRanges -> Position], NEW t \in Int,
           NEW n, n = Reweigh(w, u, ranges, t)
    PROVE  /\ WeightsKnown(n)
           /\ \A v \in Users : v # u => n.user[v] = w.user[v]
           /\ (\A r \in UsedRanges : ranges[r].liq = 0) => n.user[u] = 0
           /\ n.total = w.total + n.user[u] - w.user[u]
<1> DEFINE new == Weight(ranges, t)
           f == [w.user EXCEPT ![u] = new]
           total == w.total + new - w.user[u]
<1>1. /\ w.user \in [Users -> Nat] /\ w.total \in Nat /\ w.user[u] \in Nat
      /\ w.total = SumFunctionOnSet(w.user, Users)
  BY DEF WeightsKnown
<1>2. new \in Nat /\ ((\A r \in UsedRanges : ranges[r].liq = 0) => new = 0)
  BY WeightNat
<1>3. n = [user |-> f, total |-> MaxOf(0, total)]
  BY DEF Reweigh
<1> HIDE DEF new
<1>4. /\ f \in [Users -> Nat]
      /\ SumFunctionOnSet(f, Users) = SumFunctionOnSet(w.user, Users) + new - w.user[u]
  BY <1>1, <1>2, SumUpdate, UsersAssumption
<1>5. f[u] = new /\ \A v \in Users : v # u => f[v] = w.user[v]
  BY <1>1
<1> HIDE DEF f
<1>6. SumFunctionOnSet(f, Users) \in Nat
  BY <1>4, SumNat, UsersAssumption
<1>7. total = SumFunctionOnSet(f, Users) /\ total \in Nat
  BY <1>1, <1>4, <1>6
<1>8. MaxOf(0, total) = total
  <2> HIDE DEF total
  <2> QED BY <1>7 DEF MaxOf
<1> HIDE DEF total
<1>9. n.user = f /\ n.total = total
  BY <1>3, <1>8
<1> QED
  BY <1>2, <1>3, <1>4, <1>5, <1>7, <1>8, <1>9 DEF WeightsKnown, total

\* A user who is weighed again: still nothing for those without liquidity.
LEMMA Reweighed ==
    ASSUME CurveInv, RewardsInv, NEW u \in Users, NEW t \in Int,
           NEW w, w = Reweigh(weighted, u, pos[u], t)
    PROVE  /\ WeightsKnown(w)
           /\ \A v \in Users : NoLiquidity(pos, v) => w.user[v] = 0
           /\ RewardsOK(rw, w.user, w.total, ledger)
           /\ w.total \in Nat /\ w.user[u] \in Nat
<1>1. pos[u] \in [UsedRanges -> Position] /\ WeightsKnown(weighted)
  BY DEF CurveInv, Positions, RewardsInv
<1>2. /\ WeightsKnown(w)
      /\ \A v \in Users : v # u => w.user[v] = weighted.user[v]
      /\ (\A r \in UsedRanges : pos[u][r].liq = 0) => w.user[u] = 0
      /\ w.total = weighted.total + w.user[u] - weighted.user[u]
  BY <1>1, ReweighFacts
<1>3. \A v \in Users : NoLiquidity(pos, v) => w.user[v] = 0
  BY <1>2 DEF RewardsInv, NoLiquidity
<1>4. w.total \in Nat /\ w.user[u] \in Nat /\ w.user \in [Users -> Nat]
  BY <1>2 DEF WeightsKnown
<1>5. rw.ws = Unset => w.total = 0
  <2> SUFFICES ASSUME rw.ws = Unset PROVE w.total = 0
    OBVIOUS
  <2>1. \A v \in Users : w.user[v] = 0
    BY <1>3 DEF RewardsInv
  <2>2. w.user \in [Users -> Int]
    BY <1>4
  <2>3. SumFunctionOnSet(w.user, Users) = 0
    BY <2>1, <2>2, SumOfZeros, UsersAssumption
  <2> QED
    BY <1>2, <2>3 DEF WeightsKnown
<1>6. \A v \in Users : rw.wb[v] = Unset => w.user[v] = 0
  BY <1>3 DEF RewardsInv
<1>7. RewardsOK(rw, w.user, w.total, ledger)
  BY <1>5, <1>6 DEF RewardsInv, RewardsOK
<1> QED
  BY <1>2, <1>3, <1>4, <1>7

LEMMA LockedNat ==
    ASSUME lock \in [Users -> Nat]
    PROVE  TotalLocked \in Nat
BY SumNat, UsersAssumption DEF TotalLocked

\* The checkpoint of a user, once weighed.
LEMMA CheckpointKeeps ==
    ASSUME lock \in [Users -> Nat], ledger \in Nat, NEW w, WeightsKnown(w),
           RewardsOK(rw, w.user, w.total, ledger), NEW u \in Users
    PROVE  /\ RewardsOK(Checkpoint(w, u), w.user, w.total, ledger)
           /\ KnownFor(Checkpoint(w, u), rw, u)
<1>1. /\ w.total \in Nat /\ w.user[u] \in Nat /\ TotalLocked \in Nat
      /\ (rw.ws = Unset => w.total = 0) /\ (rw.wb[u] = Unset => w.user[u] = 0)
  BY LockedNat DEF WeightsKnown, RewardsOK
<1> QED
  BY <1>1, CheckpointFacts DEF Checkpoint

\* The calls that leave the positions alone, once the books they leave are known.
LEMMA RewardsBecomeKeeps ==
    ASSUME CurveInv, RewardsInv, pos' = pos, ledger' = ledger, lock' = lock,
           NEW w, weighted' = w, WeightsKnown(w),
           \A v \in Users : NoLiquidity(pos, v) => w.user[v] = 0,
           RewardsOK(rw', w.user, w.total, ledger),
           \A v \in Users : rw'.wb[v] = Unset => NoLiquidity(pos, v),
           rw'.ws = Unset => \A v \in Users : NoLiquidity(pos, v)
    PROVE  RewardsInv'
BY DEF RewardsInv, NoLiquidity

\* MoveLiquidity: weighed and brought up to date before, weighed again after.
LEMMA MoveWeightKeeps ==
    ASSUME CurveInv, CurveInv', RewardsInv, NEW u \in Users, NEW t \in Int,
           \A v \in Users : v # u => pos'[v] = pos[v],
           MoveWeight(u, pos'[u], t), ledger' = ledger, lock' = lock
    PROVE  RewardsInv'
<1> DEFINE before == Reweigh(weighted, u, pos[u], t)
           after == Reweigh(before, u, pos'[u], t)
           due == Checkpoint(before, u)
<1>1. /\ weighted' = after
      /\ rw' = UpdateWorkingBalance(due, lock, TotalLocked, u, after.total, after.user[u])
  BY DEF MoveWeight
<1>2. /\ WeightsKnown(before)
      /\ \A v \in Users : NoLiquidity(pos, v) => before.user[v] = 0
      /\ RewardsOK(rw, before.user, before.total, ledger)
  BY Reweighed
<1>3. lock \in [Users -> Nat] /\ ledger \in Nat
  BY DEF RewardsInv
<1> HIDE DEF before
<1>4. RewardsOK(due, before.user, before.total, ledger) /\ KnownFor(due, rw, u)
  BY <1>2, <1>3, CheckpointKeeps
<1> HIDE DEF due
<1>5. pos'[u] \in [UsedRanges -> Position]
  BY DEF CurveInv, Positions
<1>6. /\ WeightsKnown(after)
      /\ \A v \in Users : v # u => after.user[v] = before.user[v]
      /\ (\A r \in UsedRanges : pos'[u][r].liq = 0) => after.user[u] = 0
  <2> DEFINE ranges == pos'[u]
  <2> HIDE DEF ranges
  <2>1. ranges \in [UsedRanges -> Position]
    BY <1>5 DEF ranges
  <2>2. /\ WeightsKnown(Reweigh(before, u, ranges, t))
        /\ \A v \in Users : v # u => Reweigh(before, u, ranges, t).user[v] = before.user[v]
        /\ (\A r \in UsedRanges : ranges[r].liq = 0) => Reweigh(before, u, ranges, t).user[u] = 0
    BY <1>2, <2>1, ReweighFacts
  <2> QED
    BY <2>2 DEF ranges
<1> HIDE DEF after
<1>7. after.total \in Nat /\ after.user[u] \in Nat /\ TotalLocked \in Nat
      /\ due.ws # Unset /\ due.wb[u] # Unset
  BY <1>3, <1>4, <1>6, LockedNat DEF WeightsKnown, KnownFor
<1>8. RewardsOK(rw', before.user, before.total, ledger) /\ KnownFor(rw', due, u)
  BY <1>1, <1>3, <1>4, <1>7, NewWorkingFacts
<1>9. RewardsOK(rw', after.user, after.total, ledger)
  BY <1>6, <1>8, SharesMoveOK
<1>10. \A v \in Users : NoLiquidity(pos', v) => after.user[v] = 0
  BY <1>2, <1>6 DEF NoLiquidity
<1>11. /\ rw'.ws # Unset
       /\ \A v \in Users : rw'.wb[v] = Unset => NoLiquidity(pos', v)
  <2>1. \A v \in Users : v # u => rw'.wb[v] = rw.wb[v]
    BY <1>4, <1>8 DEF KnownFor
  <2>2. rw'.ws # Unset /\ rw'.wb[u] # Unset
    BY <1>8 DEF KnownFor
  <2> QED
    BY <2>1, <2>2 DEF RewardsInv, NoLiquidity
<1> QED
  BY <1>1, <1>3, <1>6, <1>9, <1>10, <1>11 DEF RewardsInv

-----------------------------------------------------------------------------
(* The books of the rewards, action by action                              *)

\* A step that changes no weight, no reward and no position keeps these books.
LEMMA RewardsFrame ==
    ASSUME RewardsInv, weighted' = weighted, rw' = rw, ledger' = ledger, lock' = lock,
           \A v \in Users : NoLiquidity(pos', v) <=> NoLiquidity(pos, v)
    PROVE  RewardsInv'
BY DEF RewardsInv

\* The calls that move liquidity: checkpoint, change, new weight, working
\* balance.
LEMMA DepositRewards ==
    ASSUME CurveInv, CurveInv', RewardsInv, NEW u \in Users, NEW r \in UsedRanges,
           NEW n \in [Tokens -> Nat], DepositPosition(u, r, n)
    PROVE  RewardsInv'
<1>1. PICK l \in Nat, t \in MinTick..MaxTick : MoveLiquidity(u, r, l, Deposited(u, r, l, t), t)
  BY DepositFacts, Zenon
<1>2. /\ MoveWeight(u, pos'[u], t) /\ ledger' = ledger /\ lock' = lock
      /\ pos' = [pos EXCEPT ![u][r] = Deposited(u, r, l, t)]
  BY <1>1, Zenon DEF MoveLiquidity, DepositPosition, envVars
<1>3. \A v \in Users : v # u => pos'[v] = pos[v]
  BY <1>2 DEF CurveInv, Positions
<1>4. t \in Int
  BY Sizes
<1> QED
  BY <1>2, <1>3, <1>4, MoveWeightKeeps, Zenon

LEMMA WithdrawRewards ==
    ASSUME CurveInv, CurveInv', RewardsInv, NEW u \in Users, NEW r \in UsedRanges,
           NEW l, WithdrawPosition(u, r, l)
    PROVE  RewardsInv'
<1>1. MoveLiquidity(u, r, -l, Left(u, r, l), tick) /\ ledger' = ledger /\ lock' = lock
  BY Zenon DEF WithdrawPosition, envVars, Left
<1>2. MoveWeight(u, pos'[u], tick) /\ pos' = [pos EXCEPT ![u][r] = Left(u, r, l)]
  BY <1>1, Zenon DEF MoveLiquidity
<1>3. \A v \in Users : v # u => pos'[v] = pos[v]
  BY <1>2 DEF CurveInv, Positions
<1>4. tick \in Int
  BY Sizes DEF CurveInv
<1> QED
  BY <1>1, <1>2, <1>3, <1>4, MoveWeightKeeps, Zenon

LEMMA ClaimFeesRewards ==
    ASSUME CurveInv, RewardsInv, NEW u \in Users, NEW ranges, ClaimFees(u, ranges)
    PROVE  RewardsInv'
<1>1. \A v \in Users, r \in UsedRanges : pos'[v][r].liq = pos[v][r].liq
  BY ClaimedPositions
<1>2. \A v \in Users : NoLiquidity(pos', v) <=> NoLiquidity(pos, v)
  BY <1>1 DEF NoLiquidity
<1>3. weighted' = weighted /\ rw' = rw /\ ledger' = ledger /\ lock' = lock
  BY Zenon DEF ClaimFees, rewVars, envVars
<1> QED
  BY <1>2, <1>3, RewardsFrame

\* A swap changes no weight: users are weighed at their own next call.
LEMMA SettleRewards ==
    ASSUME RewardsInv, UNCHANGED <<posVars, rewVars, envVars>>
    PROVE  RewardsInv'
<1>1. pos' = pos /\ weighted' = weighted /\ rw' = rw /\ ledger' = ledger /\ lock' = lock
  BY DEF posVars, rewVars, envVars
<1> QED
  BY <1>1, RewardsFrame

\* What a call leaves when it knows the user: everything is stored for him.
LEMMA KnownKeeps ==
    ASSUME CurveInv, RewardsInv, pos' = pos, ledger' = ledger, lock' = lock, NEW u \in Users,
           NEW w, weighted' = w, WeightsKnown(w),
           \A v \in Users : NoLiquidity(pos, v) => w.user[v] = 0,
           RewardsOK(rw', w.user, w.total, ledger),
           rw'.ws # Unset, rw'.wb[u] # Unset,
           \A v \in Users : v # u => rw'.wb[v] = rw.wb[v]
    PROVE  RewardsInv'
<1>1. \A v \in Users : rw'.wb[v] = Unset => NoLiquidity(pos, v)
  BY DEF RewardsInv
<1> QED
  BY <1>1, RewardsBecomeKeeps

\* The user is weighed again and brought up to date.
LEMMA WeighedAndDue ==
    ASSUME CurveInv, RewardsInv, NEW u \in Users, NEW w, w = Reweigh(weighted, u, pos[u], tick)
    PROVE  /\ WeightsKnown(w)
           /\ \A v \in Users : NoLiquidity(pos, v) => w.user[v] = 0
           /\ RewardsOK(Checkpoint(w, u), w.user, w.total, ledger)
           /\ KnownFor(Checkpoint(w, u), rw, u)
<1>1. tick \in Int
  BY Sizes DEF CurveInv
<1>2. /\ WeightsKnown(w)
      /\ \A v \in Users : NoLiquidity(pos, v) => w.user[v] = 0
      /\ RewardsOK(rw, w.user, w.total, ledger)
  BY <1>1, Reweighed, Zenon
<1>3. lock \in [Users -> Nat] /\ ledger \in Nat
  BY DEF RewardsInv
<1> QED
  BY <1>2, <1>3, CheckpointKeeps, Zenon

LEMMA PayUserBooks ==
    ASSUME NEW r \in RewardState, NEW u \in Users
    PROVE  PayUser(r, u).ws = r.ws /\ PayUser(r, u).wb = r.wb
BY DEF PayUser, RewardState

\* The calls that weigh the user and settle his rewards.
LEMMA ClaimRewards ==
    ASSUME CurveInv, RewardsInv, NEW u \in Users, Claim(u)
    PROVE  RewardsInv' /\ Checkpoint(Reweigh(weighted, u, pos[u], tick), u).user[u].toClaim \in Nat
<1> DEFINE w == Reweigh(weighted, u, pos[u], tick)
           due == Checkpoint(w, u)
<1>1. weighted' = w /\ rw' = PayUser(due, u) /\ ledger' = ledger /\ lock' = lock /\ pos' = pos
  BY DEF Claim, envVars, posVars
<1>2. /\ WeightsKnown(w)
      /\ \A v \in Users : NoLiquidity(pos, v) => w.user[v] = 0
      /\ RewardsOK(due, w.user, w.total, ledger)
      /\ KnownFor(due, rw, u)
  BY WeighedAndDue
<1> HIDE DEF due, w
<1>3. RewardsOK(rw', w.user, w.total, ledger) /\ due.user[u].toClaim \in Nat
  BY <1>1, <1>2, PayUserFacts
<1>4. rw'.ws = due.ws /\ rw'.wb = due.wb
  BY <1>1, <1>2, PayUserBooks DEF RewardsOK
<1>5. RewardsInv'
  BY <1>1, <1>2, <1>3, <1>4, KnownKeeps DEF KnownFor
<1> QED
  BY <1>3, <1>5 DEF due, w

LEMMA GetUserRewardRewards ==
    ASSUME CurveInv, RewardsInv, NEW u \in Users, GetUserReward(u)
    PROVE  RewardsInv'
<1> DEFINE w == Reweigh(weighted, u, pos[u], tick)
           due == Checkpoint(w, u)
<1>1. weighted' = w /\ rw' = due /\ ledger' = ledger /\ lock' = lock /\ pos' = pos
  BY DEF GetUserReward, RewardsBecome, envVars, posVars
<1>2. /\ WeightsKnown(w)
      /\ \A v \in Users : NoLiquidity(pos, v) => w.user[v] = 0
      /\ RewardsOK(due, w.user, w.total, ledger)
      /\ KnownFor(due, rw, u)
  BY WeighedAndDue
<1> HIDE DEF due, w
<1> QED
  BY <1>1, <1>2, KnownKeeps DEF KnownFor

LEMMA GetRewardsInfoRewards ==
    ASSUME CurveInv, RewardsInv, NEW u \in Users, GetRewardsInfo(u)
    PROVE  RewardsInv'
<1> DEFINE due == Checkpoint(weighted, u)
<1>1. weighted' = weighted /\ rw' = due /\ ledger' = ledger /\ lock' = lock /\ pos' = pos
  BY DEF GetRewardsInfo, RewardsBecome, envVars, posVars
<1>2. /\ WeightsKnown(weighted)
      /\ \A v \in Users : NoLiquidity(pos, v) => weighted.user[v] = 0
      /\ RewardsOK(rw, weighted.user, weighted.total, ledger)
      /\ lock \in [Users -> Nat] /\ ledger \in Nat
  BY DEF RewardsInv
<1>3. RewardsOK(due, weighted.user, weighted.total, ledger) /\ KnownFor(due, rw, u)
  BY <1>2, CheckpointKeeps
<1> HIDE DEF due
<1> QED
  BY <1>1, <1>2, <1>3, KnownKeeps DEF KnownFor

LEMMA SetRewardsStateRewards ==
    ASSUME CurveInv, RewardsInv, NEW u \in Users, NEW state \in BOOLEAN,
           SetRewardsState(u, state)
    PROVE  RewardsInv'
<1> DEFINE w == Reweigh(weighted, u, pos[u], tick)
           i == InitWorking(rw, u, w.total, w.user[u])
           q == SetUserRewardsState(i, u, w.user[u], state)
           d == CheckpointUser(q, lock, TotalLocked, ledger, u, w.total, w.user[u])
<1>1. weighted' = w /\ rw' = d /\ ledger' = ledger /\ lock' = lock /\ pos' = pos
  BY DEF SetRewardsState, RewardsBecome, envVars, posVars
<1>2. tick \in Int
  BY Sizes DEF CurveInv
<1>3. /\ WeightsKnown(w)
      /\ \A v \in Users : NoLiquidity(pos, v) => w.user[v] = 0
      /\ RewardsOK(rw, w.user, w.total, ledger)
  BY <1>2, Reweighed
<1> HIDE DEF w
<1>4. /\ w.total \in Nat /\ w.user[u] \in Nat /\ TotalLocked \in Nat /\ ledger \in Nat
      /\ lock \in [Users -> Nat] /\ rw \in RewardState /\ Balanced(rw)
      /\ (rw.ws = Unset => w.total = 0) /\ (rw.wb[u] = Unset => w.user[u] = 0)
  BY <1>3, LockedNat DEF RewardsInv, WeightsKnown, RewardsOK
<1>5. /\ i \in RewardState /\ Balanced(i) /\ i.ws \in Nat /\ i.wb[u] \in Nat
      /\ \A v \in Users : v # u => i.wb[v] = rw.wb[v]
      /\ SameBut(i, rw)
  BY <1>4, InitWorkingFacts
<1> HIDE DEF i
<1>6. RewardsOK(i, w.user, w.total, ledger)
  BY <1>3, <1>5 DEF RewardsOK, SameBut, Unset
<1>7. RewardsOK(q, w.user, w.total, ledger) /\ SameBooks(q, i)
  BY <1>4, <1>6, SetUserRewardsStateFacts
<1> HIDE DEF q
<1>8. q.ws # Unset /\ q.wb[u] # Unset /\ \A v \in Users : v # u => q.wb[v] = rw.wb[v]
  BY <1>5, <1>7 DEF SameBooks, Unset
<1>9. RewardsOK(d, w.user, w.total, ledger) /\ KnownFor(d, q, u)
  BY <1>4, <1>7, <1>8, CheckpointFacts
<1> HIDE DEF d
<1> QED
  BY <1>1, <1>3, <1>8, <1>9, KnownKeeps DEF KnownFor

\* The calls that only bring the pool up to date store no working balance.
LEMMA UpdatePoolBooks ==
    ASSUME NEW r \in RewardState, NEW now, NEW ts \in Nat
    PROVE  UpdatePool(r, now, ts).wb = r.wb /\ UpdatePool(r, now, ts).ws # Unset
<1> DEFINE i == InitWorkingSupply(r, ts)
<1>1. i.wb = r.wb /\ i.ws # Unset /\ i \in RewardState
  BY DEF InitWorkingSupply, RewardState, Unset
<1>2. UpdatePool(r, now, ts) = UpdateRewardsData(i, now, i.ws)
  BY DEF UpdatePool
<1> HIDE DEF i
<1>3. \A t, s : Yield(i, t, s).wb = i.wb /\ Yield(i, t, s).ws = i.ws
  BY <1>1 DEF Yield, RewardState
<1> QED
  BY <1>1, <1>2, <1>3 DEF UpdateRewardsData

LEMMA PoolWideKeeps ==
    ASSUME CurveInv, RewardsInv, UNCHANGED <<pos, weighted, ledger, lock>>,
           RewardsOK(rw', weighted.user, weighted.total, ledger),
           rw'.wb = rw.wb, rw'.ws = Unset => rw.ws = Unset
    PROVE  RewardsInv'
BY DEF RewardsInv

\* The calls that settle the rewards of the pool and of no user.
LEMMA PoolWideRewards ==
    ASSUME CurveInv, RewardsInv
    PROVE  /\ rw \in RewardState /\ ledger \in Nat /\ weighted.total \in Nat
           /\ RewardsOK(rw, weighted.user, weighted.total, ledger)
           /\ RewardsOK(UpdatePool(rw, ledger, weighted.total), weighted.user, weighted.total, ledger)
           /\ UpdatePool(rw, ledger, weighted.total).wb = rw.wb
           /\ UpdatePool(rw, ledger, weighted.total).ws # Unset
           /\ UpdatePool(rw, ledger, weighted.total) \in RewardState
<1>1. /\ rw \in RewardState /\ ledger \in Nat /\ weighted.total \in Nat
      /\ RewardsOK(rw, weighted.user, weighted.total, ledger)
  BY DEF RewardsInv, WeightsKnown, RewardsOK
<1>2. RewardsOK(UpdatePool(rw, ledger, weighted.total), weighted.user, weighted.total, ledger)
  BY <1>1, UpdatePoolFacts
<1> QED
  BY <1>1, <1>2, UpdatePoolBooks DEF RewardsOK

LEMMA GetPoolRewardsRewards ==
    ASSUME CurveInv, RewardsInv, GetPoolRewards
    PROVE  RewardsInv'
<1>1. /\ rw' = UpdatePool(rw, ledger, weighted.total)
      /\ UNCHANGED <<pos, weighted, ledger, lock>>
  BY DEF GetPoolRewards, RewardsBecome, envVars, posVars
<1> QED
  BY <1>1, PoolWideRewards, PoolWideKeeps

LEMMA ReturnUnusedRewards ==
    ASSUME CurveInv, RewardsInv, NEW caller, ReturnUnusedReward(caller)
    PROVE  RewardsInv'
<1>1. /\ rw' = UpdatePool(rw, ledger, weighted.total)
      /\ UNCHANGED <<pos, weighted, ledger, lock>>
  BY DEF ReturnUnusedReward, envVars, posVars
<1> QED
  BY <1>1, PoolWideRewards, PoolWideKeeps

LEMMA SetRewardsConfigRewards ==
    ASSUME CurveInv, RewardsInv, NEW caller, NEW e \in Nat, NEW tps \in Nat,
           SetRewardsConfig(caller, e, tps)
    PROVE  RewardsInv'
<1>1. /\ rw' = SetRewardConfig(rw, ledger, weighted.total, e, tps)
      /\ UNCHANGED <<pos, weighted, ledger, lock>>
  BY DEF SetRewardsConfig, RewardsBecome, envVars, posVars
<1>2. RewardsOK(rw', weighted.user, weighted.total, ledger)
  BY <1>1, PoolWideRewards, SetRewardConfigFacts
<1> DEFINE p == UpdatePool(rw, ledger, weighted.total)
<1>3. rw' = IF tps = 0 /\ rw.expiredAt < ledger THEN rw
            ELSE [p EXCEPT !.lastTime = ledger, !.tps = tps,
                           !.expiredAt = IF tps = 0 THEN ledger ELSE e]
  BY <1>1 DEF SetRewardConfig
<1>4. p.wb = rw.wb /\ p.ws # Unset /\ p \in RewardState
  BY PoolWideRewards
<1> HIDE DEF p
<1>5. rw'.wb = rw.wb /\ (rw'.ws = Unset => rw.ws = Unset)
  BY <1>3, <1>4 DEF RewardState
<1> QED
  BY <1>1, <1>2, <1>5, PoolWideKeeps

LEMMA AdjustRewards ==
    ASSUME CurveInv, RewardsInv, NEW caller, NEW diff \in Int,
           AdjustTotalAccumulatedReward(caller, diff)
    PROVE  RewardsInv'
<1> DEFINE p == UpdatePool(rw, ledger, weighted.total)
<1>1. /\ p.acc + diff >= 0
      /\ rw' = AdjustAccumulated(rw, ledger, weighted.total, diff)
      /\ UNCHANGED <<pos, weighted, ledger, lock>>
  BY DEF AdjustTotalAccumulatedReward, RewardsBecome, envVars, posVars
<1>2. p.wb = rw.wb /\ p.ws # Unset /\ p \in RewardState
  BY PoolWideRewards
<1>3. rw' = [p EXCEPT !.acc = @ + diff]
  BY <1>1 DEF AdjustAccumulated
<1>4. p.acc + diff \in Nat
  <2> HIDE DEF p
  <2> QED BY <1>1, <1>2 DEF RewardState
<1>5. RewardsOK(rw', weighted.user, weighted.total, ledger)
  BY <1>1, <1>4, PoolWideRewards, AdjustFacts
<1> HIDE DEF p
<1>6. rw'.wb = rw.wb /\ rw'.ws # Unset
  BY <1>2, <1>3 DEF RewardState
<1> QED
  BY <1>1, <1>5, <1>6, PoolWideKeeps

\* Time passes, and locks change behind the pool's back.
LEMMA SurroundingsRewards ==
    ASSUME RewardsInv, ledger' \in Nat, ledger <= ledger', lock' \in [Users -> Nat],
           UNCHANGED <<pos, weighted, rw>>
    PROVE  RewardsInv'
<1>1. rw.lastTime \in Nat /\ rw.lastTime <= ledger /\ ledger \in Nat
  BY DEF RewardsInv, RewardsOK, RewardState
<1>2. rw.lastTime <= ledger'
  BY <1>1
<1>3. RewardsOK(rw, weighted.user, weighted.total, ledger')
  BY <1>2 DEF RewardsInv, RewardsOK
<1> QED
  BY <1>3 DEF RewardsInv

LEMMA RewardsInit == Init => RewardsInv
<1> SUFFICES ASSUME Init PROVE RewardsInv
  OBVIOUS
<1> DEFINE zeros == [u \in Users |-> 0]
<1>1. /\ weighted = [user |-> zeros, total |-> 0] /\ ledger = 1 /\ rw = EmptyRewards
      /\ lock = zeros /\ pos = [u \in Users |-> [r \in UsedRanges |-> NoPosition]]
  BY DEF Init
<1>2. zeros \in [Users -> Nat] /\ zeros \in [Users -> Int] /\ \A u \in Users : zeros[u] = 0
  OBVIOUS
<1> HIDE DEF zeros
<1>3. SumFunctionOnSet(zeros, Users) = 0
  BY <1>2, SumOfZeros, UsersAssumption
<1>4. WeightsKnown(weighted) /\ weighted.user = zeros /\ weighted.total = 0
  BY <1>1, <1>2, <1>3 DEF WeightsKnown
<1>5. \A u \in Users : NoLiquidity(pos, u)
  BY <1>1 DEF NoLiquidity, NoPosition
<1>6. EmptyRewards \in RewardState
  BY DEF EmptyRewards, RewardState, UserReward
<1>7. /\ EmptyRewards.ws = Unset /\ EmptyRewards.lastTime = 0 /\ EmptyRewards.cum = 0
      /\ \A u \in Users : EmptyRewards.user[u].lastCum = 0 /\ EmptyRewards.wb[u] = Unset
  BY DEF EmptyRewards
<1>8. Balanced(EmptyRewards)
  <2> DEFINE f == Working(EmptyRewards)
  <2>1. f \in [Users -> Int] /\ \A u \in Users : f[u] = 0
    BY <1>7 DEF Working, Stored
  <2> HIDE DEF f
  <2>2. SumFunctionOnSet(f, Users) = 0
    BY <2>1, SumOfZeros, UsersAssumption
  <2> QED
    BY <1>7, <2>2 DEF Balanced, Stored, f
<1>9. RewardsOK(rw, weighted.user, weighted.total, ledger)
  BY <1>1, <1>2, <1>4, <1>6, <1>7, <1>8 DEF RewardsOK
<1> QED
  BY <1>1, <1>2, <1>4, <1>5, <1>9 DEF RewardsInv

-----------------------------------------------------------------------------
(* The balances of the tokens                                              *)

Balances == [Holders -> [Assets -> Nat]]

\* What a call pays in both tokens, in one, and what a swap exchanges.
PaidBoth(b, from, to, n) ==
    [b EXCEPT ![from] = [i \in Assets |-> IF i \in Tokens THEN @[i] - n[i] ELSE @[i]],
              ![to]   = [i \in Assets |-> IF i \in Tokens THEN @[i] + n[i] ELSE @[i]]]
PaidOne(b, from, to, i, n) == [b EXCEPT ![from][i] = @ - n, ![to][i] = @ + n]
Exchanged(b, u, x, y, taken, out) ==
    [b EXCEPT ![u][x] = @ - taken, ![u][y] = @ + out,
              ![Pool][x] = @ + taken, ![Pool][y] = @ - out]

\* Payments between two holders keep the balances natural if the payer has
\* them.
LEMMA PaidBothFacts ==
    ASSUME NEW b \in Balances, NEW from \in Holders, NEW to \in Holders, from # to,
           NEW n \in [Tokens -> Nat], \A i \in Tokens : n[i] <= b[from][i],
           NEW c, c = PaidBoth(b, from, to, n)
    PROVE  /\ c \in Balances
           /\ \A i \in Tokens : c[from][i] = b[from][i] - n[i] /\ c[to][i] = b[to][i] + n[i]
<1> DEFINE less == [i \in Assets |-> IF i \in Tokens THEN b[from][i] - n[i] ELSE b[from][i]]
           more == [i \in Assets |-> IF i \in Tokens THEN b[to][i] + n[i] ELSE b[to][i]]
<1>1. \A h \in Holders, i \in Assets : b[h][i] \in Nat
  BY DEF Balances
<1>2. \A i \in Tokens : i \in Assets
  BY DEF Assets
<1>3. ASSUME NEW i \in Assets
      PROVE  /\ (IF i \in Tokens THEN b[from][i] - n[i] ELSE b[from][i]) \in Nat
             /\ (IF i \in Tokens THEN b[to][i] + n[i] ELSE b[to][i]) \in Nat
  <2>1. b[from][i] \in Nat /\ b[to][i] \in Nat /\ (i \in Tokens => n[i] \in Nat /\ n[i] <= b[from][i])
    BY <1>1
  <2> QED
    BY <2>1
<1>4. less \in [Assets -> Nat] /\ more \in [Assets -> Nat]
  BY <1>3
<1>5. \A i \in Tokens : less[i] = b[from][i] - n[i] /\ more[i] = b[to][i] + n[i]
  BY <1>2
<1>6. c = [b EXCEPT ![from] = less, ![to] = more]
  BY DEF PaidBoth, Balances
<1> HIDE DEF less, more
<1>7. c \in Balances /\ c[from] = less /\ c[to] = more
  BY <1>4, <1>6 DEF Balances
<1> QED
  BY <1>5, <1>7

LEMMA PaidOneFacts ==
    ASSUME NEW b \in Balances, NEW from \in Holders, NEW to \in Holders, from # to,
           NEW i \in Assets, NEW n \in Nat, n <= b[from][i],
           NEW c, c = PaidOne(b, from, to, i, n)
    PROVE  /\ c \in Balances
           /\ c[from][i] = b[from][i] - n /\ c[to][i] = b[to][i] + n
           /\ \A j \in Assets, h \in Holders : j # i => c[h][j] = b[h][j]
<1> DEFINE less == [b[from] EXCEPT ![i] = b[from][i] - n]
           more == [b[to] EXCEPT ![i] = b[to][i] + n]
<1>1. b[from][i] - n \in Nat /\ b[to][i] + n \in Nat
      /\ b[from] \in [Assets -> Nat] /\ b[to] \in [Assets -> Nat]
  <2>1. b[from][i] \in Nat /\ b[to][i] \in Nat
    BY DEF Balances
  <2> QED
    BY <2>1 DEF Balances
<1>2. /\ less \in [Assets -> Nat] /\ more \in [Assets -> Nat]
      /\ less[i] = b[from][i] - n /\ more[i] = b[to][i] + n
      /\ \A j \in Assets : j # i => less[j] = b[from][j] /\ more[j] = b[to][j]
  BY <1>1
<1>3. c = [b EXCEPT ![from] = less, ![to] = more]
  BY DEF PaidOne, Balances
<1> HIDE DEF less, more
<1>4. /\ c \in Balances /\ c[from] = less /\ c[to] = more
      /\ \A h \in Holders : h # from /\ h # to => c[h] = b[h]
  BY <1>2, <1>3 DEF Balances
<1> QED
  BY <1>2, <1>4

LEMMA ExchangedFacts ==
    ASSUME NEW b \in Balances, NEW u \in Holders, u # Pool, NEW x \in Assets, NEW y \in Assets,
           x # y, NEW taken \in Nat, taken <= b[u][x], NEW out \in Nat, out <= b[Pool][y],
           NEW c, c = Exchanged(b, u, x, y, taken, out)
    PROVE  /\ c \in Balances
           /\ c[Pool][x] = b[Pool][x] + taken /\ c[Pool][y] = b[Pool][y] - out
<1> DEFINE his == [b[u] EXCEPT ![x] = b[u][x] - taken, ![y] = b[u][y] + out]
           its == [b[Pool] EXCEPT ![x] = b[Pool][x] + taken, ![y] = b[Pool][y] - out]
<1>1. Pool \in Holders
  BY DEF Holders
<1>2. b[u] \in [Assets -> Nat] /\ b[Pool] \in [Assets -> Nat]
  BY <1>1 DEF Balances
<1>3. /\ b[u][x] - taken \in Nat /\ b[u][y] + out \in Nat
      /\ b[Pool][x] + taken \in Nat /\ b[Pool][y] - out \in Nat
  <2>1. b[u][x] \in Nat /\ b[u][y] \in Nat /\ b[Pool][x] \in Nat /\ b[Pool][y] \in Nat
    BY <1>2
  <2> QED
    BY <2>1
<1>4. /\ his \in [Assets -> Nat] /\ its \in [Assets -> Nat]
      /\ its[x] = b[Pool][x] + taken /\ its[y] = b[Pool][y] - out
  BY <1>2, <1>3
<1>5. c = [b EXCEPT ![u] = his, ![Pool] = its]
  BY <1>1 DEF Exchanged, Balances
<1> HIDE DEF his, its
<1> QED
  BY <1>1, <1>4, <1>5 DEF Balances

-----------------------------------------------------------------------------
(* The balances, reserves and fees                                         *)

\* The books of the tokens: no balance is negative, and the pool holds its
\* reserves and the fees of the protocol.
BookInv ==
    /\ bal \in Balances
    /\ reserve \in [Tokens -> Nat] /\ protocolFee \in [Tokens -> Nat]
    /\ pfFraction \in 0..FeeDenominator /\ killed \in [Switches -> BOOLEAN]
    /\ Solvent

LEMMA Accounts ==
    /\ Pool \in Holders /\ Outside \in Holders /\ Pool # Outside
    /\ \A u \in Users : u \in Holders /\ u # Pool
    /\ \A i \in Tokens : i \in Assets
    /\ RewardToken \in Assets
BY ConcentratedAssumption DEF Holders, Assets

\* What BookInv says of one token.
LEMMA Reserved ==
    ASSUME BookInv, NEW i \in Tokens
    PROVE  /\ bal[Pool][i] \in Nat /\ reserve[i] \in Nat /\ protocolFee[i] \in Nat
           /\ reserve[i] + protocolFee[i] <= bal[Pool][i]
BY Accounts DEF BookInv, Balances, Solvent

\* The actions that move tokens of the pool.
LEMMA DepositBooks ==
    ASSUME CurveInv, BookInv, NEW u \in Users, NEW r \in UsedRanges, NEW n \in [Tokens -> Nat],
           DepositPosition(u, r, n)
    PROVE  BookInv'
<1>0. PICK l \in Nat, t \in MinTick..MaxTick, taken \in [Tokens -> Nat] :
             /\ l > 0
             /\ price' \in Prices /\ tick' = t /\ OnStep(price', t)
             /\ liquidity = Held(pos, ActiveAt(t))
             /\ \A i \in Tokens : taken[i] <= n[i] /\ n[i] <= bal[u][i]
             /\ reserve' = [i \in Tokens |-> reserve[i] + taken[i]]
             /\ bal' = [bal EXCEPT
                   ![u]    = [i \in Assets |-> IF i \in Tokens THEN @[i] - taken[i] ELSE @[i]],
                   ![Pool] = [i \in Assets |-> IF i \in Tokens THEN @[i] + taken[i] ELSE @[i]]]
             /\ MoveLiquidity(u, r, l, Deposited(u, r, l, t), t)
  BY DepositFacts, Zenon
<1>1. /\ \A i \in Tokens : taken[i] <= n[i] /\ n[i] <= bal[u][i]
      /\ reserve' = [i \in Tokens |-> reserve[i] + taken[i]]
      /\ bal' = PaidBoth(bal, u, Pool, taken)
  BY <1>0, Zenon DEF PaidBoth
<1>2. protocolFee' = protocolFee /\ pfFraction' = pfFraction /\ killed' = killed
  BY Zenon DEF DepositPosition, cfgVars
<1>3. \A i \in Tokens : taken[i] <= bal[u][i]
  <2> SUFFICES ASSUME NEW i \in Tokens PROVE taken[i] <= bal[u][i]
    OBVIOUS
  <2>1. bal[u][i] \in Nat /\ taken[i] \in Nat /\ n[i] \in Nat
    BY Accounts DEF BookInv, Balances
  <2> QED
    BY <1>1, <2>1
<1>4. bal' \in Balances /\ \A i \in Tokens : bal'[Pool][i] = bal[Pool][i] + taken[i]
  <2>1. bal \in Balances
    BY DEF BookInv
  <2> QED
    BY <1>1, <1>3, <2>1, Accounts, PaidBothFacts
<1>5. ASSUME NEW i \in Tokens
      PROVE  reserve'[i] \in Nat /\ reserve'[i] + protocolFee'[i] <= bal'[Pool][i]
  BY <1>1, <1>2, <1>4, Reserved
<1>6. reserve' \in [Tokens -> Nat]
  BY <1>1, <1>5
<1> QED
  BY <1>2, <1>4, <1>5, <1>6 DEF BookInv, Solvent

LEMMA PayBooks ==
    ASSUME BookInv, NEW u \in Users, NEW n \in [Tokens -> Nat], PayFromReserves(u, n),
           UNCHANGED <<protocolFee, cfgVars>>
    PROVE  BookInv'
<1>1. /\ \A i \in Tokens : n[i] <= reserve[i] /\ n[i] <= bal[Pool][i]
      /\ reserve' = [i \in Tokens |-> reserve[i] - n[i]]
      /\ bal' = PaidBoth(bal, Pool, u, n)
  BY DEF PayFromReserves, PaidBoth
<1>2. protocolFee' = protocolFee /\ pfFraction' = pfFraction /\ killed' = killed
  BY DEF cfgVars
<1>3. bal' \in Balances /\ \A i \in Tokens : bal'[Pool][i] = bal[Pool][i] - n[i]
  <2>1. bal \in Balances
    BY DEF BookInv
  <2> QED
    BY <1>1, <2>1, Accounts, PaidBothFacts
<1>4. ASSUME NEW i \in Tokens
      PROVE  reserve'[i] \in Nat /\ reserve'[i] + protocolFee'[i] <= bal'[Pool][i]
  BY <1>1, <1>2, <1>3, Reserved
<1>5. reserve' \in [Tokens -> Nat]
  BY <1>1, <1>4
<1> QED
  BY <1>2, <1>3, <1>4, <1>5 DEF BookInv, Solvent

LEMMA WithdrawBooks ==
    ASSUME CurveInv, BookInv, NEW u \in Users, NEW r \in UsedRanges, NEW l \in Nat,
           WithdrawPosition(u, r, l)
    PROVE  BookInv'
<1> DEFINE principal == AmountsFor(r, price, l, FALSE)
           owed == Accrued(u, r).owed
           n == WithdrawPays(u, r, l)
<1>1. PayFromReserves(u, n) /\ UNCHANGED <<protocolFee, cfgVars>>
  BY Zenon DEF WithdrawPosition
<1>2. n = [i \in Tokens |-> principal[i] + owed[i]]
  BY DEF WithdrawPays
<1>3. principal \in [Tokens -> Nat]
  BY AmountsForNat DEF CurveInv
<1>4. owed \in [Tokens -> Nat]
  BY AccruedFacts DEF Position
<1> HIDE DEF principal, owed, n
<1>5. n \in [Tokens -> Nat]
  BY <1>2, <1>3, <1>4
<1> QED
  BY <1>1, <1>5, PayBooks

LEMMA ClaimFeesBooks ==
    ASSUME CurveInv, BookInv, NEW u \in Users, NEW ranges, ClaimFees(u, ranges)
    PROVE  BookInv'
<1> DEFINE owed(i) == [r \in ranges |-> Accrued(u, r).owed[i]]
           n == [i \in Tokens |-> SumFunctionOnSet(owed(i), ranges)]
<1>1. ranges \subseteq UsedRanges /\ PayFromReserves(u, n) /\ UNCHANGED <<protocolFee, cfgVars>>
  BY DEF ClaimFees, Ranged
<1>2. IsFiniteSet(ranges)
  BY <1>1, PlacesFinite, FS_Subset
<1>3. ASSUME NEW i \in Tokens PROVE SumFunctionOnSet(owed(i), ranges) \in Nat
  <2>1. ASSUME NEW r \in ranges PROVE Accrued(u, r).owed[i] \in Nat
    BY <1>1, AccruedFacts DEF Position
  <2>2. owed(i) \in [ranges -> Int] /\ \A r \in ranges : owed(i)[r] \in Nat
    BY <2>1
  <2> HIDE DEF owed
  <2> QED
    BY <1>2, <2>2, SumNat
<1>4. n \in [Tokens -> Nat]
  BY <1>3
<1> HIDE DEF n
<1> QED
  BY <1>1, <1>4, PayBooks

\* The end of a swap, whose pool keeps no more than it was paid.
LEMMA SettleBooks ==
    ASSUME BookInv, NEW u \in Users, NEW down \in BOOLEAN, NEW s, s.cut \in Nat,
           NEW taken \in Nat, NEW in \in Nat, NEW out \in Nat,
           NEW more, more.cut \in Nat, more.lp \in Nat, in + more.cut + more.lp <= taken,
           Settle(u, s, down, taken, in, out, more)
    PROVE  BookInv'
<1> DEFINE x == InToken(down)
           y == OutToken(down)
<1>1. x \in Tokens /\ y \in Tokens /\ x # y /\ \A i \in Tokens : i = x \/ i = y
  BY DEF InToken, OutToken, Tokens
<1>2. /\ taken <= bal[u][x] /\ out <= bal[Pool][y] /\ in >= s.cut /\ out <= reserve[y]
      /\ reserve' = [reserve EXCEPT ![x] = @ + in - s.cut + more.lp, ![y] = @ - out]
      /\ protocolFee' = [protocolFee EXCEPT ![x] = @ + s.cut + more.cut]
      /\ bal' = Exchanged(bal, u, x, y, taken, out)
      /\ pfFraction' = pfFraction /\ killed' = killed
  BY Zenon DEF Settle, Exchanged, cfgVars
<1> HIDE DEF x, y
<1>3. /\ reserve \in [Tokens -> Nat] /\ protocolFee \in [Tokens -> Nat] /\ bal \in Balances
  BY DEF BookInv
<1>4. /\ bal' \in Balances
      /\ bal'[Pool][x] = bal[Pool][x] + taken /\ bal'[Pool][y] = bal[Pool][y] - out
  BY <1>1, <1>2, <1>3, Accounts, ExchangedFacts
<1>5. /\ bal[Pool][x] \in Nat /\ reserve[x] \in Nat /\ protocolFee[x] \in Nat
      /\ reserve[x] + protocolFee[x] <= bal[Pool][x]
      /\ bal[Pool][y] \in Nat /\ reserve[y] \in Nat /\ protocolFee[y] \in Nat
      /\ reserve[y] + protocolFee[y] <= bal[Pool][y]
  BY <1>1, Reserved
<1>6. /\ reserve'[x] = reserve[x] + in - s.cut + more.lp /\ reserve'[y] = reserve[y] - out
      /\ protocolFee'[x] = protocolFee[x] + s.cut + more.cut /\ protocolFee'[y] = protocolFee[y]
      /\ DOMAIN reserve' = Tokens /\ DOMAIN protocolFee' = Tokens
      /\ reserve' = [i \in Tokens |-> reserve'[i]]
      /\ protocolFee' = [i \in Tokens |-> protocolFee'[i]]
  BY <1>1, <1>2, <1>3
<1>7. /\ reserve'[x] \in Nat /\ reserve'[y] \in Nat
      /\ protocolFee'[x] \in Nat /\ protocolFee'[y] \in Nat
      /\ reserve'[x] + protocolFee'[x] <= bal'[Pool][x]
      /\ reserve'[y] + protocolFee'[y] <= bal'[Pool][y]
  BY <1>2, <1>4, <1>5, <1>6
<1>8. \A i \in Tokens : /\ reserve'[i] \in Nat /\ protocolFee'[i] \in Nat
                        /\ reserve'[i] + protocolFee'[i] <= bal'[Pool][i]
  BY <1>1, <1>7
<1>9. reserve' \in [Tokens -> Nat] /\ protocolFee' \in [Tokens -> Nat]
  BY <1>6, <1>8
<1> QED
  BY <1>2, <1>4, <1>8, <1>9 DEF BookInv, Solvent

LEMMA SwapBooks ==
    ASSUME CurveInv, BookInv, NEW u \in Users, NEW down \in BOOLEAN,
           NEW n \in Nat, NEW outMin, Swap(u, down, n, outMin)
    PROVE  BookInv'
<1> DEFINE s == SwapLoop(n, down, TRUE)
           more == Surplus(s, s.left, InToken(down))
<1>1. /\ raw.total > 0 /\ LimitAhead(down) /\ s.left < n
      /\ Settle(u, s, down, n, n - s.left, s.worth, more)
  BY DEF Swap, CanSwap
<1>2. pfFraction \in 0..FeeDenominator
  BY DEF BookInv
<1>3. s \in LoopStates(down)
  BY <1>1, <1>2, SwapLoopOK
<1> HIDE DEF s
<1>4. InToken(down) \in Tokens /\ s.left \in Nat /\ s.cut \in Nat /\ s.worth \in Nat
  BY <1>3 DEF InToken, Tokens, LoopStates
<1>5. more.cut \in Nat /\ more.lp \in Nat /\ more.cut + more.lp <= s.left
  BY <1>2, <1>3, <1>4, SurplusFacts
<1> HIDE DEF more
<1>6. n - s.left \in Nat /\ (n - s.left) + more.cut + more.lp <= n
  BY <1>1, <1>4, <1>5
<1> QED
  BY <1>1, <1>4, <1>5, <1>6, SettleBooks

LEMMA SwapStrictReceiveBooks ==
    ASSUME CurveInv, BookInv, NEW u \in Users, NEW down \in BOOLEAN,
           NEW n \in Nat, NEW inMax, SwapStrictReceive(u, down, n, inMax)
    PROVE  BookInv'
<1> DEFINE s == SwapLoop(n, down, FALSE)
           more == [ticks |-> s.ticks, growth |-> s.growth, cut |-> 0, lp |-> 0]
<1>1. /\ raw.total > 0 /\ LimitAhead(down)
      /\ Settle(u, s, down, s.worth, s.worth, n, more)
  BY DEF SwapStrictReceive, CanSwap
<1>2. pfFraction \in 0..FeeDenominator
  BY DEF BookInv
<1>3. s \in LoopStates(down)
  BY <1>1, <1>2, SwapLoopOK
<1> HIDE DEF s
<1>4. s.cut \in Nat /\ s.worth \in Nat
  BY <1>3 DEF LoopStates
<1>5. more.cut = 0 /\ more.lp = 0
  OBVIOUS
<1> HIDE DEF more
<1>6. s.worth + more.cut + more.lp <= s.worth
  BY <1>4, <1>5
<1> QED
  BY <1>1, <1>4, <1>5, <1>6, SettleBooks

LEMMA ClaimProtocolFeesBooks ==
    ASSUME BookInv, NEW caller, ClaimProtocolFees(caller)
    PROVE  BookInv'
<1>1. /\ \A i \in Tokens : protocolFee[i] <= bal[Pool][i]
      /\ bal' = PaidBoth(bal, Pool, Outside, protocolFee)
      /\ protocolFee' = [i \in Tokens |-> 0] /\ reserve' = reserve
      /\ pfFraction' = pfFraction /\ killed' = killed
  BY DEF ClaimProtocolFees, PaidBoth, cfgVars
<1>2. bal' \in Balances /\ \A i \in Tokens : bal'[Pool][i] = bal[Pool][i] - protocolFee[i]
  <2>1. bal \in Balances /\ protocolFee \in [Tokens -> Nat]
    BY DEF BookInv
  <2> QED
    BY <1>1, <2>1, Accounts, PaidBothFacts
<1>3. ASSUME NEW i \in Tokens PROVE reserve'[i] + protocolFee'[i] <= bal'[Pool][i]
  BY <1>1, <1>2, Reserved
<1>4. protocolFee' \in [Tokens -> Nat]
  BY <1>1
<1> QED
  BY <1>1, <1>2, <1>3, <1>4 DEF BookInv, Solvent

\* One token is paid out of the pool, and its reserve and fee stay.
LEMMA PayOneBooks ==
    ASSUME BookInv, NEW to \in Holders, to # Pool, NEW i \in Assets, NEW n \in Nat,
           n <= bal[Pool][i], i \in Tokens => reserve[i] + protocolFee[i] <= bal[Pool][i] - n,
           bal' = PaidOne(bal, Pool, to, i, n), UNCHANGED <<reserve, protocolFee, cfgVars>>
    PROVE  BookInv'
<1>1. /\ bal' \in Balances /\ bal'[Pool][i] = bal[Pool][i] - n
      /\ \A j \in Assets : j # i => bal'[Pool][j] = bal[Pool][j]
  <2>1. bal \in Balances
    BY DEF BookInv
  <2> QED
    BY <2>1, Accounts, PaidOneFacts
<1>2. ASSUME NEW j \in Tokens PROVE reserve[j] + protocolFee[j] <= bal'[Pool][j]
  BY <1>1, Accounts, Reserved
<1> QED
  BY <1>1, <1>2 DEF BookInv, Solvent, cfgVars

LEMMA ClaimBooks ==
    ASSUME CurveInv, RewardsInv, BookInv, NEW u \in Users, Claim(u)
    PROVE  BookInv'
<1> DEFINE paid == Checkpoint(Reweigh(weighted, u, pos[u], tick), u).user[u].toClaim
<1>1. paid \in Nat
  BY ClaimRewards
<1>2. /\ paid <= bal[Pool][RewardToken]
      /\ RewardToken \in Tokens =>
             reserve[RewardToken] + protocolFee[RewardToken] <= bal[Pool][RewardToken] - paid
      /\ bal' = PaidOne(bal, Pool, u, RewardToken, paid)
      /\ UNCHANGED <<reserve, protocolFee, cfgVars>>
  BY DEF Claim, PaidOne
<1> HIDE DEF paid
<1> QED
  BY <1>1, <1>2, Accounts, PayOneBooks

LEMMA ReturnUnusedBooks ==
    ASSUME CurveInv, RewardsInv, BookInv, NEW caller, ReturnUnusedReward(caller)
    PROVE  BookInv'
<1> DEFINE r == UpdatePool(rw, ledger, weighted.total)
           owed == MaxOf(0, TotalConfigured(r, ledger) - r.claimed)
           kept == IF RewardToken \in Tokens
                   THEN reserve[RewardToken] + protocolFee[RewardToken] ELSE 0
           have == bal[Pool][RewardToken]
           n == MaxOf(0, have - (owed + kept))
<1>1. /\ bal' = PaidOne(bal, Pool, Outside, RewardToken, n)
      /\ UNCHANGED <<reserve, protocolFee, cfgVars>>
  BY DEF ReturnUnusedReward, PaidOne
<1>2. r \in RewardState /\ ledger \in Nat
  BY PoolWideRewards
<1> HIDE DEF r
<1>3. TotalConfigured(r, ledger) - r.claimed \in Int
  <2>1. r.acc \in Nat /\ r.claimed \in Nat /\ r.tps \in Nat /\ r.expiredAt \in Nat
    BY <1>2 DEF RewardState
  <2>2. (r.expiredAt - ledger) * r.tps \in Int
    BY <1>2, <2>1
  <2> QED
    BY <2>1, <2>2 DEF TotalConfigured
<1>4. owed \in Nat
  BY <1>3 DEF MaxOf
<1> HIDE DEF owed
<1>5. kept \in Nat /\ have \in Nat /\ kept <= have
  <2>1. have \in Nat
    BY Accounts DEF BookInv, Balances
  <2>2. CASE RewardToken \in Tokens
    BY <2>2, Reserved
  <2>3. CASE RewardToken \notin Tokens
    <3>1. kept = 0
      BY <2>3
    <3> HIDE DEF kept, have
    <3> QED BY <2>1, <3>1
  <2> QED
    BY <2>2, <2>3
<1>6. RewardToken \in Tokens => kept = reserve[RewardToken] + protocolFee[RewardToken]
  OBVIOUS
<1> HIDE DEF kept, have
<1>7. n \in Nat /\ n <= have /\ kept <= have - n
  BY <1>4, <1>5 DEF MaxOf
<1> HIDE DEF n
<1>8. /\ n <= bal[Pool][RewardToken]
      /\ RewardToken \in Tokens =>
           reserve[RewardToken] + protocolFee[RewardToken] <= bal[Pool][RewardToken] - n
  BY <1>6, <1>7 DEF have
<1> QED
  BY <1>1, <1>7, <1>8, Accounts, PayOneBooks

LEMMA SendToPoolBooks ==
    ASSUME BookInv, NEW from \in Users \cup {Outside}, NEW i \in Assets, NEW n \in Nat,
           SendToPool(from, i, n)
    PROVE  BookInv'
<1>1. /\ n <= bal[from][i] /\ bal' = PaidOne(bal, from, Pool, i, n)
      /\ UNCHANGED <<reserve, protocolFee, cfgVars>>
  BY DEF SendToPool, PaidOne
<1>2. from \in Holders /\ from # Pool /\ Pool \in Holders /\ bal \in Balances
  BY Accounts DEF BookInv
<1>3. /\ bal' \in Balances /\ bal'[Pool][i] = bal[Pool][i] + n
      /\ \A j \in Assets : j # i => bal'[Pool][j] = bal[Pool][j]
  BY <1>1, <1>2, PaidOneFacts
<1>4. ASSUME NEW j \in Tokens PROVE reserve[j] + protocolFee[j] <= bal'[Pool][j]
  BY <1>3, Accounts, Reserved
<1> QED
  BY <1>1, <1>3, <1>4 DEF BookInv, Solvent, cfgVars

\* The actions that move none.
LEMMA BooksAside ==
    ASSUME BookInv, UNCHANGED bookVars, pfFraction' \in 0..FeeDenominator,
           killed' \in [Switches -> BOOLEAN]
    PROVE  BookInv'
BY DEF BookInv, bookVars, Solvent

LEMMA BooksInit == Init => BookInv
<1> SUFFICES ASSUME Init PROVE BookInv
  OBVIOUS
<1>1. InitialBalance \in Nat /\ RewardFunds \in Nat /\ InitialProtocolFraction \in 0..FeeDenominator
  BY ConcentratedAssumption
<1>2. bal = [h \in Holders |-> [i \in Assets |->
                 IF h \in Users /\ i \in Tokens THEN InitialBalance
                 ELSE IF h = Outside /\ i = RewardToken THEN RewardFunds
                 ELSE 0]]
  BY DEF Init
<1>3. bal \in Balances
  BY <1>1, <1>2 DEF Balances
<1>4. reserve = [i \in Tokens |-> 0] /\ protocolFee = [i \in Tokens |-> 0]
  BY DEF Init
<1>5. \A i \in Tokens : bal[Pool][i] \in Nat
  BY <1>3, Accounts DEF Balances
<1>6. Solvent
  BY <1>4, <1>5 DEF Solvent
<1>7. pfFraction \in 0..FeeDenominator /\ killed \in [Switches -> BOOLEAN]
  BY <1>1 DEF Init
<1> QED
  BY <1>3, <1>4, <1>6, <1>7 DEF BookInv

-----------------------------------------------------------------------------
(* The invariant                                                           *)

\* The inductive invariant.  The curve needs nothing of the books; the books of
\* the rewards need the curve, as a weight is that of the liquidity a user has;
\* the books of the tokens need the curve for the amounts a swap or a withdrawal
\* moves.
PoolInv == CurveInv /\ RewardsInv /\ BookInv

\* The invariant holds before the first deposit,
LEMMA CurveInit == Init => CurveInv
<1> SUFFICES ASSUME Init PROVE CurveInv
  OBVIOUS
<1> DEFINE zeros == [u \in Users |-> 0]
<1>1. /\ price = SqrtRatio[0] /\ tick = 0 /\ liquidity = 0 /\ map = EmptyTickMap
      /\ growth = NoGrowth /\ pos = [u \in Users |-> [r \in UsedRanges |-> NoPosition]]
      /\ fullRange = 0 /\ raw = [user |-> zeros, total |-> 0]
  BY DEF Init
<1>2. price \in Prices /\ tick \in MinTick..MaxTick /\ OnStep(price, tick)
  <2>1. 0 \in MinTick..MaxTick /\ price \in Prices
    BY <1>1, Sizes, PriceRange
  <2>2. SqrtRatio[0] \in Int /\ SqrtRatio[0] <= price
    BY <1>1, <2>1, PriceNat
  <2>3. 0 < MaxTick => price <= SqrtRatio[0 + 1]
    <3> SUFFICES ASSUME 0 < MaxTick PROVE SqrtRatio[0] <= SqrtRatio[1]
      BY <1>1
    <3>1. 1 \in MinTick..MaxTick
      BY Sizes
    <3> QED
      BY <2>1, <3>1, PriceRises
  <2> QED
    BY <1>1, <2>1, <2>2, <2>3 DEF OnStep
<1>3. growth \in [Tokens -> Growth] /\ NoPosition \in Position
  BY <1>1, GrowthZero DEF NoPosition, Position
<1>4. pos \in Positions /\ \A x \in Places : pos[x[1]][x[2]].liq = 0
  <2>1. pos \in Positions
    BY <1>1, <1>3 DEF Positions
  <2>2. NoPosition.liq = 0
    BY DEF NoPosition
  <2> QED
    BY <1>1, <2>1, <2>2 DEF Places
<1>5. \A S : Held(pos, S) = 0
  BY <1>4, HeldZero
<1>6. map \in MapType /\ Indexed(map) /\ \A c \in CTicks : map.tick[c].gross = 0 /\ map.tick[c].net = 0
  BY <1>1, EmptyIndexed DEF EmptyTickMap
<1>7. TicksKnow(map, pos)
  BY <1>5, <1>6 DEF TicksKnow
<1>8. raw \in [user : [Users -> Nat], total : Nat] /\ raw.total = 0
      /\ \A u \in Users : raw.user[u] = 0
  BY <1>1
<1> QED
  BY <1>1, <1>2, <1>3, <1>4, <1>5, <1>6, <1>7, <1>8 DEF CurveInv

\* and each step keeps it.
LEMMA UserStepKeeps == PoolInv /\ UserStep => PoolInv'
<1> SUFFICES ASSUME CurveInv, RewardsInv, BookInv, NEW u \in Users,
        \/ \E r \in UsedRanges, n \in [Tokens -> DepositAmounts] : DepositPosition(u, r, n)
        \/ \E r \in UsedRanges, l \in LiquidityAmounts :
                WithdrawPosition(u, r, MinOf(l, pos[u][r].liq))
        \/ \E r \in UsedRanges : ClaimFees(u, {r})
        \/ ClaimFees(u, Ranged(u))
        \/ \E down \in BOOLEAN, n \in SwapAmounts :
            \/ Swap(u, down, n, 0)
            \/ SwapStrictReceive(u, down, n, bal[u][InToken(down)])
      PROVE CurveInv' /\ RewardsInv' /\ BookInv'
  BY Zenon DEF UserStep, PoolInv
<1>0. /\ DepositAmounts \subseteq Nat /\ LiquidityAmounts \subseteq Nat /\ SwapAmounts \subseteq Nat
      /\ pfFraction \in 0..FeeDenominator
  BY ConcentratedAssumption DEF BookInv
<1>1. ASSUME NEW r \in UsedRanges, NEW n \in [Tokens -> DepositAmounts], DepositPosition(u, r, n)
      PROVE  CurveInv' /\ RewardsInv' /\ BookInv'
  <2>1. n \in [Tokens -> Nat]
    BY <1>0
  <2>2. CurveInv' /\ BookInv'
    BY <1>1, <2>1, DepositCurve, DepositBooks
  <2> QED
    BY <1>1, <2>1, <2>2, DepositRewards
<1>2. ASSUME NEW r \in UsedRanges, NEW l \in LiquidityAmounts,
             WithdrawPosition(u, r, MinOf(l, pos[u][r].liq))
      PROVE  CurveInv' /\ RewardsInv' /\ BookInv'
  <2> DEFINE m == MinOf(l, pos[u][r].liq)
  <2>1. m \in Nat
    <3>1. l \in Nat /\ pos[u][r].liq \in Nat
      BY <1>0 DEF CurveInv, Positions, Position
    <3> QED
      BY <3>1 DEF MinOf
  <2>2. WithdrawPosition(u, r, m)
    BY <1>2
  <2> HIDE DEF m
  <2>3. CurveInv' /\ BookInv'
    BY <2>1, <2>2, WithdrawCurve, WithdrawBooks
  <2> QED
    BY <2>2, <2>3, WithdrawRewards
<1>3. ASSUME NEW ranges, ClaimFees(u, ranges) PROVE CurveInv' /\ RewardsInv' /\ BookInv'
  BY <1>3, ClaimFeesCurve, ClaimFeesRewards, ClaimFeesBooks
<1>4. ASSUME NEW down \in BOOLEAN, NEW n \in SwapAmounts, Swap(u, down, n, 0)
      PROVE  CurveInv' /\ RewardsInv' /\ BookInv'
  <2>1. n \in Nat
    BY <1>0
  <2>2. UNCHANGED <<posVars, rewVars, envVars>>
    BY <1>4, Zenon DEF Swap, Settle
  <2> QED
    BY <1>0, <1>4, <2>1, <2>2, SwapCurve, SwapBooks, SettleRewards
<1>5. ASSUME NEW down \in BOOLEAN, NEW n \in SwapAmounts,
             SwapStrictReceive(u, down, n, bal[u][InToken(down)])
      PROVE  CurveInv' /\ RewardsInv' /\ BookInv'
  <2>1. n \in Nat
    BY <1>0
  <2>2. UNCHANGED <<posVars, rewVars, envVars>>
    BY <1>5, Zenon DEF SwapStrictReceive, Settle
  <2> QED
    BY <1>0, <1>5, <2>1, <2>2, SwapStrictReceiveCurve, SwapStrictReceiveBooks, SettleRewards
<1> QED
  BY <1>1, <1>2, <1>3, <1>4, <1>5, Zenon

LEMMA RewardStepKeeps == PoolInv /\ RewardStep => PoolInv'
<1> SUFFICES ASSUME CurveInv, RewardsInv, BookInv, RewardStep
             PROVE  CurveInv' /\ RewardsInv' /\ BookInv'
  BY DEF PoolInv
<1>1. ASSUME NEW u \in Users, Claim(u) PROVE CurveInv' /\ RewardsInv' /\ BookInv'
  <2>1. UNCHANGED <<curveVars, posVars>>
    BY <1>1 DEF Claim
  <2> QED
    BY <1>1, <2>1, CurveFrame, ClaimRewards, ClaimBooks
<1>2. ASSUME NEW w, NEW r, RewardsBecome(w, r) PROVE CurveInv' /\ BookInv'
  <2>1. UNCHANGED <<curveVars, posVars>> /\ UNCHANGED bookVars
        /\ pfFraction' = pfFraction /\ killed' = killed
    BY <1>2 DEF RewardsBecome, cfgVars
  <2>2. pfFraction' \in 0..FeeDenominator /\ killed' \in [Switches -> BOOLEAN]
    BY <2>1 DEF BookInv
  <2> QED
    BY <2>1, <2>2, CurveFrame, BooksAside
<1>3. ASSUME NEW u \in Users, GetUserReward(u) PROVE CurveInv' /\ RewardsInv' /\ BookInv'
  <2>1. \E w, r : RewardsBecome(w, r)
    BY <1>3 DEF GetUserReward
  <2> QED
    BY <1>2, <1>3, <2>1, GetUserRewardRewards
<1>4. ASSUME NEW u \in Users, GetRewardsInfo(u) PROVE CurveInv' /\ RewardsInv' /\ BookInv'
  <2>1. \E w, r : RewardsBecome(w, r)
    BY <1>4 DEF GetRewardsInfo
  <2> QED
    BY <1>2, <1>4, <2>1, GetRewardsInfoRewards
<1>5. ASSUME NEW u \in Users, NEW state \in RewardSwitches, SetRewardsState(u, state)
      PROVE CurveInv' /\ RewardsInv' /\ BookInv'
  <2>1. \E w, r : RewardsBecome(w, r)
    BY <1>5 DEF SetRewardsState
  <2>2. state \in BOOLEAN
    BY ConcentratedAssumption
  <2> QED
    BY <1>2, <1>5, <2>1, <2>2, SetRewardsStateRewards
<1>6. ASSUME GetPoolRewards PROVE CurveInv' /\ RewardsInv' /\ BookInv'
  <2>1. \E w, r : RewardsBecome(w, r)
    BY <1>6 DEF GetPoolRewards
  <2> QED
    BY <1>2, <1>6, <2>1, GetPoolRewardsRewards
<1> QED
  BY <1>1, <1>3, <1>4, <1>5, <1>6, Zenon DEF RewardStep

LEMMA AdminStepKeeps == PoolInv /\ AdminStep => PoolInv'
<1> SUFFICES ASSUME CurveInv, RewardsInv, BookInv, NEW caller \in Callers,
        \/ \E f \in ProtocolFractions : SetProtocolFeeFraction(caller, f)
        \/ ClaimProtocolFees(caller)
        \/ \E s \in UsedSwitches : Kill(caller, s) \/ Unkill(caller, s)
        \/ \E e \in Expirations, tps \in TpsValues : SetRewardsConfig(caller, e, tps)
        \/ ReturnUnusedReward(caller)
        \/ \E diff \in Diffs : AdjustTotalAccumulatedReward(caller, diff)
      PROVE CurveInv' /\ RewardsInv' /\ BookInv'
  BY Zenon DEF AdminStep, PoolInv
<1>0. /\ ProtocolFractions \subseteq Nat /\ UsedSwitches \subseteq Switches
      /\ TpsValues \subseteq Nat /\ Expirations \subseteq Nat /\ Diffs \subseteq Int
      /\ pfFraction \in 0..FeeDenominator /\ killed \in [Switches -> BOOLEAN]
      /\ FeeDenominator \in Nat
  BY ConcentratedAssumption DEF BookInv
<1>1. ASSUME UNCHANGED <<curveVars, posVars, rewVars, envVars>> PROVE CurveInv' /\ RewardsInv'
  <2>1. UNCHANGED <<curveVars, posVars>> /\ UNCHANGED <<posVars, rewVars, envVars>>
    BY <1>1
  <2> QED
    BY <2>1, CurveFrame, SettleRewards
<1>2. ASSUME NEW f \in ProtocolFractions, SetProtocolFeeFraction(caller, f)
      PROVE  CurveInv' /\ RewardsInv' /\ BookInv'
  <2>1. /\ f <= FeeDenominator /\ pfFraction' = f /\ killed' = killed /\ UNCHANGED bookVars
        /\ UNCHANGED <<curveVars, posVars, rewVars, envVars>>
    BY <1>2 DEF SetProtocolFeeFraction
  <2>2. pfFraction' \in 0..FeeDenominator
    BY <1>0, <2>1
  <2> QED
    BY <1>0, <1>1, <2>1, <2>2, BooksAside
<1>3. ASSUME ClaimProtocolFees(caller) PROVE CurveInv' /\ RewardsInv' /\ BookInv'
  <2>1. UNCHANGED <<curveVars, posVars, rewVars, envVars>>
    BY <1>3 DEF ClaimProtocolFees
  <2> QED
    BY <1>1, <1>3, <2>1, ClaimProtocolFeesBooks
<1>4. ASSUME NEW s \in UsedSwitches, Kill(caller, s) \/ Unkill(caller, s)
      PROVE  CurveInv' /\ RewardsInv' /\ BookInv'
  <2>1. /\ pfFraction' = pfFraction /\ UNCHANGED bookVars
        /\ UNCHANGED <<curveVars, posVars, rewVars, envVars>>
        /\ \E b \in BOOLEAN : killed' = [killed EXCEPT ![s] = b]
    BY <1>4 DEF Kill, Unkill
  <2>2. killed' \in [Switches -> BOOLEAN]
    BY <1>0, <2>1
  <2> QED
    BY <1>0, <1>1, <2>1, <2>2, BooksAside
<1>5. ASSUME NEW w, NEW r, RewardsBecome(w, r) PROVE CurveInv' /\ BookInv'
  <2>1. UNCHANGED <<curveVars, posVars>> /\ UNCHANGED bookVars
        /\ pfFraction' = pfFraction /\ killed' = killed
    BY <1>5 DEF RewardsBecome, cfgVars
  <2>2. pfFraction' \in 0..FeeDenominator /\ killed' \in [Switches -> BOOLEAN]
    BY <1>0, <2>1
  <2> QED
    BY <2>1, <2>2, CurveFrame, BooksAside
<1>6. ASSUME NEW e \in Expirations, NEW tps \in TpsValues, SetRewardsConfig(caller, e, tps)
      PROVE  CurveInv' /\ RewardsInv' /\ BookInv'
  <2>1. (\E w, r : RewardsBecome(w, r)) /\ e \in Nat /\ tps \in Nat
    BY <1>0, <1>6 DEF SetRewardsConfig
  <2> QED
    BY <1>5, <1>6, <2>1, SetRewardsConfigRewards
<1>7. ASSUME ReturnUnusedReward(caller) PROVE CurveInv' /\ RewardsInv' /\ BookInv'
  <2>1. UNCHANGED <<curveVars, posVars>>
    BY <1>7 DEF ReturnUnusedReward
  <2> QED
    BY <1>7, <2>1, CurveFrame, ReturnUnusedRewards, ReturnUnusedBooks
<1>8. ASSUME NEW diff \in Diffs, AdjustTotalAccumulatedReward(caller, diff)
      PROVE  CurveInv' /\ RewardsInv' /\ BookInv'
  <2>1. (\E w, r : RewardsBecome(w, r)) /\ diff \in Int
    BY <1>0, <1>8 DEF AdjustTotalAccumulatedReward
  <2> QED
    BY <1>5, <1>8, <2>1, AdjustRewards
<1> QED
  BY <1>2, <1>3, <1>4, <1>6, <1>7, <1>8, Zenon

LEMMA EnvStepKeeps == PoolInv /\ EnvStep => PoolInv'
<1> SUFFICES ASSUME CurveInv, RewardsInv, BookInv, EnvStep
             PROVE  CurveInv' /\ RewardsInv' /\ BookInv'
  BY DEF PoolInv
<1>0. /\ GiftAmounts \subseteq Nat /\ LockAmounts \subseteq Nat /\ ledger \in Nat
      /\ lock \in [Users -> Nat]
      /\ pfFraction \in 0..FeeDenominator /\ killed \in [Switches -> BOOLEAN]
  BY ConcentratedAssumption DEF BookInv, RewardsInv
<1>1. ASSUME NEW from \in Users \cup {Outside}, NEW i \in Assets, NEW n \in GiftAmounts,
             SendToPool(from, i, n)
      PROVE  CurveInv' /\ RewardsInv' /\ BookInv'
  <2>1. /\ UNCHANGED <<curveVars, posVars>> /\ UNCHANGED <<posVars, rewVars, envVars>>
        /\ n \in Nat
    BY <1>0, <1>1 DEF SendToPool
  <2> QED
    BY <1>1, <2>1, CurveFrame, SettleRewards, SendToPoolBooks
<1>2. ASSUME NEW u \in Users, NEW n \in LockAmounts, ChangeLock(u, n)
      PROVE  CurveInv' /\ RewardsInv' /\ BookInv'
  <2>1. /\ lock' = [lock EXCEPT ![u] = n] /\ ledger' = ledger
        /\ UNCHANGED <<curveVars, posVars>> /\ UNCHANGED bookVars
        /\ UNCHANGED <<pos, weighted, rw>> /\ pfFraction' = pfFraction /\ killed' = killed
    BY <1>2 DEF ChangeLock, posVars, rewVars, cfgVars
  <2>2. lock' \in [Users -> Nat] /\ ledger' \in Nat /\ ledger <= ledger'
    BY <1>0, <2>1
  <2>3. pfFraction' \in 0..FeeDenominator /\ killed' \in [Switches -> BOOLEAN]
    BY <1>0, <2>1
  <2> QED
    BY <2>1, <2>2, <2>3, CurveFrame, SurroundingsRewards, BooksAside
<1>3. ASSUME NextLedger PROVE CurveInv' /\ RewardsInv' /\ BookInv'
  <2>1. /\ ledger' = ledger + 1 /\ lock' = lock
        /\ UNCHANGED <<curveVars, posVars>> /\ UNCHANGED bookVars
        /\ UNCHANGED <<pos, weighted, rw>> /\ pfFraction' = pfFraction /\ killed' = killed
    BY <1>3 DEF NextLedger, posVars, rewVars, cfgVars
  <2>2. lock' \in [Users -> Nat] /\ ledger' \in Nat /\ ledger <= ledger'
    BY <1>0, <2>1
  <2>3. pfFraction' \in 0..FeeDenominator /\ killed' \in [Switches -> BOOLEAN]
    BY <1>0, <2>1
  <2> QED
    BY <2>1, <2>2, <2>3, CurveFrame, SurroundingsRewards, BooksAside
<1> QED
  BY <1>1, <1>2, <1>3, Zenon DEF EnvStep

LEMMA PoolInvariant == Spec => []PoolInv
<1>1. Init => PoolInv
  BY CurveInit, RewardsInit, BooksInit DEF PoolInv
<1>2. PoolInv /\ [Next]_vars => PoolInv'
  <2> SUFFICES ASSUME PoolInv, UNCHANGED vars PROVE PoolInv'
    BY UserStepKeeps, RewardStepKeeps, AdminStepKeeps, EnvStepKeeps DEF Next
  <2>1. CurveInv /\ RewardsInv /\ BookInv
    BY DEF PoolInv
  <2>2. /\ UNCHANGED <<curveVars, posVars>> /\ UNCHANGED <<posVars, rewVars, envVars>>
        /\ UNCHANGED bookVars /\ pfFraction' = pfFraction /\ killed' = killed
    BY DEF vars, curveVars, posVars, rewVars, envVars, bookVars
  <2>3. pfFraction' \in 0..FeeDenominator /\ killed' \in [Switches -> BOOLEAN]
    BY <2>1, <2>2 DEF BookInv
  <2> QED
    BY <2>1, <2>2, <2>3, CurveFrame, SettleRewards, BooksAside DEF PoolInv
<1> QED
  BY <1>1, <1>2, PTL DEF Spec

-----------------------------------------------------------------------------
(* The theorems                                                            *)

\* A sum over the positions that exist is the sum over all the places they can
\* be in: the other places hold nothing.
LEMMA HeldIsSum ==
    ASSUME pos \in Positions, NEW S, NEW T, T = {x \in AllPositions : x \in S}
    PROVE  SumFunctionOnSet([x \in T |-> pos[x[1]][x[2]].liq], T) = Held(pos, S)
<1> DEFINE f == [x \in T |-> pos[x[1]][x[2]].liq]
           g == HeldAt(pos, S)
<1>1. AllPositions = {x \in Places : pos[x[1]][x[2]].liq > 0}
  BY DEF AllPositions, Places
<1>2. T \in SUBSET Places /\ T \in SUBSET T
  BY <1>1
<1>3. \A x \in Places : pos[x[1]][x[2]].liq \in Nat
  BY DEF Places, Positions, Position
<1>4. f \in [T -> Int]
  BY <1>2, <1>3
<1>5. g \in [Places -> Int]
  BY HeldType
<1>6. \A x \in T : g[x] = f[x]
  BY <1>1, <1>2 DEF HeldAt
<1>7. \A x \in Places \ T : g[x] = 0
  BY <1>1, <1>3 DEF HeldAt
<1> HIDE DEF f, g
<1>8. SumFunctionOnSet(g, Places) = SumFunctionOnSet(f, T)
  BY <1>2, <1>4, <1>5, <1>6, <1>7, SumPart, PlacesFinite
<1> QED
  BY <1>8 DEF Held, f, g

\* The liquidity that swaps trade against is that of the positions around the
\* current tick, and every tick knows exactly the liquidity that begins and ends
\* there: whatever positions are opened and left (update_position,
\* update_tick_liquidity), and through every tick a swap crosses (swap_loop,
\* cross_tick) in either direction.
THEOREM LiquidityAlwaysAddsUp == Spec => []LiquidityAddsUp
<1>1. PoolInv => LiquidityAddsUp
  <2> SUFFICES ASSUME CurveInv PROVE LiquidityAddsUp
    BY DEF PoolInv
  <2> DEFINE held(T) == SumFunctionOnSet([x \in T |-> pos[x[1]][x[2]].liq], T)
             active == {x \in AllPositions : Active(x[2], tick)}
             begin(t) == {x \in AllPositions : x[2][1] = t}
             end(t) == {x \in AllPositions : x[2][2] = t}
  <2>1. AllPositions \subseteq Places /\ pos \in Positions
    BY DEF AllPositions, Places, CurveInv
  <2>2. liquidity = held(active)
    <3>1. active = {x \in AllPositions : x \in ActiveAt(tick)}
      BY <2>1 DEF ActiveAt
    <3> HIDE DEF active
    <3>2. held(active) = Held(pos, ActiveAt(tick))
      BY <2>1, <3>1, HeldIsSum
    <3> QED
      BY <3>2 DEF CurveInv
  <2>3. ASSUME NEW t PROVE held(begin(t)) = Held(pos, BeginsAt(t)) /\ held(end(t)) = Held(pos, EndsAt(t))
    <3>1. /\ begin(t) = {x \in AllPositions : x \in BeginsAt(t)}
          /\ end(t) = {x \in AllPositions : x \in EndsAt(t)}
      BY <2>1 DEF BeginsAt, EndsAt
    <3> HIDE DEF begin, end
    <3> QED
      BY <2>1, <3>1, HeldIsSum
  <2>4. ASSUME NEW c \in CTicks
        PROVE  /\ map.tick[c].gross = held(begin(CompressedToTick(c))) + held(end(CompressedToTick(c)))
               /\ map.tick[c].net = held(begin(CompressedToTick(c))) - held(end(CompressedToTick(c)))
    <3>1. TicksKnow(map, pos)
      BY DEF CurveInv
    <3> HIDE DEF held, begin, end
    <3> QED
      BY <2>3, <3>1 DEF TicksKnow
  <2>5. LiquidityAddsUp =
          (/\ liquidity = held(active)
           /\ \A c \in CTicks :
                /\ map.tick[c].gross = held(begin(CompressedToTick(c))) + held(end(CompressedToTick(c)))
                /\ map.tick[c].net = held(begin(CompressedToTick(c))) - held(end(CompressedToTick(c))))
    BY Zenon DEF LiquidityAddsUp, SumOver
  <2> HIDE DEF held, active, begin, end
  <2> QED
    BY <2>2, <2>4, <2>5
<1> QED
  BY PoolInvariant, <1>1, PTL

\* While any position is open, the search from any tick within the bounds, in
\* both directions, through chunks, chunk bitmap and word bitmap
\* (find_initialized_tick_in_word, and the adjacent word of level 2 where a swap
\* needs it) finds exactly the next tick with liquidity, and the stored bounds are
\* the lowest and highest of them: no flip of a bit by update_tick_liquidity
\* leaves a stale or a missing mark at any level.
THEOREM IndexAlwaysExact == Spec => []IndexExact
<1>1. PoolInv => IndexExact
  BY IndexedSearch, IndexedBounds DEF PoolInv, CurveInv, IndexExact
<1> QED
  BY PoolInvariant, <1>1, PTL

\* The tick of Slot0 is the tick whose prices enclose the price of Slot0, with the
\* one allowance that a swap downwards that stops on a tick has crossed it: what
\* swap_loop stores after its last round, and what the first deposit sets.
THEOREM TickAlwaysMatches == Spec => []TickMatchesPrice
<1>1. PoolInv => TickMatchesPrice
  BY DEF PoolInv, CurveInv, OnStep, TickMatchesPrice
<1> QED
  BY PoolInvariant, <1>1, PTL

\* The pool holds its reserves and the protocol's fees beside them, in both tokens
\* and the reward token among them: what deposits, withdrawals, swaps, claims and
\* the returns of unused rewards take from the contract is never more than what
\* their own book entries give up.
THEOREM ConcentratedSolvent == Spec => []Solvent
<1>1. PoolInv => Solvent
  BY DEF PoolInv, BookInv
<1> QED
  BY PoolInvariant, <1>1, PTL

\* The total weight is the sum of the users' weights, and the working supply the
\* sum of the working balances, though each is kept by its own increments at every
\* change of a position (recompute_user_weighted_liquidity, with a saturating
\* subtraction) and every checkpoint.
THEOREM WeightsAlwaysAddUp == Spec => []WeightsAddUp
<1>1. PoolInv => WeightsAddUp
  <2> SUFFICES ASSUME RewardsInv PROVE WeightsAddUp
    BY DEF PoolInv
  <2>1. /\ weighted.total = SumFunctionOnSet(weighted.user, Users)
        /\ rw \in RewardState /\ Balanced(rw)
    BY DEF RewardsInv, WeightsKnown, RewardsOK
  <2> DEFINE T == {u \in Users : rw.wb[u] # Unset}
             f == [u \in T |-> rw.wb[u]]
             g == Working(rw)
  <2>2. rw.ws # Unset => rw.ws = SumFunctionOnSet(f, T)
    <3>1. \A u \in Users : rw.wb[u] \in Nat \cup {Unset}
      BY <2>1 DEF RewardState
    <3>2. g \in [Users -> Int] /\ f \in [T -> Int]
      BY <2>1, <3>1, WorkingType
    <3>3. T \in SUBSET Users /\ T \in SUBSET T
      OBVIOUS
    <3>4. (\A u \in T : g[u] = f[u]) /\ \A u \in Users \ T : g[u] = 0
      BY DEF Working, Stored
    <3>5. rw.ws # Unset => rw.ws = SumFunctionOnSet(g, Users)
      BY <2>1 DEF Balanced, Stored
    <3> HIDE DEF T, f, g
    <3>6. SumFunctionOnSet(g, Users) = SumFunctionOnSet(f, T)
      BY <3>2, <3>3, <3>4, SumPart, UsersAssumption
    <3> QED
      BY <3>5, <3>6
  <2>3. WeightsAddUp = (/\ weighted.total = SumFunctionOnSet(weighted.user, Users)
                        /\ rw.ws # Unset => rw.ws = SumFunctionOnSet(f, T))
    BY Zenon DEF WeightsAddUp, SumOver
  <2> QED
    BY <2>1, <2>2, <2>3
<1> QED
  BY PoolInvariant, <1>1, PTL

\* Type correctness of the whole state: the price stays inside the table, the
\* ticks inside the bounds, no reserve or balance or liquidity falls below zero.
THEOREM ConcentratedTypes == Spec => []TypeOK
<1>1. PoolInv => TypeOK
  <2> SUFFICES ASSUME CurveInv, RewardsInv, BookInv PROVE TypeOK
    BY DEF PoolInv
  <2>1. liquidity \in Nat /\ fullRange \in Nat
    BY HeldType DEF CurveInv
  <2>2. map \in TickMap
    BY Constants DEF CurveInv, MapType, TickMap, Bits
  <2>3. /\ price \in SqrtRatio[MinTick]..SqrtRatio[MaxTick] /\ tick \in MinTick..MaxTick
        /\ growth \in [Tokens -> Growth] /\ pos \in [Users -> [UsedRanges -> Position]]
        /\ raw \in [user : [Users -> Nat], total : Nat]
    BY DEF CurveInv, Positions, Prices
  <2>4. /\ weighted \in [user : [Users -> Nat], total : Nat]
        /\ ledger \in Nat /\ rw \in RewardState /\ lock \in [Users -> Nat]
    BY DEF RewardsInv, WeightsKnown, RewardsOK
  <2>5. /\ bal \in [Holders -> [Assets -> Nat]]
        /\ reserve \in [Tokens -> Nat] /\ protocolFee \in [Tokens -> Nat]
        /\ pfFraction \in 0..FeeDenominator /\ killed \in [Switches -> BOOLEAN]
    BY DEF BookInv, Balances
  <2> QED
    BY <2>1, <2>2, <2>3, <2>4, <2>5, Zenon DEF TypeOK
<1> QED
  BY PoolInvariant, <1>1, PTL

\* The quotes of a state of the invariant buy what they quote.
LEMMA QuotesFitNow == PoolInv => QuotesFit
<1> SUFFICES ASSUME PoolInv, NEW down \in BOOLEAN, NEW n \in SwapAmounts, CanSwap(n, down),
                    ~Refused(SwapLoop(n, down, FALSE), FALSE)
             PROVE  SwapLoop(SwapLoop(n, down, FALSE).worth, down, TRUE).worth >= n
  BY Zenon DEF QuotesFit
<1>1. n \in Nat /\ raw.total > 0 /\ LimitAhead(down) /\ pfFraction \in 0..FeeDenominator /\ CurveInv
  <2>1. n \in Nat
    BY ConcentratedAssumption, Zenon
  <2>2. raw.total > 0 /\ LimitAhead(down)
    BY Zenon DEF CanSwap
  <2>3. CurveInv /\ pfFraction \in 0..FeeDenominator
    BY Zenon DEF PoolInv, BookInv
  <2> QED
    BY <2>1, <2>2, <2>3, Zenon
<1>2. Quote(n, down).price # Fail /\ ~(Quote(n, down).left > 0)
  BY Zenon DEF Refused, Quote
<1>3. n <= Paying(Quote(n, down).worth, down).worth
  BY <1>1, <1>2, QuoteBuys
<1> QED
  BY <1>3, Zenon DEF Quote, Paying

\* For every price table and every map of positions: paying what the estimate of
\* an exact output asks for buys at least that output, over any number of ticks.
\* (simulate_swap_amounts, swap_loop, compute_swap_step)
THEOREM QuotesAlwaysFit == Spec => []QuotesFit
<1>1. PoolInv => QuotesFit
  BY QuotesFitNow
<1> QED
  BY <1>1, PoolInvariant, PTL
=============================================================================
