----------------------------- MODULE TickBitmap -----------------------------
(***************************************************************************)
(* The tick map of the concentrated pool: the ticks, stored in chunks, and *)
(* the three-level index that finds the next tick with liquidity: the      *)
(* slots of a chunk, a bitmap of the chunks, a bitmap of its words.        *)
(* liquidity_pool_concentrated/src: storage.rs, bitmap.rs and the helpers  *)
(* of contract/internal.rs.  Operators only: each maps a tick map (record, *)
(* see TickMap) to what the Rust function returns or leaves behind.        *)
(*                                                                         *)
(* A bitmap word is the set of its bits, a chunk that was never stored is  *)
(* a chunk without liquidity.  A search that may find nothing (an Option)  *)
(* returns a set of at most one element.                                   *)
(*                                                                         *)
(* An operator whose name starts with Bug is the next one with a plausible *)
(* mistake, for the mutation runs; nothing refers to it.                   *)
(***************************************************************************)
EXTENDS Integers, FiniteSets

CONSTANTS
    TickSpacing,       \* distance of usable ticks
    MinTick, MaxTick,  \* MIN_TICK, MAX_TICK
    TicksPerChunk,     \* TICKS_PER_CHUNK, 16 in the code
    WordBits,          \* bits of a bitmap word, 256 in the code
    GrowthModulus      \* fee growth accumulators wrap at this, 2^256 in the code

ASSUME TickBitmapAssumption ==
    /\ {TickSpacing, TicksPerChunk, WordBits, GrowthModulus} \subseteq Nat \ {0}
    /\ MinTick \in Int /\ MaxTick \in Int /\ MinTick < 0 /\ MaxTick > 0

Tokens == {0, 1}
Growth == 0..(GrowthModulus - 1)
NoGrowth == [i \in Tokens |-> 0]
WrappingSub(a, b) == (a - b) % GrowthModulus
WrappingAdd(a, b) == (a + b) % GrowthModulus

Highest(S) == {x \in S : \A y \in S : y <= x}
Lowest(S)  == {x \in S : \A y \in S : x <= y}
Extreme(S, lte) == IF lte THEN Highest(S) ELSE Lowest(S)

-----------------------------------------------------------------------------
(* Addresses                                                               *)

CompressTick(tick) == tick \div TickSpacing
ClampTick(tick) == IF tick < MinTick THEN MinTick
                   ELSE IF tick > MaxTick THEN MaxTick ELSE tick
CompressedToTick(c) == ClampTick(c * TickSpacing)

ChunkPos(c) == c \div TicksPerChunk
Slot(c) == c % TicksPerChunk
WordPos(chunk) == chunk \div WordBits
BitPos(chunk) == chunk % WordBits
L2Pos(word) == word \div WordBits
L2Bit(word) == word % WordBits

\* Everything that is ever addressed.
Chunks == ChunkPos(CompressTick(MinTick))..ChunkPos(CompressTick(MaxTick))
Words  == {WordPos(k) : k \in Chunks}
L2Words == {L2Pos(w) : w \in Words}
CTicks == {c \in (MinTick - TicksPerChunk)..(MaxTick + TicksPerChunk) :
             ChunkPos(c) \in Chunks}

\* With the spacings that the router deploys pools with, no tick with liquidity
\* is at an end, which the searches below return for "none"; two words of the
\* upper level cover all ticks.
ASSUME SearchAssumption ==
    /\ MinTick % TickSpacing # 0 /\ MaxTick % TickSpacing # 0
    /\ L2Words \subseteq {-1, 0}

CheckTicks(lower, upper) ==
    /\ lower < upper /\ lower >= MinTick /\ upper <= MaxTick
    /\ lower % TickSpacing = 0 /\ upper % TickSpacing = 0
Ranges == {r \in {CompressedToTick(c) : c \in CTicks} \X {CompressedToTick(c) : c \in CTicks} :
             CheckTicks(r[1], r[2])}
FullRange == << CHOOSE l \in {r[1] : r \in Ranges} : \A r \in Ranges : l <= r[1],
                CHOOSE h \in {r[2] : r \in Ranges} : \A r \in Ranges : h >= r[2] >>

TickInfo == [gross : Nat, net : Int, out : [Tokens -> Growth]]
TickMap ==
    [tick : [CTicks -> TickInfo],
     words : [Words -> SUBSET (0..(WordBits - 1))],
     l2 : [L2Words -> SUBSET (0..(WordBits - 1))],
     min : Int, max : Int]

\* The bounds are inverted while no tick has liquidity.
EmptyTickMap ==
    [tick |-> [c \in CTicks |-> [gross |-> 0, net |-> 0, out |-> NoGrowth]],
     words |-> [w \in Words |-> {}],
     l2 |-> [w \in L2Words |-> {}],
     min |-> MaxTick, max |-> MinTick]

GetTick(map, tick) == map.tick[CompressTick(tick)]
Word(map, w) == IF w \in Words THEN map.words[w] ELSE {}
L2Word(map, w) == IF w \in L2Words THEN map.l2[w] ELSE {}

-----------------------------------------------------------------------------
(* Searching                                                               *)

\* find_prev_set_bit, find_next_set_bit
SetBit(bits, from, lte) ==
    Extreme({b \in bits : IF lte THEN b <= from ELSE b >= from}, lte)

\* scan_chunk_highest_init, scan_chunk_lowest_init, over the slots allowed.
ScanChunk(map, chunk, slots, lte) ==
    Extreme({c \in {chunk * TicksPerChunk + s : s \in slots} \cap CTicks :
                map.tick[c].gross > 0}, lte)
AllSlots == 0..(TicksPerChunk - 1)
LastBit(lte) == IF lte THEN WordBits - 1 ELSE 0
Sentinel(lte) == IF lte THEN MinTick ELSE MaxTick

\* extreme_tick_in_bitmap_word; the sentinel says that there is none.
ExtremeTickInWord(map, word, lte) ==
    LET found == UNION {ScanChunk(map, word * WordBits + bit, AllSlots, lte) :
                          bit \in SetBit(Word(map, word), LastBit(lte), lte)}
    IN IF found = {} THEN Sentinel(lte)
       ELSE CompressedToTick(CHOOSE c \in found : TRUE)

\* find_adjacent_bitmap_word: the rest of the word's own level-2 word, then
\* the next one.
FindAdjacentWord(map, word, lte) ==
    LET l2   == L2Pos(word)
        from == IF lte THEN L2Bit(word) - 1 ELSE L2Bit(word) + 1
        next == IF lte THEN l2 - 1 ELSE l2 + 1
        own  == IF from \in 0..(WordBits - 1)
                THEN SetBit(L2Word(map, l2), from, lte) ELSE {}
    IN IF own # {} THEN {l2 * WordBits + b : b \in own}
       ELSE {next * WordBits + b : b \in SetBit(L2Word(map, next), LastBit(lte), lte)}

\* The new bound when the tick that was the bound lost its liquidity.
FindNextGlobalTick(map, from, lte) ==
    LET word == WordPos(ChunkPos(CompressTick(from)))
        here == ExtremeTickInWord(map, word, lte)
        adjacent == FindAdjacentWord(map, word, lte)
    IN IF here # Sentinel(lte) THEN here
       ELSE IF adjacent = {} THEN Sentinel(lte)
       ELSE ExtremeTickInWord(map, CHOOSE w \in adjacent : TRUE, lte)

Found(c) == [tick |-> CompressedToTick(c), init |-> TRUE]

\* find_initialized_tick_in_word: the tick with liquidity at or below "tick",
\* or above it; when all three levels find none, the end of the word.
FindInitializedTick(map, tick, lte) ==
    LET from  == IF lte THEN CompressTick(tick) ELSE CompressTick(tick) + 1
        chunk == ChunkPos(from)
        word  == WordPos(chunk)
        slots == IF lte THEN 0..Slot(from) ELSE Slot(from)..(TicksPerChunk - 1)
        inChunk == ScanChunk(map, chunk, slots, lte)
        bit == IF lte THEN BitPos(chunk) - 1 ELSE BitPos(chunk) + 1
        bits == IF bit \in 0..(WordBits - 1) THEN SetBit(Word(map, word), bit, lte) ELSE {}
        inWord == UNION {ScanChunk(map, word * WordBits + b, AllSlots, lte) : b \in bits}
        beyond == {ExtremeTickInWord(map, w, lte) : w \in FindAdjacentWord(map, word, lte)}
                    \ {Sentinel(lte)}
        boundary == IF lte THEN word * WordBits * TicksPerChunk
                    ELSE (word * WordBits + WordBits) * TicksPerChunk - 1
    IN IF inChunk # {} THEN Found(CHOOSE c \in inChunk : TRUE)
       ELSE IF inWord # {} THEN Found(CHOOSE c \in inWord : TRUE)
       ELSE IF beyond # {} THEN [tick |-> CHOOSE t \in beyond : TRUE, init |-> TRUE]
       ELSE [tick |-> CompressedToTick(boundary), init |-> FALSE]

-----------------------------------------------------------------------------
(* Updating                                                                *)

\* update_chunk_bitmap_bit
UpdateChunkBit(map, chunk, value) ==
    LET word == WordPos(chunk)
        old == map.words[word]
        new == IF value THEN old \cup {BitPos(chunk)} ELSE old \ {BitPos(chunk)}
        marked == IF new = {} THEN map.l2[L2Pos(word)] \ {L2Bit(word)}
                  ELSE map.l2[L2Pos(word)] \cup {L2Bit(word)}
    IN [map EXCEPT !.words[word] = new,
                   !.l2[L2Pos(word)] = IF (old = {}) # (new = {}) THEN marked ELSE @]

\* A tick that got its first liquidity, or lost its last.
BugKeepsBounds(map, tick) ==
    LET c == CompressTick(tick) IN
    IF map.tick[c].gross > 0
    THEN [UpdateChunkBit(map, ChunkPos(c), TRUE) EXCEPT
            !.min = IF tick < @ THEN tick ELSE @, !.max = IF tick > @ THEN tick ELSE @]
    ELSE IF \A d \in CTicks : ChunkPos(d) = ChunkPos(c) => map.tick[d].gross = 0
         THEN UpdateChunkBit(map, ChunkPos(c), FALSE) ELSE map
Reindex(map, tick) ==
    LET c == CompressTick(tick)
        unmarked == IF \A d \in CTicks : ChunkPos(d) = ChunkPos(c) => map.tick[d].gross = 0
                    THEN UpdateChunkBit(map, ChunkPos(c), FALSE) ELSE map
    IN IF map.tick[c].gross > 0
       THEN [UpdateChunkBit(map, ChunkPos(c), TRUE) EXCEPT
               !.min = IF tick < @ THEN tick ELSE @, !.max = IF tick > @ THEN tick ELSE @]
       ELSE [unmarked EXCEPT
               !.min = IF tick = @ THEN FindNextGlobalTick(unmarked, tick, FALSE) ELSE @,
               !.max = IF tick = @ THEN FindNextGlobalTick(unmarked, tick, TRUE) ELSE @]

\* update_tick_liquidity: "current" and "growth" are the tick of the price and
\* the global fee growth.  A tick starts with all growth below it.
UpdateTickLiquidity(map, tick, delta, isUpper, current, growth) ==
    LET c == CompressTick(tick)
        old == map.tick[c]
        gross == old.gross + delta
        out == IF old.gross = 0 /\ gross > 0 /\ tick <= current THEN growth
               ELSE IF old.gross > 0 /\ gross = 0 THEN NoGrowth
               ELSE old.out
        stored == [map EXCEPT !.tick[c] =
                     [gross |-> gross, out |-> out,
                      net |-> IF isUpper THEN old.net - delta ELSE old.net + delta]]
    IN IF (old.gross > 0) # (gross > 0) THEN Reindex(stored, tick) ELSE stored

\* compute_fee_growth_inside, for one token.
FeeGrowthInside(map, lower, upper, current, global, i) ==
    LET lo == GetTick(map, lower).out[i]
        up == GetTick(map, upper).out[i]
        below == IF current >= lower THEN lo ELSE WrappingSub(global[i], lo)
        above == IF current < upper THEN up ELSE WrappingSub(global[i], up)
    IN WrappingSub(WrappingSub(global[i], below), above)

-----------------------------------------------------------------------------
(* What the index promises *)

Initialized(map) == {CompressedToTick(c) : c \in {d \in CTicks : map.tick[d].gross > 0}}

\* The bounds are those of the ticks with liquidity.
BoundsExact(map) ==
    IF Initialized(map) = {} THEN map.min = MaxTick /\ map.max = MinTick
    ELSE {map.min} = Lowest(Initialized(map)) /\ {map.max} = Highest(Initialized(map))

\* From wherever a swap may search, the tick found is the next one with liquidity.
SearchExact(map) ==
    Initialized(map) # {} => \A t \in MinTick..MaxTick :
        /\ t >= map.min =>
              FindInitializedTick(map, t, TRUE) =
                 [tick |-> CHOOSE x \in Highest({y \in Initialized(map) : y <= t}) : TRUE,
                  init |-> TRUE]
        /\ t < map.max =>
              FindInitializedTick(map, t, FALSE) =
                 [tick |-> CHOOSE x \in Lowest({y \in Initialized(map) : y > t}) : TRUE,
                  init |-> TRUE]
=============================================================================
