---------------------------- MODULE RewardPages ----------------------------
(***************************************************************************)
(* The aggregated store of per-block rewards (rewards/src/manager.rs).     *)
(*                                                                         *)
(* Every block of a pool adds one value.  The value is added to one cell   *)
(* on each level pow = 0, 1, 2, ...: a cell of level pow sums pageSize^pow *)
(* blocks, a page holds pageSize cells.  A claim then sums the blocks of a *)
(* user by jumping over the largest cells that start at the current block. *)
(* RewardsManager treats that sum as exact; this module says why it may.   *)
(*                                                                         *)
(* Level 0 is exact by design.  Higher levels are begun late (a level is   *)
(* not written while the chain is short), the last cell of a jump may      *)
(* reach beyond the last block, and block 0 never has a value; the sum is  *)
(* right only because the three never meet.                                *)
(*                                                                         *)
(* An operator whose name starts with Bug is the next one with a plausible *)
(* mistake, for the mutation runs; nothing refers to it.                   *)
(***************************************************************************)
EXTENDS Integers, Sequences, Functions

CONSTANTS
    PageSizes,  \* the page sizes a deployment may be configured with
    Values,     \* the rewards per share one block may add
    MaxBlock    \* bound: how many blocks a behaviour has

\* u64::pow
Powers(base) ==
    LET power[n \in Nat] == IF n = 0 THEN 1 ELSE base * power[n - 1] IN power

\* Blocks are counted in 64 bits, so that the 254 levels of calculate_reward
\* and of add_reward_inv are more than any chain fills.
ASSUME PagesAssumption ==
    /\ PageSizes \subseteq Nat \ {0, 1}
    /\ Values \subseteq Nat
    /\ MaxBlock \in Nat
    /\ \A base \in PageSizes : \E pow \in 1..253 : MaxBlock < Powers(base)[pow]

VARIABLES
    pageSize,   \* RewardsConfig.page_size
    pages,      \* RewardInvDataV2: <<pow, page number>> -> cells; only written pages
    block,      \* PoolRewardData.block, the latest block
    added       \* history: added[b] is the value block b brought

pageVars == <<pageSize, pages, block, added>>

-----------------------------------------------------------------------------
(* Where a block lives on a level. *)

CellSize(pow) == Powers(pageSize)[pow]
CellIdx(pow, b) == (b % (CellSize(pow) * pageSize)) \div CellSize(pow)
PageNumber(pow, b) == b \div (CellSize(pow) * pageSize)

\* A page that was never written is empty; level 0 is padded to its full length.
GetRewardInvData(pow, n) ==
    LET stored == IF <<pow, n>> \in DOMAIN pages THEN pages[<<pow, n>>] ELSE <<>>
    IN  IF pow = 0
        THEN [i \in 1..pageSize |-> IF i \in DOMAIN stored THEN stored[i] ELSE 0]
        ELSE stored

\* unwrap_or(0) of the cell of block b on level pow
Cell(pow, b) ==
    LET page == GetRewardInvData(pow, PageNumber(pow, b))
        i == CellIdx(pow, b) + 1
    IN  IF i \in DOMAIN page THEN page[i] ELSE 0

\* (a level begun only when its first page is full)
\* The levels that block b is added to.  A level above b + 1 would need
\* pageSize^b <= b + 1, so the range loses none.
LevelsOf(b) == {pow \in 0..(b + 1) : pow = 0 \/ b + 1 >= CellSize(pow - 1)}

\* Vec::set beyond the end of a page aborts the transaction.
FitsItsPage(pow, b) ==
    CellIdx(pow, b) <= Len(GetRewardInvData(pow, PageNumber(pow, b)))

\* The page of block b with value v added: appended, or set in place.
PageWith(pow, b, v) ==
    LET page == GetRewardInvData(pow, PageNumber(pow, b))
        newVal == Cell(pow, b) + v
        i == CellIdx(pow, b) + 1
    IN  IF pow > 0 /\ i = Len(page) + 1
        THEN Append(page, newVal)
        ELSE [page EXCEPT ![i] = newVal]

-----------------------------------------------------------------------------
(* Summing a range of blocks. *)

\* The first level whose cell, begun at the start block, ends after the end.
MaxPow(start, end) ==
    CHOOSE pow \in 1..254 :
        /\ start + CellSize(pow) - 1 > end
        /\ \A q \in 1..(pow - 1) : start + CellSize(q) - 1 <= end

\* (a jump from a block that is not the first of its cell)
BugJumpPow(b, maxPow) == maxPow - 1

\* The largest admitted level on which a cell starts at block b.
JumpPow(b, maxPow) ==
    CHOOSE pow \in 0..maxPow :
        /\ b % CellSize(pow) = 0
        /\ \A q \in (pow + 1)..maxPow : b % CellSize(q) # 0

CalculateReward(start, end) ==
    LET maxPow == MaxPow(start, end)
        from[b \in Nat] ==
            IF b > end
            THEN 0
            ELSE LET pow == JumpPow(b, maxPow)
                 IN  Cell(pow, b) + from[b + CellSize(pow)]
    IN  from[start]

-----------------------------------------------------------------------------
PagesInit ==
    /\ pageSize \in PageSizes
    /\ pages = <<>>
    /\ block = 0
    /\ added = <<>>

\* add_reward_inv, called by update_reward_inv for the next block
AddRewardInv(v) ==
    LET b == block + 1
        levels == LevelsOf(b)
        written == {<<pow, PageNumber(pow, b)>> : pow \in levels}
    IN  /\ block < MaxBlock
        /\ \A pow \in levels : FitsItsPage(pow, b)
        /\ pages' = [key \in written \cup DOMAIN pages |->
                        IF key \in written THEN PageWith(key[1], b, v) ELSE pages[key]]
        /\ block' = b
        /\ added' = Append(added, v)
        /\ UNCHANGED pageSize

PagesNext == \E v \in Values : AddRewardInv(v)

PagesSpec == PagesInit /\ [][PagesNext]_pageVars

-----------------------------------------------------------------------------
(* Properties. *)

\* What the store stands for: the plain sum of the values of the blocks.
PlainSum(start, end) == SumFunctionOnSet(added, start..end)

NextBlockFits ==
    \A pow \in LevelsOf(block + 1) :
        /\ FitsItsPage(pow, block + 1)
        /\ Len(GetRewardInvData(pow, PageNumber(pow, block + 1))) <= pageSize

\* calculate_reward returns, for a user last settled at any earlier block,
\* exactly the sum of all later blocks: no cell is counted twice, none is
\* skipped, and no incomplete cell of a late-begun level is read.  And there
\* always is a next block: add_reward_inv never sets a cell beyond the end of
\* a page, which would abort every later call that refreshes the rewards.
RangeSumsExact ==
    /\ \A start \in 1..(block + 1) :
            CalculateReward(start, block) = PlainSum(start, block)
    /\ NextBlockFits

=============================================================================
