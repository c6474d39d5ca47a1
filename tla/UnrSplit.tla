------------------------------- MODULE UnrSplit -------------------------------
(***************************************************************************)
(* How unr_rdma_plan_create (unr/base/unr_blk.c, lines 308-394) divides a  *)
(* message over the channels of a side: full rounds of blocks to every     *)
(* channel, the rest block by block from the channel where the previous    *)
(* message of the same side stopped. unr_init checks that the channels of  *)
(* a side have the same block size.                                        *)
(***************************************************************************)
EXTENDS Integers, FiniteSetsExt

CONSTANTS NumChannels,  \* channels of a side: num_inter_channels, num_intra_channels
          BlkSize,      \* block size of its channels
          W             \* 2^32

Sides == {"inter", "intra"}

ASSUME SplitAssumption ==
    /\ NumChannels \in [Sides -> Nat \ {0}]
    /\ BlkSize \in [Sides -> Nat \ {0}]
    /\ W \in Nat \ {0, 1}

Channels(side) == 0 .. NumChannels[side] - 1
BlkSizeSum(side) == NumChannels[side] * BlkSize[side]

-----------------------------------------------------------------------------
(* div_plan_wrt_size *)

\* Spread when every channel but the last gets one block at most
SpreadUnmerged(side) ==
    LET blk == BlkSize[side]
        spread[rest \in Nat] ==
            [c \in Channels(side) |->
                IF rest = 0
                THEN [add |-> [j \in Channels(side) |-> 0], next |-> c]
                ELSE LET taken == IF rest > blk THEN blk ELSE rest
                         tail  == spread[rest - taken][(c + 1) % NumChannels[side]]
                     IN  [add |-> [tail.add EXCEPT ![c] = @ + taken], next |-> tail.next]]
    IN  spread

\* What the loop over the rest adds to the channels from channel c on, and
\* the channel it stops at. A channel takes a block, or all of what is left
\* when the next channel would get less than a block.
Spread(side) ==
    LET blk == BlkSize[side]
        spread[rest \in Nat] ==
            [c \in Channels(side) |->
                IF rest = 0
                THEN [add |-> [j \in Channels(side) |-> 0], next |-> c]
                ELSE LET block == IF rest > blk THEN blk ELSE rest
                         taken == IF rest - block < blk THEN rest ELSE block
                         tail  == spread[rest - taken][(c + 1) % NumChannels[side]]
                     IN  [add |-> [tail.add EXCEPT ![c] = @ + taken], next |-> tail.next]]
    IN  spread

DivSize(side, sz, c) ==
    LET rest == Spread(side)[sz % BlkSizeSum(side)][c]
    IN  [j \in Channels(side) |->
            (sz \div BlkSizeSum(side)) * BlkSize[side] + rest.add[j]]

NextChannel(side, sz, c) == Spread(side)[sz % BlkSizeSum(side)][c].next

\* div_plan_wrt_offset
DivOffset(parts) ==
    LET offset[j \in DOMAIN parts] == IF j = 0 THEN 0 ELSE offset[j - 1] + parts[j - 1]
    IN  offset

\* sig_add_arr: the first part that is not empty announces the others
SigAddArr(parts) ==
    LET used  == {j \in DOMAIN parts : parts[j] # 0}
        first == CHOOSE j \in used : \A k \in used : j <= k
    IN  [j \in DOMAIN parts |->
            IF j \notin used THEN 0
            ELSE IF j = first THEN -1 + W * (Cardinality(used) - 1)
            ELSE -W]
=============================================================================
