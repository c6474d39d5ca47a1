------------------------------- MODULE UnrDivide -------------------------------
(***************************************************************************)
(* What the division of UnrSplit must give. UnrPlan asks it of the plans   *)
(* that are built; DivisionExact is about one message of any size up to a  *)
(* bound, from any channel where the messages before it may have left the  *)
(* rotation.                                                               *)
(***************************************************************************)
EXTENDS UnrSplit

SumOf(f, S) == MapThenSumSet(LAMBDA x : f[x], S)

Used(parts) == {j \in DOMAIN parts : parts[j] # 0}

\* Every byte is sent by exactly one channel, and nothing beyond the message.
Tiled(size, parts) ==
    LET offset == DivOffset(parts) IN
    /\ \A b \in 0 .. size - 1 :
         Cardinality({j \in Used(parts) : offset[j] <= b /\ b < offset[j] + parts[j]}) = 1
    /\ \A j \in Used(parts) : offset[j] + parts[j] <= size

\* No channel is used for less than a block unless the message itself is
\* smaller, and then it goes out in one part.
NoRunt(blk, parts) ==
    \A j \in Used(parts) : parts[j] >= blk \/ Used(parts) = {j}

\* One message never loads one channel with two blocks more than another one.
Balanced(blk, parts) ==
    \A j, k \in DOMAIN parts : parts[j] < parts[k] + 2 * blk

\* The increments of all parts add up to one event, and those of some of the
\* parts never look like a message that has arrived or was never sent.
OneEvent(parts, add) ==
    /\ SumOf(add, Used(parts)) = -1
    /\ \A S \in SUBSET Used(parts) :
         S # {} /\ S # Used(parts) => SumOf(add, S) \notin {0, -1}

Exact(side, size, parts, add) ==
    /\ Tiled(size, parts)
    /\ NoRunt(BlkSize[side], parts)
    /\ Balanced(BlkSize[side], parts)
    /\ OneEvent(parts, add)

\* unr_rdma_plan_create divides every message exactly, in blocks, evenly and
\* into one event, and leaves the rotation at a channel of the side.
DivisionExact(maxSize) ==
    \A side \in Sides, size \in 1 .. maxSize : \A c \in Channels(side) :
        LET parts == DivSize(side, size, c) IN
        /\ Exact(side, size, parts, SigAddArr(parts))
        /\ NextChannel(side, size, c) \in Channels(side)
=============================================================================
