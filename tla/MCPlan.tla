------------------------------- MODULE MCPlan -------------------------------
(* An instance of UnrPlan for TLC: ranks 0 and 1 share a node. *)
EXTENDS UnrPlan

CONSTANTS p1, p2, x, y, z

MCNumChannels == [s \in Sides |-> IF s = "inter" THEN 2 ELSE 3]
MCBlkSize == [s \in Sides |-> IF s = "inter" THEN 3 ELSE 2]
MCNode == [r \in Ranks |-> r \div 2]
MCOwner == [p \in Plans |-> IF p = p1 THEN 0 ELSE 1]

Send(loc, ls, lo, rmt, rs, ro, dma, size) ==
    [loc |-> loc, locSig |-> ls, locOff |-> lo, rmt |-> rmt, rmtSig |-> rs,
     rmtOff |-> ro, dma |-> dma, size |-> size]

B0 == Blk(0, 0, 1, 5, x, y)
B1 == Blk(1, 0, 0, 16, NoSig, z)
B2 == Blk(2, 0, 2, 5, z, NoSig)
B3 == Blk(2, 1, 0, 16, y, z)
B4 == Blk(1, 0, 0, 5, NoSig, z)

\* p1 puts and gets whole blocks, of equal sizes as the assertion of
\* unr_blk.c:286 asks, or parts of which one is empty; p2 gets
MCArgs ==
    [p \in Plans |->
       IF p = p1
       THEN {[part |-> FALSE,
              sends |-> <<Send(B0, NoSig, 0, B4, NoSig, 0, "put", 0),
                          Send(B0, NoSig, 0, B2, x, 0, "get", 0)>>],
             [part |-> TRUE,
              sends |-> <<Send(B0, z, 1, B2, NoSig, 2, "put", 3),
                          Send(B0, NoSig, 0, B1, NoSig, 0, "get", 0),
                          Send(B0, NoSig, 2, B3, NoSig, 0, "get", 2)>>]}
       ELSE {[part |-> TRUE, sends |-> <<Send(B1, NoSig, 0, B3, NoSig, 1, "get", 4),
                                       Send(B1, x, 4, B3, NoSig, 5, "get", 11)>>]}]
=============================================================================
