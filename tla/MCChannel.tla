------------------------------- MODULE MCChannel -------------------------------
(* Instances of MpiChannel for TLC. *)
EXTENDS MpiTransfer

CONSTANTS p1, p2, p3

Put(q) == [dst |-> q, dma |-> "put"]
Get(q) == [dst |-> q, dma |-> "get"]

\* rank 0 creates p1 and p2, rank 1 creates p3
TwoOwners == [i \in Plans |-> IF i = p3 THEN 1 ELSE 0]
OneOwner == [i \in Plans |-> 0]

\* p1 and p2 of rank 0 reuse tags and a batch id; rank 1 gets from rank 0
MixedWrts ==
    [i \in Plans |-> IF i = p1 THEN <<Put(1)>>
                     ELSE IF i = p2 THEN <<Get(1)>> ELSE <<Get(0)>>]

TwoStarts == [i \in Plans |-> 2]
MixedStarts == [i \in Plans |-> IF i = p1 THEN 2 ELSE 1]
=============================================================================
