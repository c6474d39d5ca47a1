-------------------------------- MODULE MCClose --------------------------------
(* An instance of MpiClose for TLC. *)
EXTENDS MpiClose

CONSTANTS p1, p2

\* rank 0 creates p1, a put to rank 1; rank 1 creates p2, a get from rank 0
MCOwner == [i \in Plans |-> IF i = p1 THEN 0 ELSE 1]
MCWrts == [i \in Plans |-> IF i = p1 THEN <<[dst |-> 1, dma |-> "put"]>>
                                     ELSE <<[dst |-> 0, dma |-> "get"]>>]
OneStart == [i \in Plans |-> 1]
=============================================================================
