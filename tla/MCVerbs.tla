------------------------------- MODULE MCVerbs -------------------------------
(* An instance of VerbsTransfer, and of the VerbsChannel it extends, for TLC. *)
EXTENDS VerbsTransfer

CONSTANTS a, b

Put(q, l, m) == [dst |-> q, dma |-> "put", loc |-> l, rmt |-> m]
Get(q, l, m) == [dst |-> q, dma |-> "get", loc |-> l, rmt |-> m]

\* two threads of rank 0
MCHome == [th \in Threads |-> 0]

\* a starts a plan, b once_now transfers
MCWrts == [th \in Threads |->
             IF th = a THEN <<Get(1, TRUE, TRUE), Put(1, FALSE, TRUE), Get(1, TRUE, FALSE)>>
             ELSE <<Get(1, TRUE, TRUE), Put(1, TRUE, TRUE)>>]
=============================================================================
