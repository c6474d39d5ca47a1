--------------------------------- MODULE Fifo ---------------------------------
(***************************************************************************)
(* What uru_queue_t promises: a bounded first-in first-out queue, one      *)
(* producer, consumers that poll. With MayMiss a poll may report "empty"   *)
(* although an item is there.                                              *)
(***************************************************************************)
EXTENDS Integers, Sequences

CONSTANTS Values, Consumers, Capacity, MayMiss

VARIABLES items,  \* oldest first
          got     \* got[c]: the last result of consumer c's poll, -1 if empty

Init == items = <<>> /\ got = [c \in Consumers |-> -1]

Push(d) ==
    /\ Len(items) < Capacity
    /\ items' = Append(items, d)
    /\ UNCHANGED got

Pop(c) ==
    /\ items # <<>>
    /\ got' = [got EXCEPT ![c] = Head(items)]
    /\ items' = Tail(items)

PopEmpty(c) ==
    /\ items = <<>> \/ MayMiss
    /\ got' = [got EXCEPT ![c] = -1]
    /\ UNCHANGED items

Next == (\E d \in Values : Push(d)) \/ \E c \in Consumers : Pop(c) \/ PopEmpty(c)

Spec == Init /\ [][Next]_<<items, got>>
=============================================================================
