------------------------------ MODULE MpiIntPool ------------------------------
(***************************************************************************)
(* uri_mpi_int_pool_t (uri/mpi/uri_mpi_utils.c, lines 4-32): the integers  *)
(* every rank hands out as MPI tags and batch ids towards one peer. The    *)
(* application thread takes numbers, it and the daemon thread return them; *)
(* each operation holds the pool's spin lock, so it is one step. A number  *)
(* is made unique over the ranks by n * size + rank.                       *)
(***************************************************************************)
EXTENDS Integers, Sequences, FiniteSets

CONSTANTS Size,   \* uru_mpi->size
          Limit   \* 2100000000 / uru_mpi->size

ASSUME PoolSizes == Size \in Nat \ {0} /\ Limit \in Nat /\ Limit > 1

Ranks == 0 .. Size - 1

VARIABLES
    max,      \* pool->max
    recycle,  \* pool->recycle_stack[0 .. recycle_top - 1]
    held,     \* numbers in use by the rank
    halted    \* the rank's assertion on the limit has failed

vars == <<max, recycle, held, halted>>

Init ==
    /\ max = [r \in Ranks |-> 1]
    /\ recycle = [r \in Ranks |-> <<>>]
    /\ held = [r \in Ranks |-> {}]
    /\ halted = [r \in Ranks |-> FALSE]

\* Encode without the rank
EncodeNoRank(r, n) == n * Size

Encode(r, n) == n * Size + r
Decode(r, x) == (x - r) \div Size

Last(s)  == s[Len(s)]
Front(s) == SubSeq(s, 1, Len(s) - 1)

\* GetRecycled when the bottom of the stack is read instead of its top
GetRecycledBottom(r) ==
    /\ ~halted[r]
    /\ recycle[r] # <<>>
    /\ recycle' = [recycle EXCEPT ![r] = Front(@)]
    /\ held' = [held EXCEPT ![r] = @ \cup {Encode(r, Head(recycle[r]))}]
    /\ UNCHANGED <<max, halted>>

\* uri_mpi_int_pool_get, reusing the number returned last
GetRecycled(r) ==
    /\ ~halted[r]
    /\ recycle[r] # <<>>
    /\ recycle' = [recycle EXCEPT ![r] = Front(@)]
    /\ held' = [held EXCEPT ![r] = @ \cup {Encode(r, Last(recycle[r]))}]
    /\ UNCHANGED <<max, halted>>

\* uri_mpi_int_pool_get, a new number
GetNew(r) ==
    /\ ~halted[r]
    /\ recycle[r] = <<>>
    /\ max' = [max EXCEPT ![r] = @ + 1]
    /\ IF max[r] + 1 < Limit
       THEN held' = [held EXCEPT ![r] = @ \cup {Encode(r, max[r])}] /\ UNCHANGED halted
       ELSE halted' = [halted EXCEPT ![r] = TRUE] /\ UNCHANGED held
    /\ UNCHANGED recycle

Get(r) == GetRecycled(r) \/ GetNew(r)

\* Return when the number is not put on the stack
ReturnLost(r, x) ==
    /\ ~halted[r]
    /\ x \in held[r]
    /\ held' = [held EXCEPT ![r] = @ \ {x}]
    /\ UNCHANGED <<max, recycle, halted>>

\* uri_mpi_int_pool_return of a number in use
Return(r, x) ==
    /\ ~halted[r]
    /\ x \in held[r]
    /\ recycle' = [recycle EXCEPT ![r] = Append(@, Decode(r, x))]
    /\ held' = [held EXCEPT ![r] = @ \ {x}]
    /\ UNCHANGED <<max, halted>>

Next == \E r \in Ranks : Get(r) \/ \E x \in held[r] : Return(r, x)

Spec == Init /\ [][Next]_vars

-----------------------------------------------------------------------------
(* Properties *)

TypeOK ==
    /\ max \in [Ranks -> Nat \ {0}]
    /\ recycle \in [Ranks -> Seq(Nat)]
    /\ held \in [Ranks -> SUBSET Nat]
    /\ halted \in [Ranks -> BOOLEAN]

\* Two ranks never hold the same number: a PUT of one and a GET of the other
\* between the same two ranks never share a tag (uri_mpi_rdma.c, line 63).
UniqueOverRanks ==
    \A q, r \in Ranks : q # r => held[q] \cap held[r] = {}

\* A get returns a number that is not in use, even after any sequence of
\* gets and returns by the two threads.
FreshGet ==
    [][\A r \in Ranks : Get(r) /\ ~halted'[r] =>
           \E x \in held'[r] : x \notin held[r]]_vars

\* The numbers below max are in use or on the stack, each once: none is lost,
\* none is handed out twice, and max grows only to the peak use.
OnStack(r, n) == \E k \in 1 .. Len(recycle[r]) : recycle[r][k] = n

PoolExact ==
    \A r \in Ranks :
        /\ \A j, k \in 1 .. Len(recycle[r]) : recycle[r][j] = recycle[r][k] => j = k
        /\ \A k \in 1 .. Len(recycle[r]) :
             /\ recycle[r][k] \in 1 .. max[r] - 1
             /\ Encode(r, recycle[r][k]) \notin held[r]
        /\ \A x \in held[r] : \E n \in 1 .. max[r] - 1 : x = Encode(r, n)
        /\ ~halted[r] => \A n \in 1 .. max[r] - 1 : OnStack(r, n) \/ Encode(r, n) \in held[r]

\* The inductive invariant
PoolInv == TypeOK /\ PoolExact

\* The assertion on the limit fails only when every number is in use.
HaltsOnlyWhenFull ==
    \A r \in Ranks : halted[r] => Cardinality(held[r]) = Limit - 2
=============================================================================
