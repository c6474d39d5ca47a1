------------------------------- MODULE VerbsOpen --------------------------------
(***************************************************************************)
(* Opening of a verbs channel (uri_verbs_channel_open of                   *)
(* uri/verbs/uri_verbs_channel.c, the queue pair states of                 *)
(* uri_verbs_utils.c): every rank creates a queue pair for every rank, the *)
(* numbers are exchanged, each pair is connected, and a rank that is       *)
(* through may send at once.                                               *)
(*                                                                         *)
(* A collective call of MPI is entered and left; it is left when all ranks *)
(* have entered the same call as their n-th one. VerbsChannel starts where *)
(* this module ends.                                                       *)
(***************************************************************************)
EXTENDS Integers, Sequences, FiniteSets, Functions

CONSTANTS
    Size,     \* uru_mpi->size
    Numbers   \* queue pair numbers a device hands out

ASSUME OpenAssumption == Size \in Nat \ {0} /\ Cardinality(Numbers) >= Size

Ranks == 0 .. Size - 1
Nobody == -1

VARIABLES
    lid,      \* port_attr.lid: 0 on RoCE
    qp,       \* qp[r][q]: number of qp_list[q]
    qp2rank,  \* qp2rank[r]: number -> rank
    numList, lidList, gidList,  \* qp_num_list_recv, lid_list, gid_list of each rank
    state,    \* state[r][q]: state of qp_list[q]
    dest,     \* dest[r][q]: lid and number of the queue pair it is connected to
    srq,      \* srq[r]: receive requests are posted
    done,     \* done[r]: statements of Open that r has completed
    inside    \* inside[r]: r is in a collective call

lists == <<numList, lidList, gidList>>
vars == <<lid, qp, qp2rank, lists, state, dest, srq, done, inside>>

\* the ports of a fabric are of one kind
Lids == {[r \in Ranks |-> 0], [r \in Ranks |-> r + 1]}

Init ==
    /\ lid \in Lids
    /\ qp = [r \in Ranks |-> <<>>]
    /\ qp2rank = [r \in Ranks |-> [n \in Numbers |-> Nobody]]
    /\ numList = [r \in Ranks |-> <<>>]
    /\ lidList = [r \in Ranks |-> <<>>]
    /\ gidList = [r \in Ranks |-> <<>>]
    /\ state = [r \in Ranks |-> [q \in Ranks |-> "reset"]]
    /\ dest = [r \in Ranks |-> [q \in Ranks |-> <<>>]]
    /\ srq = [r \in Ranks |-> FALSE]
    /\ done = [r \in Ranks |-> 0]
    /\ inside = [r \in Ranks |-> FALSE]

-----------------------------------------------------------------------------
(* The statements of uri_verbs_channel_open that concern other ranks *)

\* AsksGid when the rank that prints needs the gid
AsksGidRoot(r) == lid[r] = 0 /\ r = 0

AsksGid(r) == lid[r] = 0

Open(r) ==
    IF AsksGid(r)
    THEN <<"create", "numbers", "lids", "gids", "mtu", "connect", "pool", "barrier", "barrier">>
    ELSE <<"create", "numbers", "lids", "mtu", "connect", "pool", "barrier", "barrier">>

Opened(r) == done[r] = Len(Open(r))
At(r) == IF Opened(r) THEN "opened" ELSE Open(r)[done[r] + 1]
Collective(s) == s \notin {"create", "connect", "opened"}

Complete(r) == done' = [done EXCEPT ![r] = @ + 1]

\* RankOf when the ranks are in the order of the numbers
RankOfByOrder(nums) ==
    [n \in Numbers |-> LET below == Cardinality({q \in Ranks : nums[q] < n})
                       IN IF below < Size THEN below ELSE Nobody]

RankOf(nums) ==
    [n \in Numbers |-> IF \E q \in Ranks : nums[q] = n
                       THEN CHOOSE q \in Ranks : nums[q] = n ELSE Nobody]

\* The shared receive queue is filled and the queue pairs are made and
\* initialised.
Create(r) ==
    /\ At(r) = "create"
    /\ \E nums \in [Ranks -> Numbers] :
         /\ IsInjective(nums)
         /\ qp' = [qp EXCEPT ![r] = nums]
         /\ qp2rank' = [qp2rank EXCEPT ![r] = RankOf(nums)]
    /\ state' = [state EXCEPT ![r] = [q \in Ranks |-> "init"]]
    /\ srq' = [srq EXCEPT ![r] = TRUE]
    /\ Complete(r)
    /\ UNCHANGED <<lid, lists, dest, inside>>

Enter(r) ==
    /\ Collective(At(r)) /\ ~inside[r]
    /\ inside' = [inside EXCEPT ![r] = TRUE]
    /\ UNCHANGED <<lid, qp, qp2rank, lists, state, dest, srq, done>>

\* NumbersFor when MPI_Allgather sends the first number to everyone
NumbersForAll(r) == [q \in Ranks |-> qp[q][0]]

\* MPI_Alltoall of the numbers
NumbersFor(r) == [q \in Ranks |-> qp[q][r]]

\* A rank that is further has been in the call.
Leave(r) ==
    /\ inside[r]
    /\ \A q \in Ranks : \/ done[q] > done[r]
                        \/ done[q] = done[r] /\ inside[q] /\ At(q) = At(r)
    /\ numList' = IF At(r) = "numbers" THEN [numList EXCEPT ![r] = NumbersFor(r)] ELSE numList
    /\ lidList' = IF At(r) = "lids" THEN [lidList EXCEPT ![r] = lid] ELSE lidList
    /\ gidList' = IF At(r) = "gids" THEN [gidList EXCEPT ![r] = [q \in Ranks |-> q]] ELSE gidList
    /\ inside' = [inside EXCEPT ![r] = FALSE]
    /\ Complete(r)
    /\ UNCHANGED <<lid, qp, qp2rank, state, dest, srq>>

\* modify_qp_to_rtr: a port without a lid is addressed by its gid.
Address(r, q) == IF lidList[r][q] = 0 THEN gidList[r][q] ELSE lidList[r][q] - 1

\* modify_qp_to_rtr and modify_qp_to_rts for one queue pair after the other
Connect(r) ==
    /\ At(r) = "connect"
    /\ \E q \in Ranks :
         /\ state[r][q] = "init" /\ \A p \in 0 .. q - 1 : state[r][p] = "rts"
         /\ state' = [state EXCEPT ![r][q] = "rts"]
         /\ dest' = [dest EXCEPT ![r][q] = <<Address(r, q), numList[r][q]>>]
         /\ IF q = Size - 1 THEN Complete(r) ELSE UNCHANGED done
    /\ UNCHANGED <<lid, qp, qp2rank, lists, srq, inside>>

Next == \E r \in Ranks : Create(r) \/ Enter(r) \/ Leave(r) \/ Connect(r)

\* Every rank calls uri_verbs_channel_open.
Spec == Init /\ [][Next]_vars /\ WF_vars(Next)

-----------------------------------------------------------------------------
(* Properties *)

\* What a rank sends as soon as its opening returns finds, on every rank and
\* the sender's own included, a connected queue pair that leads back to the
\* sender's, and a posted receive request (rnr_retry is 0).
PeersReady ==
    \A r \in Ranks : Opened(r) =>
        \A q \in Ranks :
            /\ dest[r][q] = <<q, qp[q][r]>> /\ dest[q][r] = <<r, qp[r][q]>>
            /\ state[q][r] = "rts" /\ srq[q]

\* A completion is counted for the rank that its queue pair is connected to:
\* req_finish is kept by qp2rank, req_submit by the index in qp_list.
CountedForPeer ==
    \A r \in Ranks, q \in Ranks :
        dest[r][q] # <<>> => qp2rank[r][qp[r][q]] = dest[r][q][1]

\* Every rank's opening returns.
AllOpen == <>(\A r \in Ranks : Opened(r))
=============================================================================
