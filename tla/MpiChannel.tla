------------------------------ MODULE MpiChannel ------------------------------
(***************************************************************************)
(* The RDMA plans of the MPI channel (uri/mpi/uri_mpi_rdma.c) and the      *)
(* daemon thread that serves them (uri/mpi/uri_mpi_channel.c). A transfer  *)
(* is an MPI send on one rank and a receive on the other. Its initiator    *)
(* posts its own half ("loc") and asks the peer, with a control message,   *)
(* to create, start, destroy or execute the other half ("rmt").            *)
(*                                                                         *)
(* One application thread per rank calls the library; a call is one step,  *)
(* since the daemon looks at new requests only once the call's last        *)
(* statement has appended them. The daemon's pass is split where the other *)
(* thread can come between: after each control message, after MPI_Testsome *)
(* and, for each completed operation, after the signal is updated.         *)
(*                                                                         *)
(* Abstracted: payloads (an operation is identified by its plan, its index *)
(* and its half, and a receive records which send it was matched with);    *)
(* the requests of the control sends, which only free their own buffer;    *)
(* the request array (module MpiReqQueue) is a set.                        *)
(***************************************************************************)
EXTENDS Integers, Sequences, FiniteSets

CONSTANTS
    Ranks,         \* ranks of the communicator
    Plans,         \* identities of plans, each created once
    None,          \* no plan, no operation
    Owner,         \* Owner[i]: the rank that creates plan i
    Wrts,          \* Wrts[i]: its transfers, [dst |-> rank, dma |-> "put" or "get"]
    Once,          \* plans created with once_now = 1
    MaxStart,      \* bound: MaxStart[i] starts of plan i
    NumIds,        \* bound: tags and batch ids per pair of ranks
    EarlyDestroy   \* destroy as soon as the signals of both sides have fired

ASSUME ChannelAssumption ==
    /\ None \notin Plans
    /\ Owner \in [Plans -> Ranks]
    /\ \A i \in Plans : Wrts[i] \in Seq([dst : Ranks, dma : {"put", "get"}]) /\ Wrts[i] # <<>>
    /\ Once \subseteq Plans
    /\ MaxStart \in [Plans -> Nat] /\ NumIds \in Nat
    /\ EarlyDestroy \in BOOLEAN

-----------------------------------------------------------------------------
(* Operations: uri_mpi_op_t *)

Ids      == 1 .. NumIds
Indices(i) == 1 .. Len(Wrts[i])
Ops      == UNION {{<<i, k, h>> : k \in Indices(i), h \in {"loc", "rmt"}} : i \in Plans}
Loc(i)   == {<<i, k, "loc">> : k \in Indices(i)}

\* Rmt when a batch leaves out the plan's last transfer
RmtButLast(i, q) ==
    {<<i, k, "rmt">> : k \in {j \in Indices(i) : j < Len(Wrts[i]) /\ Wrts[i][j].dst = q}}

Rmt(i, q) == {<<i, k, "rmt">> : k \in {j \in Indices(i) : Wrts[i][j].dst = q}}
OpsOf(i) == {op \in Ops : op[1] = i}

ASSUME NoneAssumption == None \notin Ops

Receivers(i) == {Wrts[i][k].dst : k \in Indices(i)}

\* The other half of the same transfer.
Partner(op) == <<op[1], op[2], IF op[3] = "loc" THEN "rmt" ELSE "loc">>

\* op_type: a put sends from the initiator, a get from the peer.
IsSend(op) == (Wrts[op[1]][op[2]].dma = "put") = (op[3] = "loc")

\* The rank an operation runs on, and the rank at its other end.
At(op)   == IF op[3] = "loc" THEN Owner[op[1]] ELSE Wrts[op[1]][op[2]].dst
Peer(op) == At(Partner(op))

VARIABLES
    plan,    \* plan[i]: "none", "ready", "gone"
    starts,  \* starts[i]: times plan i was started
    tag,     \* tag[i][k]: number taken from mpi_tag for transfer k
    batch,   \* batch[i][q]: number taken from batch_id for receiver q
    tags,    \* tags[r][q]: the pool mpi_tag[q] of rank r, next number first
    batches, \* batches[r][q]: the pool batch_id[q] of rank r
    ctrl,    \* ctrl[q][r]: control messages from q to r, oldest first
    slot,    \* slot[r][q][b]: recv_batch[q][b] of rank r, a plan or None
    ost,     \* state of an operation and its MPI request
    posted,  \* posted[key]: active operations not matched yet, oldest first
    got,     \* got[op]: the operation it was matched with since its start
    que,     \* que[r]: operations in rank r's mpi_req array
    dpc, dset, dop,  \* the daemon: where it is, completed operations, the current one
    events,  \* events[op]: signal updates done for the operation
    err      \* what has gone wrong, or "no"

planVars == <<plan, starts, tag, batch, tags, batches>>
dmnVars  == <<dpc, dset, dop, events>>
mpiVars  == <<ost, posted, got, que>>
vars == <<planVars, ctrl, slot, mpiVars, dmnVars, err>>

\* A message is identified by its ranks and its tag; n * size + rank keeps
\* the tags of different ranks apart (module MpiIntPool).
Keys == Ranks \X Ranks \X (Ids \X Ranks)

\* Key when the tag does not tell the initiator
KeyNoOwner(op, n) ==
    <<IF IsSend(op) THEN At(op) ELSE Peer(op),
      IF IsSend(op) THEN Peer(op) ELSE At(op), <<n, CHOOSE r \in Ranks : TRUE>>>>

Key(op, n) ==
    <<IF IsSend(op) THEN At(op) ELSE Peer(op),
      IF IsSend(op) THEN Peer(op) ELSE At(op), <<n, Owner[op[1]]>>>>

\* the pools start at max = 1 with an empty stack
NewPool == [n \in Ids |-> n]

Init ==
    /\ plan = [i \in Plans |-> "none"]
    /\ starts = [i \in Plans |-> 0]
    /\ tag = [i \in Plans |-> <<>>]
    /\ batch = [i \in Plans |-> [q \in Ranks |-> 0]]
    /\ tags = [r \in Ranks |-> [q \in Ranks |-> NewPool]]
    /\ batches = [r \in Ranks |-> [q \in Ranks |-> NewPool]]
    /\ ctrl = [q \in Ranks |-> [r \in Ranks |-> <<>>]]
    /\ slot = [r \in Ranks |-> [q \in Ranks |-> [b \in Ids |-> None]]]
    /\ ost = [op \in Ops |-> "none"]
    /\ posted = [key \in Keys |-> <<>>]
    /\ got = [op \in Ops |-> None]
    /\ que = [r \in Ranks |-> {}]
    /\ dpc = [r \in Ranks |-> "probe"]
    /\ dset = [r \in Ranks |-> {}]
    /\ dop = [r \in Ranks |-> None]
    /\ events = [op \in Ops |-> 0]
    /\ err = "no"

-----------------------------------------------------------------------------
(* MPI: MPI_Start, MPI_Isend and MPI_Irecv. Messages of one key are matched *)
(* in the order they were sent and received. The operations of S have       *)
(* different keys; t[op] is the tag of op.                                  *)

Fail(reason) == err' = IF err = "no" THEN reason ELSE err

Matches(op, key) == posted[key] # <<>> /\ IsSend(Head(posted[key])) # IsSend(op)

Post(r, S, t) ==
    LET key(op) == Key(op, t[op]) IN
    /\ ost' = [op \in Ops |-> IF op \in S THEN "active" ELSE ost[op]]
    /\ posted' = [k \in Keys |->
           IF \E op \in S : key(op) = k
           THEN LET op == CHOOSE o \in S : key(o) = k IN
                IF Matches(op, k) THEN Tail(posted[k]) ELSE Append(posted[k], op)
           ELSE posted[k]]
    /\ got' = [op \in Ops |->
           IF op \in S
           THEN IF Matches(op, key(op)) THEN Head(posted[key(op)]) ELSE None
           ELSE IF \E o \in S : Matches(o, key(o)) /\ Head(posted[key(o)]) = op
                THEN CHOOSE o \in S : Matches(o, key(o)) /\ Head(posted[key(o)]) = op
                ELSE got[op]]
    /\ que' = [que EXCEPT ![r] = @ \cup S]

TagOf(op) == tag[op[1]][op[2]]
Tags(S) == [op \in S |-> TagOf(op)]

-----------------------------------------------------------------------------
(* The application thread of the plan's owner *)

\* uri_mpi_int_pool_get for the transfers in turn: transfer k takes the next
\* number of the pool of its destination.
Take(i) ==
    LET r == Owner[i]
        rankOf(k) == Cardinality({j \in 1 .. k : Wrts[i][j].dst = Wrts[i][k].dst})
        used(q) == Cardinality({j \in Indices(i) : Wrts[i][j].dst = q})
    IN  /\ \A q \in Receivers(i) : used(q) <= Len(tags[r][q])
        /\ tag' = [tag EXCEPT ![i] = [k \in Indices(i) |-> tags[r][Wrts[i][k].dst][rankOf(k)]]]
        /\ tags' = [tags EXCEPT ![r] = [q \in Ranks |->
                        SubSeq(tags[r][q], used(q) + 1, Len(tags[r][q]))]]

\* One control message to every receiver of the plan.
Tell(i, type, b) ==
    ctrl' = [ctrl EXCEPT ![Owner[i]] = [q \in Ranks |->
                IF q \in Receivers(i)
                THEN Append(ctrl[Owner[i]][q], [type |-> type, batch |-> b[q], plan |-> i])
                ELSE ctrl[Owner[i]][q]]]

\* uri_mpi_rdma_plan_create, once_now = 0
PlanCreate(i) ==
    LET r == Owner[i] IN
    /\ err = "no"
    /\ i \notin Once /\ plan[i] = "none"
    /\ \A q \in Receivers(i) : batches[r][q] # <<>>
    /\ Take(i)
    /\ batch' = [batch EXCEPT ![i] = [q \in Ranks |->
                     IF q \in Receivers(i) THEN Head(batches[r][q]) ELSE 0]]
    /\ batches' = [batches EXCEPT ![r] = [q \in Ranks |->
                       IF q \in Receivers(i) THEN Tail(batches[r][q]) ELSE batches[r][q]]]
    /\ Tell(i, "create", batch'[i])
    /\ ost' = [op \in Ops |-> IF op \in Loc(i) THEN "idle" ELSE ost[op]]
    /\ plan' = [plan EXCEPT ![i] = "ready"]
    /\ UNCHANGED <<starts, slot, posted, got, que, dmnVars, err>>

\* uri_mpi_rdma_plan_create, once_now = 1: the requests are posted at once
\* and the plan is freed before the call returns.
RdmaStart(i) ==
    /\ err = "no"
    /\ i \in Once /\ plan[i] = "none"
    /\ Take(i)
    /\ Post(Owner[i], Loc(i), [op \in Loc(i) |-> tag'[i][op[2]]])
    /\ Tell(i, "execute", batch[i])
    /\ plan' = [plan EXCEPT ![i] = "gone"]
    /\ starts' = [starts EXCEPT ![i] = 1]
    /\ UNCHANGED <<batch, batches, slot, dmnVars, err>>

\* The signals of all transfers of the plan have fired on both sides as often
\* as it was started: what the application waits for between two starts.
Signalled(i) == \A op \in OpsOf(i) : events[op] = starts[i]

\* No daemon holds an operation of the plan any more: what the tests reach
\* with a barrier, a pause and a barrier before they destroy a plan.
Settled(i) == \A op \in OpsOf(i), r \in Ranks : op \notin que[r] \cup dset[r]

\* uri_mpi_rdma_plan_start
PlanStart(i) ==
    /\ err = "no"
    /\ plan[i] = "ready"
    /\ starts[i] < MaxStart[i] /\ Signalled(i)
    /\ Tell(i, "start", batch[i])
    /\ IF \E op \in Loc(i) : ost[op] # "idle" THEN Fail("start of an active request")
                                               ELSE UNCHANGED err
    /\ Post(Owner[i], Loc(i), Tags(Loc(i)))
    /\ starts' = [starts EXCEPT ![i] = @ + 1]
    /\ UNCHANGED <<plan, tag, batch, tags, batches, slot, dmnVars>>

\* The numbers a destroyed plan puts back, the one returned last on top.
Returned(i, q) ==
    LET ks == {k \in Indices(i) : Wrts[i][k].dst = q}
        nth(n) == CHOOSE k \in ks : Cardinality({j \in ks : j > k}) = n - 1
    IN  [n \in 1 .. Cardinality(ks) |-> tag[i][nth(n)]]

\* uri_mpi_rdma_plan_destroy
PlanDestroy(i) ==
    LET r == Owner[i] IN
    /\ err = "no"
    /\ plan[i] = "ready"
    /\ Signalled(i)
    /\ EarlyDestroy \/ Settled(i)
    /\ tags' = [tags EXCEPT ![r] = [q \in Ranks |-> Returned(i, q) \o tags[r][q]]]
    /\ Tell(i, "destroy", batch[i])
    /\ batches' = [batches EXCEPT ![r] = [q \in Ranks |->
                       IF q \in Receivers(i) THEN <<batch[i][q]>> \o batches[r][q]
                                             ELSE batches[r][q]]]
    /\ IF \E op \in Loc(i) : ost[op] # "idle" THEN Fail("free of an active request")
                                               ELSE UNCHANGED err
    /\ ost' = [op \in Ops |-> IF op \in Loc(i) THEN "freed" ELSE ost[op]]
    /\ plan' = [plan EXCEPT ![i] = "gone"]
    /\ UNCHANGED <<starts, tag, batch, slot, posted, got, que, dmnVars>>

-----------------------------------------------------------------------------
(* The daemon thread of rank r *)

\* uri_mpi_process_ctrl_msg
CtrlCreate(r, q, m) ==
    /\ m.type = "create"
    /\ IF slot[r][q][m.batch] # None THEN Fail("slot in use") ELSE UNCHANGED err
    /\ slot' = [slot EXCEPT ![r][q][m.batch] = m.plan]
    /\ ost' = [op \in Ops |-> IF op \in Rmt(m.plan, r) THEN "idle" ELSE ost[op]]
    /\ UNCHANGED <<posted, got, que>>

CtrlStart(r, q, m) ==
    LET S == Rmt(slot[r][q][m.batch], r) IN
    /\ m.type = "start"
    /\ IF slot[r][q][m.batch] = None
       THEN Fail("empty slot") /\ UNCHANGED mpiVars
       ELSE /\ IF \E op \in S : ost[op] # "idle" THEN Fail("start of an active request")
                                                ELSE UNCHANGED err
            /\ Post(r, S, Tags(S))
    /\ UNCHANGED slot

\* CtrlDestroy when the slot is not cleared
CtrlDestroyKeepsSlot(r, q, m) ==
    LET S == Rmt(slot[r][q][m.batch], r) IN
    /\ m.type = "destroy"
    /\ IF slot[r][q][m.batch] = None
       THEN Fail("empty slot") /\ UNCHANGED ost
       ELSE /\ IF \E op \in S : ost[op] # "idle" THEN Fail("free of an active request")
                                                ELSE UNCHANGED err
            /\ ost' = [op \in Ops |-> IF op \in S THEN "freed" ELSE ost[op]]
    /\ UNCHANGED <<slot, posted, got, que>>

CtrlDestroy(r, q, m) ==
    LET S == Rmt(slot[r][q][m.batch], r) IN
    /\ m.type = "destroy"
    /\ IF slot[r][q][m.batch] = None
       THEN Fail("empty slot") /\ UNCHANGED ost
       ELSE /\ IF \E op \in S : ost[op] # "idle" THEN Fail("free of an active request")
                                                ELSE UNCHANGED err
            /\ ost' = [op \in Ops |-> IF op \in S THEN "freed" ELSE ost[op]]
    /\ slot' = [slot EXCEPT ![r][q][m.batch] = None]
    /\ UNCHANGED <<posted, got, que>>

CtrlExecute(r, q, m) ==
    /\ m.type = "execute"
    /\ Post(r, Rmt(m.plan, r), Tags(Rmt(m.plan, r)))
    /\ UNCHANGED <<slot, err>>

\* One turn of the probe loop. MPI_Iprobe may also report nothing while a
\* message is on its way: the daemon then goes on to DaemonTest.
DaemonCtrl(r, q) ==
    /\ err = "no"
    /\ dpc[r] = "probe"
    /\ ctrl[q][r] # <<>>
    /\ ctrl' = [ctrl EXCEPT ![q][r] = Tail(@)]
    /\ LET m == Head(ctrl[q][r]) IN
       \/ CtrlCreate(r, q, m)
       \/ CtrlStart(r, q, m)
       \/ CtrlDestroy(r, q, m)
       \/ CtrlExecute(r, q, m)
    /\ UNCHANGED <<planVars, dmnVars>>

\* Requests MPI_Testsome can find complete: a matched receive; a send at any
\* time, since MPI may have buffered it.
Completed(r) == {op \in que[r] : ost[op] = "active" /\ (IsSend(op) \/ got[op] # None)}

\* MPI_Testsome finds the operations S complete; it makes a persistent
\* request inactive again. Their entries leave the array at the end of the
\* pass, but nobody looks at them in between.
DaemonTest(r, S) ==
    /\ err = "no"
    /\ dpc[r] = "probe"
    /\ ost' = [op \in Ops |-> IF op \in S THEN "idle" ELSE ost[op]]
    /\ que' = [que EXCEPT ![r] = @ \ S]
    /\ dset' = [dset EXCEPT ![r] = S]
    /\ dpc' = [dpc EXCEPT ![r] = "event"]
    /\ UNCHANGED <<planVars, ctrl, slot, posted, got, dop, events, err>>

\* op->flag_p->counter += op->flag_add
DaemonEvent(r) ==
    /\ err = "no"
    /\ dpc[r] = "event"
    /\ \E op \in dset[r] :
         /\ IF ost[op] = "freed" THEN Fail("use after free") ELSE UNCHANGED err
         /\ events' = [events EXCEPT ![op] = @ + 1]
         /\ dop' = [dop EXCEPT ![r] = op]
    /\ dpc' = [dpc EXCEPT ![r] = "release"]
    /\ UNCHANGED <<planVars, ctrl, slot, mpiVars, dset>>

\* FreesOp when the operations of a persistent plan are freed too
FreesEveryOp(op) == TRUE

\* op->flag of a once_now operation: FREE_OP, and FREE_TAG for its own half
FreesOp(op)  == op[1] \in Once
FreesTag(op) == op[1] \in Once /\ op[3] = "loc"

\* the tests of op->flag, read again after the signal was updated
DaemonRelease(r) ==
    LET op == dop[r]  q == Peer(dop[r]) IN
    /\ err = "no"
    /\ dpc[r] = "release"
    /\ IF ost[op] = "freed" THEN Fail("use after free") ELSE UNCHANGED err
    /\ tags' = IF FreesTag(op)
               THEN [tags EXCEPT ![r][q] = <<TagOf(op)>> \o @] ELSE tags
    /\ ost' = IF FreesOp(op) THEN [ost EXCEPT ![op] = "freed"] ELSE ost
    /\ dset' = [dset EXCEPT ![r] = @ \ {op}]
    /\ dpc' = [dpc EXCEPT ![r] = IF dset'[r] = {} THEN "probe" ELSE "event"]
    /\ UNCHANGED <<plan, starts, tag, batch, batches, ctrl, slot,
                   posted, got, que, dop, events>>

Daemon(r) ==
    \/ \E q \in Ranks : DaemonCtrl(r, q)
    \/ \E S \in (SUBSET Completed(r)) \ {{}} : DaemonTest(r, S)
    \/ DaemonEvent(r)
    \/ DaemonRelease(r)

Next ==
    \/ \E i \in Plans : PlanCreate(i) \/ RdmaStart(i) \/ PlanStart(i) \/ PlanDestroy(i)
    \/ \E r \in Ranks : Daemon(r)

Spec == Init /\ [][Next]_vars

-----------------------------------------------------------------------------
(* Properties *)

Errors == {"no", "slot in use", "empty slot", "use after free",
           "start of an active request", "free of an active request"}
Message == [type : {"create", "start", "destroy", "execute"},
            batch : 0 .. NumIds, plan : Plans]

TypeOK ==
    /\ plan \in [Plans -> {"none", "ready", "gone"}]
    /\ starts \in [Plans -> Nat]
    /\ tag \in [Plans -> Seq(Ids)]
    /\ batch \in [Plans -> [Ranks -> 0 .. NumIds]]
    /\ tags \in [Ranks -> [Ranks -> Seq(Ids)]]
    /\ batches \in [Ranks -> [Ranks -> Seq(Ids)]]
    /\ ctrl \in [Ranks -> [Ranks -> Seq(Message)]]
    /\ slot \in [Ranks -> [Ranks -> [Ids -> Plans \cup {None}]]]
    /\ ost \in [Ops -> {"none", "idle", "active", "freed"}]
    /\ posted \in [Keys -> Seq(Ops)]
    /\ got \in [Ops -> Ops \cup {None}]
    /\ que \in [Ranks -> SUBSET Ops]
    /\ dpc \in [Ranks -> {"probe", "event", "release"}]
    /\ dset \in [Ranks -> SUBSET Ops]
    /\ dop \in [Ranks -> Ops \cup {None}]
    /\ events \in [Ops -> Nat]
    /\ err \in Errors

\* No assertion of uri_mpi_process_ctrl_msg fails, no active request is
\* started or freed, and the daemon touches no operation that was freed.
NoError == err = "no"

\* A message of this type for plan i is on its way to receiver q.
OnItsWay(i, q, type) ==
    \E n \in 1 .. Len(ctrl[Owner[i]][q]) :
        ctrl[Owner[i]][q][n].plan = i /\ ctrl[Owner[i]][q][n].type = type

\* A receiver's slot holds a plan exactly from the arrival of its create
\* message to the arrival of its destroy message, although batch ids are
\* reused before the destroy message has arrived.
BatchesAgree ==
    \A i \in Plans \ Once : \A q \in Receivers(i) :
        plan[i] # "none" =>
            (slot[q][Owner[i]][batch[i][q]] = i <=>
                /\ ~OnItsWay(i, q, "create")
                /\ plan[i] = "ready" \/ OnItsWay(i, q, "destroy"))

\* The update of this half's signal for the latest start is still owed: by a
\* message on its way, an active request or the daemon's current pass.
Owed(op) ==
    \/ op[3] = "rmt" /\ \/ OnItsWay(op[1], At(op), "start")
                        \/ OnItsWay(op[1], At(op), "execute")
    \/ ost[op] = "active"
    \/ op \in dset[At(op)] /\ ~(dpc[At(op)] = "release" /\ dop[At(op)] = op)

\* The daemon of rank r has nothing to handle: no message to receive and no
\* request that MPI can complete.
Idle(r) == /\ dpc[r] = "probe" /\ Completed(r) = {}
           /\ \A q \in Ranks : ctrl[q][r] = <<>>

\* No transfer is left half way: when no daemon has anything to handle, every
\* start has fired the signals of both sides. A daemon's step always uses up a
\* message, a request or an event, so a daemon that keeps running gets there.
Delivered == (\A r \in Ranks : Idle(r)) => \A i \in Plans : Signalled(i)
=============================================================================
