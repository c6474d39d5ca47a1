---------------------------- MODULE VerbsChannel ----------------------------
(* The channel of UNR on ibverbs. A process has one queue pair per peer, one *)
(* shared receive queue (SRQ) and one completion queue. Application threads   *)
(* post the work requests of their plans under send_lock; req_submit and      *)
(* req_finish count them per peer, so that a send queue of Depth entries is   *)
(* never overrun. The daemon thread polls completions and turns them into     *)
(* signal events; for a GET with a remote signal it also posts a notification *)
(* to the peer, without the lock and without looking for space, in an entry   *)
(* that the application thread has counted beforehand.                        *)
(* The network interface is external: a queue pair executes its requests in   *)
(* order, and an entry stays in use until its completion is polled.           *)
EXTENDS Integers, Sequences, FiniteSets

CONSTANTS
    Ranks,
    Threads,   \* application threads, each with a plan of its own
    Home,      \* the rank of a thread
    Wrts,      \* Wrts[th]: the work requests of the plan of thread th
    Once,      \* threads whose plan is created with once_now
    Depth,     \* VERBS_OUTSTANDING_SEND_REQUESTS
    SrqDepth,  \* dev_attr.max_srq_wr
    MaxStart,  \* bound: starts of a plan
    None

Wrt == [dst : Ranks, dma : {"put", "get"}, loc : BOOLEAN, rmt : BOOLEAN]

\* a transfer: the k-th work request of the plan of a thread
Transfers == UNION {{<<th, k>> : k \in DOMAIN Wrts[th]} : th \in Threads}
W(t) == Wrts[t[1]][t[2]]

ASSUME VerbsAssumption ==
    /\ Home \in [Threads -> Ranks] /\ Wrts \in [Threads -> Seq(Wrt)]
    /\ Once \subseteq Threads
    /\ Depth \in Nat \ {0} /\ SrqDepth \in Nat \ {0} /\ MaxStart \in Nat \ {0}
    /\ None \notin Threads \cup Transfers

VARIABLES
    plan,    \* "none", "ready" or "gone"
    starts,  \* how often the plan was started
    pc, at,  \* the thread's place in uri_verbs_rdma_plan_start, and i
    lock,    \* holder of send_lock
    submit, finish,  \* req_submit and req_finish
    sq,      \* requests the interface has not executed, per queue pair
    used,    \* entries of the send queue in use
    srq,     \* receive requests in the SRQ
    cq,      \* the completion queue
    batch, numWr, note,  \* daemon: wc, num_wr, the notification to post next
    events,  \* how often the signal of a half of a transfer was updated
    err

appVars == <<plan, starts, pc, at, lock, submit>>
nicVars == <<sq, used, srq, cq>>
dmnVars == <<finish, batch, numWr, note, events>>
vars == <<appVars, nicVars, dmnVars, err>>

Init ==
    /\ plan = [th \in Threads |-> "none"] /\ starts = [th \in Threads |-> 0]
    /\ pc = [th \in Threads |-> "idle"] /\ at = [th \in Threads |-> 1]
    /\ lock = [r \in Ranks |-> None]
    /\ submit = [r \in Ranks |-> [q \in Ranks |-> 0]]
    /\ finish = [r \in Ranks |-> [q \in Ranks |-> 0]]
    /\ sq = [r \in Ranks |-> [q \in Ranks |-> <<>>]]
    /\ used = [r \in Ranks |-> [q \in Ranks |-> 0]]
    /\ srq = [r \in Ranks |-> SrqDepth]
    /\ cq = [r \in Ranks |-> <<>>] /\ batch = [r \in Ranks |-> <<>>]
    /\ numWr = [r \in Ranks |-> 0] /\ note = [r \in Ranks |-> None]
    /\ events = [t \in Transfers |-> [loc |-> 0, rmt |-> 0]]
    /\ err = "no"

-----------------------------------------------------------------------------
(* Work requests and posting *)

\* Opcode when immediate data is used for every remote signal
OpcodeAlwaysImm(w) == IF w.rmt THEN "imm" ELSE IF w.dma = "get" THEN "read" ELSE "write"

\* The opcode of a transfer: a PUT carries its remote signal as immediate
\* data; a GET keeps it in wr_id for the notification.
Opcode(w) == IF w.dma = "get" THEN "read" ELSE IF w.rmt THEN "imm" ELSE "write"

\* a GET is followed by a notification when it has a remote signal
Notifies(w) == w.dma = "get" /\ w.rmt

\* ibv_post_send fails when the send queue is full, and verbs_check exits.
\* wrid names the transfer whose local signal the completion updates, imm the
\* one whose remote signal the peer updates.
Post(r, q, op, wrid, imm) ==
    /\ IF used[r][q] >= Depth THEN err' = "send queue full" ELSE UNCHANGED err
    /\ sq' = [sq EXCEPT ![r][q] = Append(@, [op |-> op, wrid |-> wrid, imm |-> imm])]
    /\ used' = [used EXCEPT ![r][q] = @ + 1]

-----------------------------------------------------------------------------
(* An application thread *)

\* uri_verbs_rdma_plan_create; once_now goes straight on to the start
PlanCreate(th) ==
    /\ err = "no" /\ plan[th] = "none"
    /\ plan' = [plan EXCEPT ![th] = "ready"]
    /\ IF th \in Once
       THEN /\ starts' = [starts EXCEPT ![th] = 1]
            /\ pc' = [pc EXCEPT ![th] = "lock"]
       ELSE UNCHANGED <<starts, pc>>
    /\ UNCHANGED <<at, lock, submit, nicVars, dmnVars, err>>

\* The application calls uri_verbs_rdma_plan_start. It may do so again before
\* the transfers of the previous start have completed.
PlanStart(th) ==
    /\ err = "no" /\ plan[th] = "ready" /\ pc[th] = "idle"
    /\ th \notin Once /\ starts[th] < MaxStart
    /\ starts' = [starts EXCEPT ![th] = @ + 1]
    /\ pc' = [pc EXCEPT ![th] = "lock"]
    /\ UNCHANGED <<plan, at, lock, submit, nicVars, dmnVars, err>>

StartLock(th) ==
    /\ err = "no" /\ pc[th] = "lock" /\ lock[Home[th]] = None
    /\ lock' = [lock EXCEPT ![Home[th]] = th]
    /\ at' = [at EXCEPT ![th] = 1]
    /\ pc' = [pc EXCEPT ![th] = "check"]
    /\ UNCHANGED <<plan, starts, submit, nicVars, dmnVars, err>>

\* requests counted and not finished, as the thread sees them
Outstanding(r, q) == submit[r][q] - finish[r][q]

\* the condition that ends the wait for space
HasSpace(r, q) == Outstanding(r, q) <= Depth - 1

\* The wait for space has ended: ibv_post_send. The loop asserts that
\* req_finish has not overtaken req_submit.
PostSend(th) ==
    LET r == Home[th]  t == <<th, at[th]>> IN
    /\ err = "no" /\ pc[th] = "check" /\ at[th] <= Len(Wrts[th])
    /\ IF submit[r][W(t).dst] < finish[r][W(t).dst]
       THEN err' = "assert" /\ UNCHANGED <<sq, used, pc>>
       ELSE /\ HasSpace(r, W(t).dst)
            /\ Post(r, W(t).dst, Opcode(W(t)), t, t)
            /\ pc' = [pc EXCEPT ![th] = "count"]
    /\ UNCHANGED <<plan, starts, at, lock, submit, srq, cq, dmnVars>>

\* The send queue stays full for ten seconds.
SpaceTimeout(th) ==
    LET r == Home[th]  t == <<th, at[th]>> IN
    /\ err = "no" /\ pc[th] = "check" /\ at[th] <= Len(Wrts[th])
    /\ ~HasSpace(r, W(t).dst)
    /\ err' = "timeout"
    /\ UNCHANGED <<appVars, nicVars, dmnVars>>

\* Charge when the notification is not counted
ChargeOne(w) == 1

\* entries a request accounts for: another one for its notification
Charge(w) == IF Notifies(w) THEN 2 ELSE 1

CountSubmit(th) ==
    LET r == Home[th]  w == W(<<th, at[th]>>) IN
    /\ err = "no" /\ pc[th] = "count"
    /\ submit' = [submit EXCEPT ![r][w.dst] = @ + Charge(w)]
    /\ at' = [at EXCEPT ![th] = @ + 1]
    /\ pc' = [pc EXCEPT ![th] = "check"]
    /\ UNCHANGED <<plan, starts, lock, nicVars, dmnVars, err>>

\* the end of the loop; a once_now plan is destroyed
StartUnlock(th) ==
    /\ err = "no" /\ pc[th] = "check" /\ at[th] > Len(Wrts[th])
    /\ lock' = [lock EXCEPT ![Home[th]] = None]
    /\ pc' = [pc EXCEPT ![th] = "idle"]
    /\ plan' = IF th \in Once THEN [plan EXCEPT ![th] = "gone"] ELSE plan
    /\ UNCHANGED <<starts, at, submit, nicVars, dmnVars, err>>

\* uri_verbs_rdma_plan_destroy: the interface has copied the work requests,
\* so nothing is waited for.
PlanDestroy(th) ==
    /\ err = "no" /\ plan[th] = "ready" /\ pc[th] = "idle"
    /\ plan' = [plan EXCEPT ![th] = "gone"]
    /\ UNCHANGED <<starts, pc, at, lock, submit, nicVars, dmnVars, err>>

-----------------------------------------------------------------------------
(* The network interface *)

\* The queue pair from r to q executes its oldest request; a request with
\* immediate data takes a receive request from the SRQ of q. Without one the
\* request fails at once (rnr_retry is 0) and the sender's daemon exits.
Execute(r, q) ==
    LET wr == Head(sq[r][q])
        sent == [kind |-> IF wr.op = "read" THEN "read" ELSE "write", peer |-> q, t |-> wr.wrid]
        recv == [kind |-> "recv", peer |-> r, t |-> wr.imm]
    IN
    /\ err = "no" /\ sq[r][q] # <<>>
    /\ sq' = [sq EXCEPT ![r][q] = Tail(@)]
    /\ IF wr.op # "imm"
       THEN /\ cq' = [cq EXCEPT ![r] = Append(@, sent)]
            /\ UNCHANGED <<srq, err>>
       ELSE IF srq[q] = 0
       THEN err' = "rnr" /\ UNCHANGED <<srq, cq>>
       ELSE /\ cq' = IF q = r THEN [cq EXCEPT ![r] = @ \o <<recv, sent>>]
                     ELSE [cq EXCEPT ![r] = Append(@, sent), ![q] = Append(@, recv)]
            /\ srq' = [srq EXCEPT ![q] = @ - 1]
            /\ UNCHANGED err
    /\ UNCHANGED <<appVars, used, dmnVars>>

-----------------------------------------------------------------------------
(* The daemon thread of rank r *)

Polled(r, q) == Cardinality({i \in DOMAIN cq[r] : cq[r][i].peer = q /\ cq[r][i].kind # "recv"})

\* ibv_poll_cq takes all completions there are and frees their send entries
Poll(r) ==
    /\ err = "no" /\ batch[r] = <<>> /\ numWr[r] = 0 /\ note[r] = None
    /\ cq[r] # <<>>
    /\ batch' = [batch EXCEPT ![r] = cq[r]]
    /\ cq' = [cq EXCEPT ![r] = <<>>]
    /\ used' = [used EXCEPT ![r] = [q \in Ranks |-> @[q] - Polled(r, q)]]
    /\ UNCHANGED <<appVars, sq, srq, finish, numWr, note, events, err>>

\* uri_verbs_event_progress; flag_p32 is 0 when there is no signal, as in the
\* wr_id of a notification.
Progress(wc) ==
    IF wc.kind = "recv"
    THEN events' = [events EXCEPT ![wc.t].rmt = @ + 1]
    ELSE IF wc.t # None /\ W(wc.t).loc
    THEN events' = [events EXCEPT ![wc.t].loc = @ + 1]
    ELSE UNCHANGED events

HandleWrite(r, wc) ==
    /\ wc.kind = "write"
    /\ finish' = [finish EXCEPT ![r][wc.peer] = @ + 1]
    /\ UNCHANGED <<numWr, note>>

\* HandleRecv when the receive request is not counted
HandleRecvUncounted(r, wc) ==
    /\ wc.kind = "recv"
    /\ UNCHANGED <<finish, numWr, note>>

HandleRecv(r, wc) ==
    /\ wc.kind = "recv"
    /\ numWr' = [numWr EXCEPT ![r] = @ + 1]
    /\ UNCHANGED <<finish, note>>

\* HandleRead when the peer is not told
HandleReadSilent(r, wc) ==
    /\ wc.kind = "read"
    /\ finish' = [finish EXCEPT ![r][wc.peer] = @ + 1]
    /\ UNCHANGED <<numWr, note>>

HandleRead(r, wc) ==
    /\ wc.kind = "read"
    /\ finish' = [finish EXCEPT ![r][wc.peer] = @ + 1]
    /\ note' = [note EXCEPT ![r] = IF Notifies(W(wc.t)) THEN wc.t ELSE None]
    /\ UNCHANGED numWr

\* one turn of the loop over the completions
Handle(r) ==
    LET wc == Head(batch[r]) IN
    /\ err = "no" /\ note[r] = None /\ batch[r] # <<>>
    /\ batch' = [batch EXCEPT ![r] = Tail(@)]
    /\ Progress(wc)
    /\ HandleWrite(r, wc) \/ HandleRecv(r, wc) \/ HandleRead(r, wc)
    /\ UNCHANGED <<appVars, nicVars, err>>

\* Notify when it keeps the wr_id of the GET
NotifyKeepsId(r) ==
    /\ err = "no" /\ note[r] # None
    /\ Post(r, W(note[r]).dst, "imm", note[r], note[r])
    /\ note' = [note EXCEPT ![r] = None]
    /\ UNCHANGED <<appVars, srq, cq, finish, batch, numWr, events>>

\* uri_verbs_send_rmt_complete, after the local signal of the GET: the
\* application may have posted again in between.
Notify(r) ==
    /\ err = "no" /\ note[r] # None
    /\ Post(r, W(note[r]).dst, "imm", None, note[r])
    /\ note' = [note EXCEPT ![r] = None]
    /\ UNCHANGED <<appVars, srq, cq, finish, batch, numWr, events>>

\* ibv_post_srq_recv, once per batch
Repost(r) ==
    /\ err = "no" /\ batch[r] = <<>> /\ note[r] = None /\ numWr[r] > 0
    /\ srq' = [srq EXCEPT ![r] = @ + numWr[r]]
    /\ numWr' = [numWr EXCEPT ![r] = 0]
    /\ UNCHANGED <<appVars, sq, used, cq, finish, batch, note, events, err>>

-----------------------------------------------------------------------------
Next ==
    \/ \E th \in Threads :
         \/ PlanCreate(th) \/ PlanStart(th) \/ PlanDestroy(th)
         \/ StartLock(th) \/ PostSend(th) \/ SpaceTimeout(th)
         \/ CountSubmit(th) \/ StartUnlock(th)
    \/ \E r, q \in Ranks : Execute(r, q)
    \/ \E r \in Ranks : Poll(r) \/ Handle(r) \/ Notify(r) \/ Repost(r)

Spec == Init /\ [][Next]_vars

-----------------------------------------------------------------------------
(* Properties *)

WorkRequest == [op : {"write", "imm", "read"}, wrid : Transfers \cup {None}, imm : Transfers]
Completion == [kind : {"write", "read", "recv"}, peer : Ranks, t : Transfers \cup {None}]

TypeOK ==
    /\ plan \in [Threads -> {"none", "ready", "gone"}]
    /\ starts \in [Threads -> 0 .. MaxStart]
    /\ pc \in [Threads -> {"idle", "lock", "check", "count"}] /\ at \in [Threads -> Nat]
    /\ lock \in [Ranks -> Threads \cup {None}]
    /\ submit \in [Ranks -> [Ranks -> Nat]] /\ finish \in [Ranks -> [Ranks -> Nat]]
    /\ sq \in [Ranks -> [Ranks -> Seq(WorkRequest)]]
    /\ used \in [Ranks -> [Ranks -> 0 .. Depth]]
    /\ srq \in [Ranks -> 0 .. SrqDepth]
    /\ cq \in [Ranks -> Seq(Completion)] /\ batch \in [Ranks -> Seq(Completion)]
    /\ numWr \in [Ranks -> Nat] /\ note \in [Ranks -> Transfers \cup {None}]
    /\ events \in [Transfers -> [loc : Nat, rmt : Nat]]
    /\ err \in {"no", "send queue full", "assert", "timeout", "rnr"}

\* The counters keep every send queue within its depth: ibv_post_send never
\* fails, not even for the notifications that the daemon posts unchecked
\* between an application thread's test and its post.
PostFits == err # "send queue full"

\* The assertion req_submit >= req_finish of uri_verbs_rdma_plan_start holds,
\* although a request may complete before it has been counted.
CountersOrdered == err # "assert"

\* Receive requests are conserved: those missing from the SRQ are completions
\* the daemon has not handled or not reposted yet. So the interface finds the
\* SRQ empty only when the receiver is SrqDepth messages behind.
Behind(s) == Cardinality({i \in DOMAIN s : s[i].kind = "recv"})
SrqExact == \A r \in Ranks : srq[r] + Behind(cq[r]) + Behind(batch[r]) + numWr[r] = SrqDepth

\* The owner of the buffer that a GET reads is told so only after the data has
\* arrived: no remote event is ahead of the local ones.
ToldAfterRead ==
    \A t \in Transfers : Notifies(W(t)) /\ W(t).loc => events[t].rmt <= events[t].loc
=============================================================================
