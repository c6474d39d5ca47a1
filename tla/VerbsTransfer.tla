----------------------------- MODULE VerbsTransfer -----------------------------
(* VerbsChannel implements Transfer: the mapping, and the fairness under which *)
(* it completes what it starts.                                               *)
EXTENDS VerbsChannel

Ends == {<<t, "loc">> : t \in {u \in Transfers : W(u).loc}}
            \cup {<<t, "rmt">> : t \in {u \in Transfers : W(u).rmt}}
RecvEnds == {e \in Ends : (W(e[1]).dma = "get") = (e[2] = "loc")}

\* How often a transfer was handed to the interface: all starts but the last,
\* and that one too when the loop over the plan has passed it.
Posted(t) ==
    LET th == t[1] IN
    IF starts[th] = 0 THEN 0
    ELSE IF \/ pc[th] = "idle"
            \/ pc[th] \in {"check", "count"} /\ at[th] > t[2]
            \/ pc[th] = "count" /\ at[th] = t[2]
    THEN starts[th] ELSE starts[th] - 1

\* Its requests that the queue pair has not executed.
Queued(t) ==
    LET s == sq[Home[t[1]]][W(t).dst] IN
    Cardinality({i \in DOMAIN s : s[i].wrid = t /\ s[i].op = Opcode(W(t))})

Contract == INSTANCE Transfer WITH
    starts <- [t \in Transfers |-> starts[t[1]]],
    moved  <- [t \in Transfers |-> Posted(t) - Queued(t)],
    events <- [e \in Ends |-> events[e[1]][e[2]]]

Thread(th) == StartLock(th) \/ PostSend(th) \/ CountSubmit(th) \/ StartUnlock(th)
DaemonStep(r) == Poll(r) \/ Handle(r) \/ Notify(r) \/ Repost(r)

\* Threads run, the lock is granted to some thread that waits again and again,
\* and the interface executes what it is given.
Fairness ==
    /\ \A th \in Threads : SF_vars(Thread(th))
    /\ \A r \in Ranks : WF_vars(DaemonStep(r))
    /\ \A r, q \in Ranks : WF_vars(Execute(r, q))

FairSpec == Spec /\ Fairness

-----------------------------------------------------------------------------
\* The verbs channel tells the end that receives the data only after the data
\* is there: for a put by the order of a queue pair, for a get because its
\* completion comes first.
ImplementsTransfer == Contract!Safety

\* Unless the program exits, what is started is moved and signalled: a
\* notification is never lost or kept back by a full send queue.
CompletesOrExits == <>(err # "no") \/ Contract!Liveness
=============================================================================
