------------------------------ MODULE MpiTransfer ------------------------------
(* MpiChannel implements Transfer: the mapping of its state. *)
EXTENDS MpiChannel

TransferOf(op) == <<op[1], op[2]>>
Transfers == {TransferOf(op) : op \in Ops}
Ends == {<<TransferOf(op), op[3]>> : op \in Ops}
OpOf(e) == <<e[1][1], e[1][2], e[2]>>
RecvEnds == {e \in Ends : ~IsSend(OpOf(e))}
Receiver(t) == CHOOSE op \in Ops : TransferOf(op) = t /\ ~IsSend(op)

\* Data has arrived when MPI has matched the receive of this start with the
\* send of the same transfer, also before the daemon finds it complete.
\* The daemon may still hold the operation of the previous start.
Current(op) ==
    \/ ost[op] = "active"
    \/ op \in dset[At(op)] /\ ~(dpc[At(op)] = "release" /\ dop[At(op)] = op)
Arrived(op) == Owed(op) => Current(op) /\ got[op] = Partner(op)

Contract == INSTANCE Transfer WITH
    starts <- [t \in Transfers |-> starts[t[1]]],
    moved  <- [t \in Transfers |->
                 starts[t[1]] - IF Arrived(Receiver(t)) THEN 0 ELSE 1],
    events <- [e \in Ends |-> events[OpOf(e)]]

-----------------------------------------------------------------------------
\* The MPI channel moves the data of every start once, tells the receiving end
\* only when the data is there, and tells each end exactly once.
ImplementsTransfer == Contract!Safety
=============================================================================
