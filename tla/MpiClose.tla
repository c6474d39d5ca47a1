------------------------------- MODULE MpiClose -------------------------------
(***************************************************************************)
(* unr_finalize (unr/base/unr_channel.c) and uri_mpi_channel_close         *)
(* (uri/mpi/uri_mpi_channel.c) on top of MpiChannel: the ranks meet in a   *)
(* barrier, each stops its daemon thread, and then all of them run the     *)
(* daemon's pass by hand until no rank has a request in its array. What is *)
(* still on its way when the communicators are freed is lost.              *)
(*                                                                         *)
(* A control message is in its sender's array until MPI has sent it, which *)
(* says nothing about its receipt.                                         *)
(***************************************************************************)
EXTENDS MpiChannel

VARIABLES
    cp,    \* where a rank is between unr_finalize and MPI_Comm_free
    sends, \* sends[r]: the array of r holds requests of control messages
    smp,   \* self_arr_tail > 0
    most   \* max_arr_tail > 0

closeVars == <<cp, sends, smp, most>>
allVars == <<vars, closeVars>>

CInit ==
    /\ Init
    /\ cp = [r \in Ranks |-> "run"]
    /\ sends = [r \in Ranks |-> FALSE]
    /\ smp = [r \in Ranks |-> FALSE]
    /\ most = [r \in Ranks |-> FALSE]

Go(r, place) == cp' = [cp EXCEPT ![r] = place]

-----------------------------------------------------------------------------
(* The application; a call's control messages enter the array with it. *)

App(i) ==
    /\ cp[Owner[i]] = "run"
    /\ PlanCreate(i) \/ RdmaStart(i) \/ PlanStart(i) \/ PlanDestroy(i)
    /\ sends' = [sends EXCEPT ![Owner[i]] = TRUE]
    /\ UNCHANGED <<cp, smp, most>>

\* unr_finalize: MPI_Barrier, twice. The application need not have waited for
\* the signals of its transfers.
Finalize(r) ==
    /\ cp[r] = "run"
    /\ Go(r, "barrier")
    /\ UNCHANGED <<vars, sends, smp, most>>

\* Every rank has reached the barrier: daemon_thread_continue = 0. A daemon
\* that is past its test has only the rest of its pass to do.
Leave(r) ==
    /\ cp[r] = "barrier" /\ \A q \in Ranks : cp[q] # "run"
    /\ Go(r, IF dpc[r] = "probe" THEN "stop" ELSE "stopping")
    /\ UNCHANGED <<vars, sends, smp, most>>

\* uri_mpi_req_t.arr_tail > 0
Pending(r) == que[r] # {} \/ sends[r]

\* daemon_thread_running is 0 and uri_mpi_channel_close starts.
Stopped(r) ==
    /\ err = "no" /\ cp[r] \in {"stop", "stopping"} /\ dpc[r] = "probe"
    /\ smp' = [smp EXCEPT ![r] = Pending(r)]
    /\ Go(r, "reduce")
    /\ UNCHANGED <<vars, sends, most>>

-----------------------------------------------------------------------------
(* The daemon's pass, in its thread or called by uri_mpi_channel_close *)

\* Where the control messages are probed for.
Probing == {"run", "barrier", "stop", "probe"}

\* A pass that is the last of the daemon thread, or one of the close, goes on
\* to its end after the test.
Tested(place) == IF place = "stop" THEN "stopping" ELSE IF place = "probe" THEN "tested" ELSE place

Ctrl(r, q) ==
    /\ cp[r] \in Probing
    /\ DaemonCtrl(r, q)
    /\ UNCHANGED closeVars

Test(r, S) ==
    /\ cp[r] \in Probing
    /\ DaemonTest(r, S)
    /\ Go(r, Tested(cp[r]))
    /\ UNCHANGED <<sends, smp, most>>

Signal(r) == (DaemonEvent(r) \/ DaemonRelease(r)) /\ UNCHANGED closeVars

\* MPI_Testsome finds the control messages of r sent.
CtrlSent(r) ==
    /\ err = "no" /\ cp[r] \in Probing /\ dpc[r] = "probe" /\ sends[r]
    /\ sends' = [sends EXCEPT ![r] = FALSE]
    /\ UNCHANGED <<vars, cp, smp, most>>

\* MPI_Testsome finds nothing more (in a pass of the close).
TestNone(r) ==
    /\ err = "no" /\ cp[r] = "probe" /\ dpc[r] = "probe"
    /\ Go(r, "tested")
    /\ UNCHANGED <<vars, sends, smp, most>>

-----------------------------------------------------------------------------
(* uri_mpi_channel_close *)

\* Reduced when a rank looks at its own array only
ReducedOwn(r) == smp[r]

\* MPI_Allreduce with MPI_MAX
Reduced(r) == \E q \in Ranks : smp[q]

AllReduce ==
    /\ \A r \in Ranks : cp[r] = "reduce"
    /\ most' = [r \in Ranks |-> Reduced(r)]
    /\ cp' = [r \in Ranks |-> "probe"]
    /\ UNCHANGED <<vars, sends, smp>>

\* PassEnd when the array is not looked at again
PassEndNoSample(r) ==
    /\ err = "no" /\ cp[r] = "tested" /\ dpc[r] = "probe"
    /\ Go(r, IF most[r] THEN "reduce" ELSE "closed")
    /\ UNCHANGED <<vars, sends, smp, most>>

\* the end of the loop's body; MPI_Comm_free after the last one
PassEnd(r) ==
    /\ err = "no" /\ cp[r] = "tested" /\ dpc[r] = "probe"
    /\ smp' = [smp EXCEPT ![r] = Pending(r)]
    /\ Go(r, IF most[r] THEN "reduce" ELSE "closed")
    /\ UNCHANGED <<vars, sends, most>>

\* The steps of unr_finalize on rank r that wait for nobody else's call
Main(r) == Leave(r) \/ Stopped(r) \/ TestNone(r) \/ PassEnd(r)

CNext ==
    \/ \E i \in Plans : App(i)
    \/ \E r \in Ranks :
         \/ Finalize(r) \/ Main(r)
         \/ \E q \in Ranks : Ctrl(r, q)
         \/ \E S \in (SUBSET Completed(r)) \ {{}} : Test(r, S)
         \/ Signal(r) \/ CtrlSent(r)
    \/ AllReduce

\* Threads run. MPI_Iprobe and MPI_Testsome may miss a message or a completed
\* request, but not for ever. No application has to call anything.
CFairness ==
    /\ WF_allVars(AllReduce)
    /\ \A r \in Ranks :
         /\ WF_allVars(Main(r)) /\ WF_allVars(Signal(r)) /\ SF_allVars(CtrlSent(r))
         /\ SF_allVars(\E S \in (SUBSET Completed(r)) \ {{}} : Test(r, S))
         /\ SF_allVars(\E q \in Ranks : Ctrl(r, q))

CSpec == CInit /\ [][CNext]_allVars /\ CFairness

-----------------------------------------------------------------------------
(* Properties *)

Closed(r) == cp[r] = "closed"
IsGet(op) == Wrts[op[1]][op[2]].dma = "get"

\* "Make sure all the messages are sent" (uri_mpi_channel.c:303): a rank that
\* frees its communicators has no send in its array, although a control message
\* that asks it to send may arrive in its very last pass.
AllSent == \A r \in Ranks : Closed(r) => \A op \in que[r] : ~IsSend(op)

\* No rank is left with a receive that waits for a rank which has freed its
\* communicators without sending.
NoOrphan ==
    \A op \in Ops : Closed(Peer(op)) /\ op \in que[At(op)] /\ ~IsSend(op) => got[op] # None

\* What a rank has started is finished on its own side when it has closed its
\* channel, and a get on the other side too: only the receiving half of a put
\* may be left undone.
OwnDone ==
    \A op \in Ops : Closed(Owner[op[1]]) /\ (op[3] = "loc" \/ IsGet(op)) =>
        events[op] = starts[op[1]]

\* What uri_mpi_channel_close leaves when it frees its communicators.
CleanClose == AllSent /\ NoOrphan /\ OwnDone

\* unr_finalize returns on every rank once all ranks have called it.
AllClose ==
    (\A r \in Ranks : cp[r] # "run") ~> (\A r \in Ranks : Closed(r))
=============================================================================
