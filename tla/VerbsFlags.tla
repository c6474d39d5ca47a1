------------------------------- MODULE VerbsFlags -------------------------------
(***************************************************************************)
(* The pool that signals come from when a verbs channel is open            *)
(* (uru/type/flag.c), and the 32-bit index of a signal in its pool that    *)
(* verbs messages carry instead of its address (uri_verbs_event_fill and   *)
(* uri_verbs_event_progress of uri/verbs/uri_verbs_rdma.c), for messages   *)
(* that UnrSplit divides over verbs channels.                              *)
(*                                                                         *)
(* Every opening of a verbs channel makes a new pool and tells its address *)
(* to all ranks (`initialized` is never set): the first one at the         *)
(* statement "pool" of VerbsOpen, while the ranks are still opening; of    *)
(* the next ones only that statement is kept. The signals of applications  *)
(* are created after the last one. How messages travel is in VerbsChannel: *)
(* here an event is under way until its rank's daemon handles it. The load *)
(* and store of `counter` are one step (UnrSignal).                        *)
(***************************************************************************)
EXTENDS VerbsOpen, UnrSplit, SequencesExt

CONSTANTS
    Threads, Home,  \* application threads and their ranks
    None,
    Opens,     \* verbs channels that unr_init opens
    NumFlags,  \* URU_NUM_FLAGS
    NumEvent,  \* num_event of every signal
    Sizes,     \* sizes of messages
    MaxAlloc, MaxSend  \* bounds: signals per thread, messages

ASSUME FlagsAssumption ==
    /\ Home \in [Threads -> Ranks] /\ None \notin Threads
    /\ Opens \in Nat \ {0} /\ NumFlags \in Nat \ {0} /\ NumEvent \in Nat \ {0}
    /\ Sizes \subseteq Nat \ {0}
    /\ MaxAlloc \in Nat /\ MaxSend \in Nat

VARIABLES
    opens,   \* opens[r]: calls of init_flag_pool that have made their pool
    pool,    \* pool[r]: pools whose addresses r has got from all ranks
    base,    \* base[r][q]: rmt_base, which pool of rank q
    used, lock,          \* flag_pool->used, flag_pool->lock
    pc, mine,            \* a thread in uru_flag_pool_alloc; its signals
    counter,             \* counters of the signals in use
    sent,                \* messages so far
    net,                 \* events under way
    err

initVars == <<opens, pool, base>>
allocVars == <<used, lock, pc, mine>>
useVars == <<counter, sent, net, err>>
flagVars == <<initVars, allocVars, useVars>>
allVars == <<vars, flagVars>>

FInit ==
    /\ Init
    /\ opens = [r \in Ranks |-> 0] /\ pool = [r \in Ranks |-> 0]
    /\ base = [r \in Ranks |-> [q \in Ranks |-> 0]]
    /\ used = [r \in Ranks |-> 0] /\ lock = [r \in Ranks |-> None]
    /\ pc = [th \in Threads |-> "idle"] /\ mine = [th \in Threads |-> <<>>]
    /\ counter = <<>>
    /\ sent = 0 /\ net = {}
    /\ err = "no"

-----------------------------------------------------------------------------
(* The openings *)

\* The statements of the first one other than "pool"
Opening(r) ==
    /\ err = "no"
    /\ Create(r) \/ Connect(r) \/ (At(r) # "pool" /\ (Enter(r) \/ Leave(r)))
    /\ UNCHANGED flagVars

FirstFree == 1

\* init_flag_pool: a new pool, and this rank's part of the MPI_Allgather
InitPool(r) ==
    /\ err = "no" /\ opens[r] = pool[r] /\ opens[r] < Opens
    /\ IF Opened(r) THEN UNCHANGED vars ELSE At(r) = "pool" /\ Enter(r)
    /\ opens' = [opens EXCEPT ![r] = @ + 1]
    /\ used' = [used EXCEPT ![r] = FirstFree]
    /\ UNCHANGED <<pool, base, lock, pc, mine, counter, sent, net, err>>

\* Gather when only the first opening asks for the addresses
GatherOnce(r) ==
    /\ err = "no" /\ pool[r] < opens[r] /\ \A q \in Ranks : opens[q] >= opens[r]
    /\ IF Opened(r) THEN UNCHANGED vars ELSE Leave(r)
    /\ pool' = [pool EXCEPT ![r] = opens[r]]
    /\ base' = IF pool[r] = 0 THEN [base EXCEPT ![r] = [q \in Ranks |-> opens[r]]] ELSE base
    /\ UNCHANGED <<opens, allocVars, counter, sent, net, err>>

\* The MPI_Allgather returns: every rank has called it as often.
Gather(r) ==
    /\ err = "no" /\ pool[r] < opens[r] /\ \A q \in Ranks : opens[q] >= opens[r]
    /\ IF Opened(r) THEN UNCHANGED vars ELSE Leave(r)
    /\ pool' = [pool EXCEPT ![r] = opens[r]]
    /\ base' = [base EXCEPT ![r] = [q \in Ranks |-> opens[r]]]
    /\ UNCHANGED <<opens, allocVars, counter, sent, net, err>>

\* unr_init has opened all channels.
InitDone(r) == Opened(r) /\ pool[r] = Opens

-----------------------------------------------------------------------------
(* uru_flag_pool_alloc. A signal is named by its rank, pool and index. *)

\* AllocLock when it does not wait for the lock
AllocLockFree(th) ==
    /\ err = "no" /\ InitDone(Home[th]) /\ pc[th] = "idle" /\ Len(mine[th]) < MaxAlloc
    /\ pc' = [pc EXCEPT ![th] = "take"]
    /\ UNCHANGED <<vars, initVars, used, lock, mine, counter, sent, net, err>>

AllocLock(th) ==
    LET r == Home[th] IN
    /\ err = "no" /\ InitDone(r) /\ pc[th] = "idle" /\ Len(mine[th]) < MaxAlloc
    /\ lock[r] = None
    /\ lock' = [lock EXCEPT ![r] = th]
    /\ pc' = [pc EXCEPT ![th] = "take"]
    /\ UNCHANGED <<vars, initVars, used, mine, counter, sent, net, err>>

Flag(r, i) == <<r, pool[r], i>>

UsedUp(r) == used[r] = NumFlags

\* The process exits, with the lock held, when the pool is used up.
AllocTake(th) ==
    LET r == Home[th] IN
    /\ err = "no" /\ pc[th] = "take"
    /\ IF UsedUp(r)
       THEN err' = "full" /\ UNCHANGED <<mine, pc>>
       ELSE /\ mine' = [mine EXCEPT ![th] = Append(@, Flag(r, used[r]))]
            /\ pc' = [pc EXCEPT ![th] = "count"]
            /\ UNCHANGED err
    /\ UNCHANGED <<vars, initVars, used, lock, counter, sent, net>>

\* used++, the unlock, and unr_sig_create sets the counter.
AllocCount(th) ==
    LET r == Home[th] IN
    /\ err = "no" /\ pc[th] = "count"
    /\ used' = [used EXCEPT ![r] = @ + 1]
    /\ lock' = [lock EXCEPT ![r] = None]
    /\ pc' = [pc EXCEPT ![th] = "idle"]
    /\ counter' = [f \in DOMAIN counter \cup {Last(mine[th])} |->
                      IF f = Last(mine[th]) THEN NumEvent ELSE counter[f]]
    /\ UNCHANGED <<vars, initVars, mine, sent, net, err>>

-----------------------------------------------------------------------------
(* Messages and their events *)

\* uri_verbs_event_fill: the assertions hold
Fits(r, q, f, add) == add = -1 /\ f[1] = q /\ f[2] = base[r][q]

\* the index; 0 stands for no signal
Index(f) == IF f = None THEN 0 ELSE f[3]

\* Messages that have not yet been sent to a signal.
Expected(f) == counter[f] - Cardinality({e \in net : e.flag = f})

\* A message of rank r to rank q with a signal on each side or None. The parts
\* of the division travel by one verbs channel each; each end of each part
\* carries an event.
Send(r, q, lf, rf, sz) ==
    LET parts == DivSize("inter", sz, 0)
        add   == SigAddArr(parts)
        used_ == {j \in DOMAIN parts : parts[j] # 0}
        event(j, to, f) == [at |-> to, idx |-> Index(f), flag |-> f, msg |-> sent, part |-> j]
    IN
    /\ err = "no" /\ InitDone(r) /\ sent < MaxSend
    /\ sent' = sent + 1
    /\ IF \A j \in used_ : /\ lf # None => Fits(r, r, lf, add[j])
                           /\ rf # None => Fits(r, q, rf, add[j])
       THEN /\ net' = net \cup {event(j, r, lf) : j \in {k \in used_ : lf # None}}
                          \cup {event(j, q, rf) : j \in {k \in used_ : rf # None}}
            /\ UNCHANGED err
       ELSE err' = "assert" /\ UNCHANGED net
    /\ UNCHANGED <<vars, initVars, allocVars, counter>>

\* The flag an index stands for, on rank r.
Decoded(r, i) == <<r, base[r][r], i>>

\* uri_verbs_event_progress
Progress(e) ==
    /\ err = "no"
    /\ net' = net \ {e}
    /\ counter' = IF e.idx = 0 THEN counter
                  ELSE [counter EXCEPT ![Decoded(e.at, e.idx)] = @ - 1]
    /\ UNCHANGED <<vars, initVars, allocVars, sent, err>>

Signals(r) == {f \in DOMAIN counter : f[1] = r}

OpenStep == \E r \in Ranks : Opening(r) \/ InitPool(r) \/ Gather(r)

FNext ==
    \/ OpenStep
    \/ \E th \in Threads : AllocLock(th) \/ AllocTake(th) \/ AllocCount(th)
    \/ \E r, q \in Ranks, sz \in Sizes :
         \E lf \in Signals(r) \cup {None}, rf \in Signals(q) \cup {None} :
            /\ \A f \in {lf, rf} \ {None} : Expected(f) > 0
            /\ lf # rf
            /\ Send(r, q, lf, rf, sz)
    \/ \E e \in net : Progress(e)

\* Every rank calls unr_init.
FSpec == FInit /\ [][FNext]_allVars /\ WF_allVars(OpenStep)

-----------------------------------------------------------------------------
(* Properties *)

\* Two threads never get the same signal.
SignalsApart ==
    \A s, t \in Threads : \A i \in DOMAIN mine[s], j \in DOMAIN mine[t] :
        mine[s][i] = mine[t][j] => s = t /\ i = j

\* The pool is reported full only when its entries but the reserved one are
\* all in use.
FullWhenFull ==
    err = "full" => \E r \in Ranks : Cardinality(Signals(r)) = NumFlags - 1

\* The pool gives each of its entries to one signal, and all of them.
SignalsExact == SignalsApart /\ FullWhenFull

\* Every event under way names the signal that the sender meant, on the rank
\* that handles it, and is never taken for an event without a signal; the
\* assertions of uri_verbs_event_fill, which look for that, hold.
RightSignal ==
    /\ err # "assert"
    /\ \A e \in net : e.idx # 0 /\ Decoded(e.at, e.idx) = e.flag
=============================================================================
