------------------------------ MODULE UnrSignal ------------------------------
(***************************************************************************)
(* Signals and signal pools of one UNR process (unr/base/unr_sig.c), the   *)
(* part of the daemon thread that applies an event to a signal             *)
(* (uri/mpi/uri_mpi_channel.c, lines 233-242) and the increments a message *)
(* carries when it is divided over several channels (unr/base/unr_blk.c,   *)
(* lines 360-394).                                                         *)
(*                                                                         *)
(* Three actors run concurrently: the peers, which start messages towards  *)
(* the signals; the daemon thread, which applies arrived parts one at a    *)
(* time with a non-atomic `counter += flag_add`; and the application       *)
(* thread, which creates, polls, resets and pools signals without a lock.  *)
(* The pool's ring (uru_queue_t) is the FIFO sequence that module UruQueue *)
(* shows it to be. The pool keeps pointers into the caller's array of      *)
(* signals (unr_sig.c:81), so the caller has to keep the array as it is    *)
(* for as long as it uses the pool: PoolSeq does not change.               *)
(*                                                                         *)
(* The application follows the library's usage rules: a signal receives at *)
(* most num_event messages between two re-arms, and (unr.h, lines 137-146) *)
(* a signal is either ONLY checked or ONLY detected through a pool.        *)
(***************************************************************************)
EXTENDS Integers, Sequences, FiniteSets

CONSTANTS
    Sigs,         \* the signals of this process
    NoSig,        \* no signal
    NumEvent,     \* NumEvent[s]: num_event given to unr_sig_create
    Msgs,         \* identities of messages that can be under way at once
    NumChannels,  \* num_channels: a message has at most this many parts
    Divided,      \* the signals whose messages are long enough to be divided
    W,            \* 2^32: weight of the sub-message count in the counter
    PoolSeq,      \* sig_h_arr of unr_sig_pool_create
    PoolFirst     \* peers use a pooled signal only once the pool exists

\* num_event < 2^31, the bound unr_sig_create means to check
ASSUME WordAssumption ==
    /\ W \in Nat
    /\ NumEvent \in [Sigs -> Nat \ {0}]
    /\ \A s \in Sigs : 2 * NumEvent[s] < W

ASSUME SizeAssumption ==
    /\ NoSig \notin Sigs
    /\ IsFiniteSet(Msgs)
    /\ NumChannels \in Nat \ {0}
    /\ Divided \subseteq Sigs

\* unr_sig_pool_create asserts that no signal is pooled twice
ASSUME PoolAssumption ==
    /\ PoolSeq \in Seq(Sigs)
    /\ \A i, j \in 1 .. Len(PoolSeq) : PoolSeq[i] = PoolSeq[j] => i = j

ASSUME OrderAssumption == PoolFirst \in BOOLEAN

Pooled == {PoolSeq[i] : i \in 1 .. Len(PoolSeq)}
Parts  == Msgs \X (1 .. NumChannels)

VARIABLES
    created,  \* signals unr_sig_create has returned
    counter,  \* uru_flag_t.counter
    idx,      \* uru_flag_t.idx
    queue,    \* uru_flag_t.queue # NULL
    items,    \* contents of the pool's ring, oldest first
    filled,   \* stores done by unr_sig_pool_create's loop, two per signal
    dest,     \* dest[m]: the signal and the number of parts of message m
    pending,  \* parts started and not yet taken by the daemon
    left,     \* messages the peers may still send before the next re-arm
    dpc, dsig, dadd, dtmp,  \* the daemon thread, in the event it applies
    upc, usig,              \* the application thread, in a library call
    trig,     \* signals unr_sig_check last reported URU_SIGNAL_TRIGGERED
    halted,   \* why the process has exited, or "no"
    asserts   \* the build has URU_ENABLE_ASSERT (fast/build.sh: yes; cmake's default: no)

sigVars  == <<created, counter, idx, queue, items, filled>>
msgVars  == <<dest, pending, left>>
dmnVars  == <<dpc, dsig, dadd, dtmp>>
usrVars  == <<upc, usig, trig>>
vars     == <<sigVars, msgVars, dmnVars, usrVars, halted, asserts>>

Init ==
    /\ created = {}
    /\ counter = [s \in Sigs |-> 0]
    /\ idx = [s \in Sigs |-> -1]
    /\ queue = [s \in Sigs |-> FALSE]
    /\ items = <<>>
    /\ filled = 0
    /\ dest = [m \in Msgs |-> [sig |-> NoSig, num |-> 0]]
    /\ pending = {}
    /\ left = [s \in Sigs |-> 0]
    /\ dpc = "idle" /\ dsig = NoSig /\ dadd = 0 /\ dtmp = 0
    /\ upc = "idle" /\ usig = NoSig
    /\ trig = {}
    /\ halted = "no"
    /\ asserts \in BOOLEAN

-----------------------------------------------------------------------------
(* The peers *)

\* SigAdd when the parts after the first carry nothing and are not announced
SigAddUnannounced(num, j) == IF j = 1 THEN -1 ELSE 0

\* SigAdd when every transfer counts for both of its halves
SigAddTwice(num, j) == -2

\* sig_add_arr: a message in one part adds -1. Otherwise its first part adds
\* -1 and announces the other parts in the high word, each of which pays one
\* back.
SigAdd(num, j) ==
    IF num = 1 THEN -1
    ELSE IF j = 1 THEN -1 + W * (num - 1)
    ELSE -W

\* A plan with one message for s, divided in num parts, is started.
PlanStart(m, s, num) ==
    /\ halted = "no"
    /\ s \in created
    /\ PoolFirst /\ s \in Pooled => queue[s]
    /\ left[s] > 0
    /\ num = 1 \/ s \in Divided
    /\ \A j \in 1 .. NumChannels : <<m, j>> \notin pending
    /\ dest' = [dest EXCEPT ![m] = [sig |-> s, num |-> num]]
    /\ pending' = pending \cup {<<m, j>> : j \in 1 .. num}
    /\ left' = [left EXCEPT ![s] = @ - 1]
    /\ UNCHANGED <<sigVars, dmnVars, usrVars, halted, asserts>>

-----------------------------------------------------------------------------
(* The daemon thread: one completed operation *)

\* counter += flag_add, the load
DaemonLoad(p) ==
    /\ halted = "no"
    /\ dpc = "idle"
    /\ p \in pending
    /\ pending' = pending \ {p}
    /\ dsig' = dest[p[1]].sig
    /\ dadd' = SigAdd(dest[p[1]].num, p[2])
    /\ dtmp' = counter[dest[p[1]].sig]
    /\ dpc' = "store"
    /\ UNCHANGED <<sigVars, dest, left, usrVars, halted, asserts>>

\* counter += flag_add, the store; then URU_ASSERT(counter >= 0)
DaemonStore ==
    /\ halted = "no"
    /\ dpc = "store"
    /\ counter' = [counter EXCEPT ![dsig] = dtmp + dadd]
    /\ halted' = IF asserts /\ dtmp + dadd < 0 THEN "negative" ELSE "no"
    /\ dpc' = "test"
    /\ UNCHANGED <<created, idx, queue, items, filled, msgVars,
                   dsig, dadd, dtmp, usrVars, asserts>>

\* DaemonTest when the counter is not compared with zero
DaemonTestAnyCount ==
    /\ halted = "no"
    /\ dpc = "test"
    /\ dpc' = IF queue[dsig] THEN "push" ELSE "idle"
    /\ UNCHANGED <<sigVars, msgVars, dsig, dadd, dtmp, usrVars, halted, asserts>>

\* DaemonTest when the value loaded before the addition is compared
DaemonTestStale ==
    /\ halted = "no"
    /\ dpc = "test"
    /\ dpc' = IF dtmp = 0 /\ queue[dsig] THEN "push" ELSE "idle"
    /\ UNCHANGED <<sigVars, msgVars, dsig, dadd, dtmp, usrVars, halted, asserts>>

\* if (counter == 0 && queue): the counter is read again
DaemonTest ==
    /\ halted = "no"
    /\ dpc = "test"
    /\ dpc' = IF counter[dsig] = 0 /\ queue[dsig] THEN "push" ELSE "idle"
    /\ UNCHANGED <<sigVars, msgVars, dsig, dadd, dtmp, usrVars, halted, asserts>>

\* uru_queue_push(queue, idx): a full ring fails its assertion, and without
\* assertions it would be empty; "full" stands for both.
DaemonPush ==
    /\ halted = "no"
    /\ dpc = "push"
    /\ IF Len(items) < Len(PoolSeq)
       THEN items' = Append(items, idx[dsig]) /\ UNCHANGED halted
       ELSE halted' = "full" /\ UNCHANGED items
    /\ dpc' = "idle"
    /\ UNCHANGED <<created, counter, idx, queue, filled, msgVars,
                   dsig, dadd, dtmp, usrVars, asserts>>

Daemon == (\E p \in Parts : DaemonLoad(p)) \/ DaemonStore \/ DaemonTest \/ DaemonPush

-----------------------------------------------------------------------------
(* The application thread *)

SigCreate(s) ==
    /\ halted = "no"
    /\ upc = "idle"
    /\ s \notin created
    /\ created' = created \cup {s}
    /\ counter' = [counter EXCEPT ![s] = NumEvent[s]]
    /\ idx' = [idx EXCEPT ![s] = -1]
    /\ queue' = [queue EXCEPT ![s] = FALSE]
    /\ left' = [left EXCEPT ![s] = NumEvent[s]]
    /\ UNCHANGED <<items, filled, dest, pending, dmnVars, usrVars, halted, asserts>>

\* counter & (1<<31): the int constant is sign-extended to 64 bits, so the
\* test is true exactly for a counter outside 0 .. 2^31 - 1.
OverflowBits(c) == c < 0 \/ 2 * c >= W

\* unr_sig_check, called once ("check") or by unr_sig_wait's loop ("wait")
SigCall(s, call) ==
    /\ halted = "no"
    /\ upc = "idle"
    /\ s \in created \ Pooled
    /\ upc' = call
    /\ usig' = s
    /\ UNCHANGED <<sigVars, msgVars, dmnVars, trig, halted, asserts>>

\* First read of the counter: overflow exits the process. The assertion after
\* it reads once more; failing there is this step taken later.
CheckOverflow ==
    /\ halted = "no"
    /\ upc \in {"check", "wait"}
    /\ halted' = IF OverflowBits(counter[usig]) THEN "overflow" ELSE "no"
    /\ upc' = IF upc = "check" THEN "check0" ELSE "wait0"
    /\ UNCHANGED <<sigVars, msgVars, dmnVars, usig, trig, asserts>>

\* CheckZero when unr_sig_wait does not loop
CheckZeroOnce ==
    /\ halted = "no"
    /\ upc \in {"check0", "wait0"}
    /\ trig' = IF counter[usig] = 0 THEN trig \cup {usig} ELSE trig
    /\ upc' = "idle"
    /\ UNCHANGED <<sigVars, msgVars, dmnVars, usig, halted, asserts>>

\* last read of the counter: TRIGGERED or WAITING; unr_sig_wait polls again
CheckZero ==
    /\ halted = "no"
    /\ upc \in {"check0", "wait0"}
    /\ IF counter[usig] = 0
       THEN trig' = trig \cup {usig} /\ upc' = "idle"
       ELSE /\ UNCHANGED trig
            /\ upc' = IF upc = "wait0" THEN "wait" ELSE "idle"
    /\ UNCHANGED <<sigVars, msgVars, dmnVars, usig, halted, asserts>>

\* unr_sig_reset, of a signal known to be triggered; the application then
\* lets the peers send again.
SigReset(s) ==
    /\ halted = "no"
    /\ upc = "idle"
    /\ s \in trig
    /\ halted' = IF asserts /\ counter[s] # 0 THEN "untriggered" ELSE "no"
    /\ counter' = [counter EXCEPT ![s] = NumEvent[s]]
    /\ left' = [left EXCEPT ![s] = NumEvent[s]]
    /\ trig' = trig \ {s}
    /\ UNCHANGED <<created, idx, queue, items, filled, dest, pending,
                   dmnVars, upc, usig, asserts>>

\* unr_sig_pool_create: the loop stores idx, then queue, signal by signal,
\* while the daemon runs.
PoolStore ==
    LET s == PoolSeq[filled \div 2 + 1] IN
    /\ idx' = IF filled % 2 = 0 THEN [idx EXCEPT ![s] = filled \div 2] ELSE idx
    /\ queue' = IF filled % 2 = 1 THEN [queue EXCEPT ![s] = TRUE] ELSE queue

SigPoolCreate ==
    /\ halted = "no"
    /\ upc \in {"idle", "fill"}
    /\ filled < 2 * Len(PoolSeq)
    /\ Pooled \subseteq created
    /\ PoolStore
    /\ filled' = filled + 1
    /\ upc' = IF filled' = 2 * Len(PoolSeq) THEN "idle" ELSE "fill"
    /\ UNCHANGED <<created, counter, items, msgVars, dmnVars, usig, trig, halted, asserts>>

\* unr_sig_pool_detect: a pop that finds a signal (an empty ring changes
\* nothing) ...
SigPoolDetect ==
    /\ halted = "no"
    /\ upc = "idle"
    /\ filled = 2 * Len(PoolSeq)
    /\ items # <<>>
    /\ items' = Tail(items)
    /\ usig' = PoolSeq[Head(items) + 1]
    /\ upc' = "rearm"
    /\ UNCHANGED <<created, counter, idx, queue, filled, msgVars, dmnVars, trig, halted, asserts>>

\* DetectRearm when the counter is not reset
DetectRearmForgotten ==
    /\ halted = "no"
    /\ upc = "rearm"
    /\ left' = [left EXCEPT ![usig] = NumEvent[usig]]
    /\ upc' = "idle"
    /\ UNCHANGED <<sigVars, dest, pending, dmnVars, usig, trig, halted, asserts>>

\* ... then counter = num_event
DetectRearm ==
    /\ halted = "no"
    /\ upc = "rearm"
    /\ counter' = [counter EXCEPT ![usig] = NumEvent[usig]]
    /\ left' = [left EXCEPT ![usig] = NumEvent[usig]]
    /\ upc' = "idle"
    /\ UNCHANGED <<created, idx, queue, items, filled, dest, pending,
                   dmnVars, usig, trig, halted, asserts>>

\* A process that has exited is at rest.
Exited == halted # "no" /\ UNCHANGED vars

Next ==
    \/ \E m \in Msgs, s \in Sigs, num \in 1 .. NumChannels : PlanStart(m, s, num)
    \/ Daemon
    \/ \E s \in Sigs : SigCreate(s) \/ SigCall(s, "check") \/ SigCall(s, "wait") \/ SigReset(s)
    \/ CheckOverflow \/ CheckZero
    \/ SigPoolCreate \/ SigPoolDetect \/ DetectRearm
    \/ Exited

Spec == Init /\ [][Next]_vars

\* The daemon thread and a call in progress keep running; peers send what
\* they owe; the application keeps polling its pool between other calls.
Fairness ==
    /\ WF_vars(Daemon)
    /\ WF_vars(CheckOverflow \/ CheckZero \/ DetectRearm)
    /\ WF_vars(SigPoolCreate /\ upc = "fill")
    /\ SF_vars(SigPoolDetect)
    /\ \A s \in Sigs :
         WF_vars(\E m \in Msgs, num \in 1 .. NumChannels : PlanStart(m, s, num))

FairSpec == Spec /\ Fairness

-----------------------------------------------------------------------------
(* Properties *)

TypeOK ==
    /\ created \subseteq Sigs
    /\ counter \in [Sigs -> Int]
    /\ idx \in [Sigs -> Int]
    /\ queue \in [Sigs -> BOOLEAN]
    /\ items \in Seq(0 .. Len(PoolSeq) - 1)
    /\ filled \in 0 .. 2 * Len(PoolSeq)
    /\ dest \in [Msgs -> [sig : Sigs \cup {NoSig}, num : 0 .. NumChannels]]
    /\ pending \subseteq Parts
    /\ left \in [Sigs -> Nat]
    /\ dpc \in {"idle", "store", "test", "push"}
    /\ dsig \in Sigs \cup {NoSig} /\ dadd \in Int /\ dtmp \in Int
    /\ upc \in {"idle", "check", "check0", "wait", "wait0", "fill", "rearm"}
    /\ usig \in Sigs \cup {NoSig}
    /\ trig \subseteq Sigs
    /\ halted \in {"no", "negative", "full", "overflow", "untriggered"}
    /\ asserts \in BOOLEAN

\* Every message the peers may send before the next re-arm of s has been
\* sent, and the daemon has stored each of its parts.
Complete(s) ==
    /\ left[s] = 0
    /\ \A p \in pending : dest[p[1]].sig # s
    /\ ~(dpc = "store" /\ dsig = s)

\* unr_sig_check and unr_sig_pool_detect look at nothing but counter == 0:
\* it must mean that all parts of all num_event messages have arrived, in
\* whatever order the channels delivered them.
TriggerExact == \A s \in created : counter[s] = 0 => Complete(s)

\* The application writes the counter without a lock. Its re-arm never falls
\* between the daemon's load and store, so no event is lost.
NoLostUpdate == dpc = "store" => dtmp = counter[dsig]

Reports(s) ==
    Cardinality({i \in 1 .. Len(items) : PoolSeq[items[i] + 1] = s})
    + (IF dpc = "push" /\ dsig = s THEN 1 ELSE 0)
    + (IF upc = "rearm" /\ usig = s THEN 1 ELSE 0)

\* A pooled signal whose counter reached zero is reported by exactly one
\* entry of the ring (or by the push or the detect at work on it), and a
\* signal that still waits by none: unr_sig_pool_detect returns every
\* triggered signal once per round.
ReportOnce ==
    \A s \in Pooled :
        queue[s] /\ ~(dpc = "test" /\ dsig = s) =>
            Reports(s) = IF counter[s] = 0 THEN 1 ELSE 0

\* While no signal receives more messages than it was created for, the process
\* exits only over a signal whose messages are divided: the assertion of the
\* daemon that no counter is negative (uri_mpi_channel.c:238) and the overflow
\* test of unr_sig_check (unr_sig.c:35) fail for no other signal, and those of
\* unr_sig_reset (unr_sig.c:67) and of the ring (queue.c:19) for none at all.
\* Both kinds of build.
HaltsOnlyDivided ==
    /\ halted \notin {"full", "untriggered"}
    /\ halted = "negative" => dsig \in Divided
    /\ halted = "overflow" => usig \in Divided

-----------------------------------------------------------------------------
(* The inductive invariant behind these properties *)

\* The parts under way for s that carry a message's own event, those that
\* only pay back the high word, and the paybacks not announced yet because
\* the first part of their message is still under way.
Firsts(s) == {p \in pending : p[2] = 1 /\ dest[p[1]].sig = s}
Others(s) == {p \in pending : p[2] # 1 /\ dest[p[1]].sig = s}
Owed(s)   == {p \in Parts : /\ p[2] # 1 /\ p[2] <= dest[p[1]].num
                            /\ dest[p[1]].sig = s
                            /\ <<p[1], 1>> \in pending}

Carried(s) == IF dpc = "store" /\ dsig = s THEN dadd ELSE 0
CarriesFirst(s) == dpc = "store" /\ dsig = s /\ dadd # -W

\* The low word counts the messages whose first part has not been applied,
\* the high word the parts announced and not applied.
CounterExact ==
    \A s \in created :
        counter[s] + Carried(s) =
            left[s] + Cardinality(Firsts(s))
            + W * (Cardinality(Others(s)) - Cardinality(Owed(s)))

Budget ==
    \A s \in created :
        left[s] + Cardinality(Firsts(s)) + (IF CarriesFirst(s) THEN 1 ELSE 0)
            <= NumEvent[s]

PartsOK ==
    \A p \in pending : dest[p[1]].sig \in created /\ p[2] <= dest[p[1]].num

DaemonOK ==
    /\ dpc # "idle" => dsig \in created
    /\ dpc = "store" => /\ dtmp = counter[dsig]
                        /\ \/ dadd = -W /\ NumChannels > 1
                           \/ \E k \in 0 .. NumChannels - 1 : dadd = -1 + W * k
    /\ dpc = "push" => counter[dsig] = 0 /\ queue[dsig]

\* Signals with a report under way or known to be triggered stay at zero.
InItems(s) == \E k \in 1 .. Len(items) : PoolSeq[items[k] + 1] = s

ReportsOK ==
    /\ \A j, k \in 1 .. Len(items) : items[j] = items[k] => j = k
    /\ \A k \in 1 .. Len(items) : counter[PoolSeq[items[k] + 1]] = 0
    /\ dpc \in {"test", "push"} => ~InItems(dsig)
    /\ upc = "rearm" => /\ usig \in Pooled \cap created /\ counter[usig] = 0 /\ ~InItems(usig)
                        /\ dpc \in {"test", "push"} => usig # dsig

UserOK ==
    /\ trig \subseteq created \ Pooled
    /\ \A s \in trig : counter[s] = 0
    /\ upc \in {"check", "check0", "wait", "wait0"} => usig \in created \ Pooled

PoolOK ==
    /\ \A s \in Sigs : queue[s] => s \in Pooled
    /\ \A i \in 1 .. Len(PoolSeq) :
         /\ filled >= 2 * i - 1 => idx[PoolSeq[i]] = i - 1
         /\ queue[PoolSeq[i]] <=> filled >= 2 * i
    /\ filled > 0 \/ items # <<>> => Pooled \subseteq created

SignalInv ==
    /\ TypeOK /\ PartsOK /\ CounterExact /\ Budget
    /\ DaemonOK /\ ReportsOK /\ UserOK /\ PoolOK

-----------------------------------------------------------------------------
(* What the repository says of signals *)

\* unr_sig.c:36: overflow "means this signal receives more events than
\* expected". The peers never send more, so it is never reported.
NoFalseOverflow == halted # "overflow"

\* unr.h:173: the pool "can detect whether any signal is triggered in this
\* pool": a member signal that is triggered is eventually detected, unless the
\* process exits over a divided one.
TriggeredIsDetected ==
    \A s \in Pooled :
        queue[s] /\ counter[s] = 0 ~> counter[s] # 0 \/ halted = "negative"

\* unr_sig_wait returns once the peers have sent their messages, with the same
\* exception.
WaitReturns ==
    \A s \in Sigs : upc = "wait" /\ usig = s ~> s \in trig \/ halted = "negative"
=============================================================================
