------------------------------ MODULE MpiReqQueue ------------------------------
(***************************************************************************)
(* mpi_req, the array of outstanding MPI requests of one channel. The      *)
(* application thread and the handlers of control messages append under a  *)
(* spin lock (uri_mpi_utils.c, uri_mpi_req_que_app). The daemon            *)
(* (uri_mpi_channel.c, lines 198-296) reads the length without the lock,   *)
(* copies that many entries, tests and processes the copy without the      *)
(* lock, and then removes what it processed by moving entries from the     *)
(* end, while the other thread may have appended in the meantime.          *)
(*                                                                         *)
(* An entry is the number of its append; growing the array (uru_realloc)   *)
(* keeps the entries and is left out. idx, which the code asserts to be    *)
(* ascending, is the set of its elements.                                  *)
(* Init, Next and the like carry Req in their names because the module     *)
(* MpiUtils_proofs extends this one beside MpiIntPool.                     *)
(***************************************************************************)
EXTENDS Integers, FiniteSets

CONSTANTS MaxEntries,  \* bound: entries appended in all
          MaxBatch     \* bound: entries appended by one call

ASSUME QueueBounds == MaxEntries \in Nat /\ MaxBatch \in Nat

Entries == 1 .. MaxEntries
Slots   == 0 .. MaxEntries - 1
Garbage == 0               \* content of a slot never written

VARIABLES
    arr, tail, lock,  \* op_arr and req_arr, arr_tail, the spin lock
    next, todo,       \* next entry to append; entries the current call still appends
    dpc,              \* the daemon
    tailCopy, copy,   \* req_arr_tail_copy, op_arr_copy
    idx,              \* idx[0 .. idx_count - 1] as MPI_Testsome returned it
    rest,             \* elements of idx the current loop has not handled
    done              \* done[e]: times entry e was processed

appVars == <<next, todo>>
dmnVars == <<dpc, tailCopy, copy, idx, rest, done>>
reqVars == <<arr, tail, lock, appVars, dmnVars>>

ReqInit ==
    /\ arr = [j \in Slots |-> Garbage] /\ tail = 0 /\ lock = "free"
    /\ next = 1 /\ todo = 0
    /\ dpc = "idle" /\ tailCopy = 0 /\ copy = [j \in Slots |-> Garbage]
    /\ idx = {} /\ rest = {}
    /\ done = [e \in Entries |-> 0]

-----------------------------------------------------------------------------
(* uri_mpi_req_que_app *)

AppLock(k) ==
    /\ lock = "free"
    /\ next + k <= MaxEntries + 1
    /\ lock' = "app"
    /\ todo' = k
    /\ UNCHANGED <<arr, tail, next, dmnVars>>

\* arr_tail is volatile: the daemon may read it between two turns of the loop
AppPut ==
    /\ lock = "app" /\ todo > 0
    /\ arr' = [arr EXCEPT ![tail] = next]
    /\ tail' = tail + 1
    /\ next' = next + 1
    /\ todo' = todo - 1
    /\ UNCHANGED <<lock, dmnVars>>

AppUnlock ==
    /\ lock = "app" /\ todo = 0
    /\ lock' = "free"
    /\ UNCHANGED <<arr, tail, appVars, dmnVars>>

-----------------------------------------------------------------------------
(* uri_mpi_channel_daemon *)

\* ReadTail when a single request is not looked at
ReadTailLeavesOne ==
    /\ dpc = "idle"
    /\ tail > 1
    /\ tailCopy' = tail
    /\ dpc' = "copy"
    /\ UNCHANGED <<arr, tail, lock, appVars, copy, idx, rest, done>>

\* the unlocked read of arr_tail
ReadTail ==
    /\ dpc = "idle"
    /\ tail > 0
    /\ tailCopy' = tail
    /\ dpc' = "copy"
    /\ UNCHANGED <<arr, tail, lock, appVars, copy, idx, rest, done>>

\* both memcpy, inside the lock
Copy ==
    /\ dpc = "copy"
    /\ lock = "free"
    /\ copy' = [j \in Slots |-> IF j < tailCopy THEN arr[j] ELSE copy[j]]
    /\ dpc' = "test"
    /\ UNCHANGED <<arr, tail, lock, appVars, tailCopy, idx, rest, done>>

\* MPI_Testsome finds the requests in the slots S complete
TestSome(S) ==
    /\ dpc = "test"
    /\ idx' = S
    /\ rest' = S
    /\ dpc' = IF S = {} THEN "idle" ELSE "process"
    /\ UNCHANGED <<arr, tail, lock, appVars, tailCopy, copy, done>>

\* the loop over idx: op_arr_copy[idx[i]] is processed
Process(j) ==
    /\ dpc = "process"
    /\ j \in rest /\ \A k \in rest : j <= k
    /\ done' = [done EXCEPT ![copy[j]] = @ + 1]
    /\ rest' = rest \ {j}
    /\ dpc' = IF rest' = {} THEN "remove" ELSE "process"
    /\ UNCHANGED <<arr, tail, lock, appVars, tailCopy, copy, idx>>

RemoveLock ==
    /\ dpc = "remove"
    /\ lock = "free"
    /\ lock' = "daemon"
    /\ rest' = idx
    /\ dpc' = "compact"
    /\ UNCHANGED <<arr, tail, appVars, tailCopy, copy, idx, done>>

\* while (i < idx_count && idx[idx_count - 1] == arr_tail - 1): the largest
\* remaining index is the last slot, which is dropped
Drop ==
    /\ dpc = "compact"
    /\ tail - 1 \in rest
    /\ tail' = tail - 1
    /\ rest' = rest \ {tail - 1}
    /\ UNCHANGED <<arr, lock, appVars, dpc, tailCopy, copy, idx, done>>

\* Move when the entry is taken from one past the last
MoveFromTail(j) ==
    /\ dpc = "compact"
    /\ tail - 1 \notin rest
    /\ j \in rest /\ \A k \in rest : j <= k
    /\ tail' = tail - 1
    /\ arr' = [arr EXCEPT ![j] = arr[tail]]
    /\ rest' = rest \ {j}
    /\ UNCHANGED <<lock, appVars, dpc, tailCopy, copy, idx, done>>

\* otherwise the last entry moves into idx[i], the smallest remaining index
Move(j) ==
    /\ dpc = "compact"
    /\ tail - 1 \notin rest
    /\ j \in rest /\ \A k \in rest : j <= k
    /\ tail' = tail - 1
    /\ arr' = [arr EXCEPT ![j] = arr[tail - 1]]
    /\ rest' = rest \ {j}
    /\ UNCHANGED <<lock, appVars, dpc, tailCopy, copy, idx, done>>

RemoveUnlock ==
    /\ dpc = "compact"
    /\ rest = {}
    /\ lock' = "free"
    /\ dpc' = "idle"
    /\ UNCHANGED <<arr, tail, appVars, tailCopy, copy, idx, rest, done>>

ReqAppend == (\E k \in 1 .. MaxBatch : AppLock(k)) \/ AppPut \/ AppUnlock
Daemon ==
    \/ ReadTail
    \/ Copy
    \/ \E S \in SUBSET {j \in Slots : j < tailCopy} : TestSome(S)
    \/ \E j \in Slots : Process(j) \/ Move(j)
    \/ RemoveLock
    \/ Drop
    \/ RemoveUnlock

ReqNext == ReqAppend \/ Daemon

ReqSpec == ReqInit /\ [][ReqNext]_reqVars

\* Both threads run, the spin lock is not fair, and a request that is tested
\* again and again is found complete at last.
ReqFairness ==
    /\ WF_reqVars(AppPut \/ AppUnlock)
    /\ SF_reqVars(Copy) /\ SF_reqVars(RemoveLock)
    /\ WF_reqVars(ReadTail \/ TestSome({}) \/ Drop \/ RemoveUnlock)
    /\ WF_reqVars(\E j \in Slots : Process(j) \/ Move(j))
    /\ \A e \in Entries :
         SF_reqVars(\E S \in SUBSET {j \in Slots : j < tailCopy} :
                     (\E j \in S : copy[j] = e) /\ TestSome(S))

ReqFairSpec == ReqSpec /\ ReqFairness

-----------------------------------------------------------------------------
(* Properties *)

ReqTypeOK ==
    /\ arr \in [Slots -> Entries \cup {Garbage}]
    /\ tail \in 0 .. MaxEntries
    /\ lock \in {"free", "app", "daemon"}
    /\ next \in 1 .. MaxEntries + 1 /\ todo \in 0 .. MaxEntries
    /\ dpc \in {"idle", "copy", "test", "process", "remove", "compact"}
    /\ tailCopy \in 0 .. MaxEntries
    /\ copy \in [Slots -> Entries \cup {Garbage}]
    /\ idx \subseteq Slots /\ rest \subseteq Slots
    /\ done \in [Entries -> Nat]

\* Slots whose entry has been processed in this pass and not removed yet.
Stale ==
    IF dpc = "process" THEN idx \ rest
    ELSE IF dpc = "remove" THEN idx
    ELSE IF dpc = "compact" THEN rest
    ELSE {}

Live == {j \in Slots : j < tail} \ Stale

\* The array holds every appended entry that is not processed yet, once, and
\* nothing else: neither the moves of the compaction nor an append that comes
\* between the copy and the removal lose or duplicate a request.
ArrayExact ==
    /\ \A j \in Live : arr[j] # Garbage
    /\ \A j, k \in Live : arr[j] = arr[k] => j = k
    /\ \A e \in Entries : (\E j \in Live : arr[j] = e) <=> e < next /\ done[e] = 0

\* No request's completion is processed twice.
ProcessedOnce == \A e \in Entries : done[e] <= 1

\* Every request is in the array until it has been processed, once.
RequestsExact == ArrayExact /\ ProcessedOnce

\* What the daemon tests and processes is what the array holds in the same
\* slots, although the length was read and the array is appended to outside
\* the daemon's critical sections.
CopyCurrent ==
    /\ dpc \in {"copy", "test", "process", "remove"} => tailCopy <= tail
    /\ dpc \in {"test", "process", "remove"} =>
           \A j \in Slots : j < tailCopy => copy[j] = arr[j]

\* The inductive invariant
LockOK ==
    /\ lock = "daemon" <=> dpc = "compact"
    /\ lock # "app" => todo = 0
    /\ next + todo <= MaxEntries + 1

IndexOK ==
    /\ tail < next
    /\ \A e \in Entries : e >= next => done[e] = 0
    /\ dpc \in {"process", "remove"} => \A j \in idx : j < tailCopy
    /\ dpc = "process" => rest \subseteq idx /\ rest # {}
    /\ dpc = "compact" => \A j \in rest : j < tail

QueueInv == ReqTypeOK /\ LockOK /\ IndexOK /\ CopyCurrent /\ ArrayExact /\ ProcessedOnce

\* Every request that is appended is processed.
Served == \A e \in Entries : e < next ~> done[e] = 1
=============================================================================
