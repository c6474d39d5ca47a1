------------------------------- MODULE UruQueue -------------------------------
(***************************************************************************)
(* uru_queue_t (uru/type/queue.c): a ring of indices under a spin lock,    *)
(* with a first test for emptiness outside the lock. The daemon thread     *)
(* pushes, application threads pop. As in the signal pool, the ring is     *)
(* created for as many entries as there are values, and a value is pushed  *)
(* again only after it has been popped.                                    *)
(***************************************************************************)
EXTENDS Integers, Sequences, FiniteSets

CONSTANTS QueueSize,  \* queue_size: the values are 0 .. QueueSize - 1
          Consumers,  \* threads that call uru_queue_pop
          Nobody      \* no thread holds the lock

ASSUME QueueAssumption ==
    /\ QueueSize \in Nat \ {0}
    /\ IsFiniteSet(Consumers) /\ "producer" \notin Consumers
    /\ Nobody \notin Consumers \cup {"producer"}

Values  == 0 .. QueueSize - 1
Garbage == -2               \* content of the malloc'ed buffer

\* Size without the spare slot
SizeExact == QueueSize

\* uru_queue_init: queue->size
Size == QueueSize + 1

VARIABLES
    head, tail, buff, lock,  \* uru_queue_t
    armed,                   \* values the producer may push
    ppc, pdata,              \* producer: program counter, data to push
    cpc, chead,              \* consumers: program counter, head read unlocked
    got,                     \* result of each consumer's last pop
    full                     \* the assertion "queue is full" has failed

vars == <<head, tail, buff, lock, armed, ppc, pdata, cpc, chead, got, full>>

Init ==
    /\ head = 0 /\ tail = 0 /\ lock = Nobody
    /\ buff = [i \in 0 .. Size - 1 |-> Garbage]
    /\ armed = Values
    /\ ppc = "idle" /\ pdata = Garbage
    /\ cpc = [c \in Consumers |-> "idle"]
    /\ chead = [c \in Consumers |-> 0]
    /\ got = [c \in Consumers |-> -1]
    /\ full = FALSE

Succ(i) == (i + 1) % Size

-----------------------------------------------------------------------------
(* uru_queue_push *)

PushLock(d) ==
    /\ ppc = "idle" /\ ~full
    /\ d \in armed
    /\ lock = Nobody
    /\ lock' = "producer"
    /\ pdata' = d
    /\ armed' = armed \ {d}
    /\ ppc' = "write"
    /\ UNCHANGED <<head, tail, buff, cpc, chead, got, full>>

\* the assertion, then buff[tail] = data
PushWrite ==
    /\ ppc = "write"
    /\ full' = (head = Succ(tail))
    /\ buff' = [buff EXCEPT ![tail] = pdata]
    /\ ppc' = "advance"
    /\ UNCHANGED <<head, tail, lock, armed, pdata, cpc, chead, got>>

\* tail = (tail + 1) % size, seen at once by a consumer outside the lock
PushAdvance ==
    /\ ppc = "advance"
    /\ tail' = Succ(tail)
    /\ ppc' = "unlock"
    /\ UNCHANGED <<head, buff, lock, armed, pdata, cpc, chead, got, full>>

PushUnlock ==
    /\ ppc = "unlock"
    /\ lock' = Nobody
    /\ ppc' = "idle"
    /\ UNCHANGED <<head, tail, buff, armed, pdata, cpc, chead, got, full>>

-----------------------------------------------------------------------------
(* uru_queue_pop *)

\* the test outside the lock: *head is read, then *tail
PeekHead(c) ==
    /\ cpc[c] = "idle"
    /\ chead' = [chead EXCEPT ![c] = head]
    /\ cpc' = [cpc EXCEPT ![c] = "peek"]
    /\ UNCHANGED <<head, tail, buff, lock, armed, ppc, pdata, got, full>>

\* PeekTail when a ring with one entry is taken for empty
PeekTailLeavesOne(c) ==
    /\ cpc[c] = "peek"
    /\ IF chead[c] = tail \/ Succ(chead[c]) = tail
       THEN got' = [got EXCEPT ![c] = -1] /\ cpc' = [cpc EXCEPT ![c] = "idle"]
       ELSE cpc' = [cpc EXCEPT ![c] = "lock"] /\ UNCHANGED got
    /\ UNCHANGED <<head, tail, buff, lock, armed, ppc, pdata, chead, full>>

PeekTail(c) ==
    /\ cpc[c] = "peek"
    /\ IF chead[c] = tail
       THEN got' = [got EXCEPT ![c] = -1] /\ cpc' = [cpc EXCEPT ![c] = "idle"]
       ELSE cpc' = [cpc EXCEPT ![c] = "lock"] /\ UNCHANGED got
    /\ UNCHANGED <<head, tail, buff, lock, armed, ppc, pdata, chead, full>>

PopLock(c) ==
    /\ cpc[c] = "lock"
    /\ lock = Nobody
    /\ lock' = c
    /\ cpc' = [cpc EXCEPT ![c] = "locked"]
    /\ UNCHANGED <<head, tail, buff, armed, ppc, pdata, chead, got, full>>

\* PopTake without the second test
PopTakeUnchecked(c) ==
    /\ cpc[c] = "locked"
    /\ got' = [got EXCEPT ![c] = buff[head]]
    /\ head' = Succ(head)
    /\ armed' = armed \cup {buff[head]}
    /\ cpc' = [cpc EXCEPT ![c] = "unlock"]
    /\ UNCHANGED <<tail, buff, lock, ppc, pdata, chead, full>>

\* the second test, the read and the advance of head, inside the lock; a
\* consumer that got a value re-arms it
PopTake(c) ==
    /\ cpc[c] = "locked"
    /\ IF head = tail
       THEN got' = [got EXCEPT ![c] = -1] /\ UNCHANGED <<head, armed>>
       ELSE /\ got' = [got EXCEPT ![c] = buff[head]]
            /\ head' = Succ(head)
            /\ armed' = armed \cup {buff[head]}
    /\ cpc' = [cpc EXCEPT ![c] = "unlock"]
    /\ UNCHANGED <<tail, buff, lock, ppc, pdata, chead, full>>

PopUnlock(c) ==
    /\ cpc[c] = "unlock"
    /\ lock' = Nobody
    /\ cpc' = [cpc EXCEPT ![c] = "idle"]
    /\ UNCHANGED <<head, tail, buff, armed, ppc, pdata, chead, got, full>>

Producer == (\E d \in Values : PushLock(d)) \/ PushWrite \/ PushAdvance \/ PushUnlock
Consumer(c) == PeekHead(c) \/ PeekTail(c) \/ PopLock(c) \/ PopTake(c) \/ PopUnlock(c)

Next == Producer \/ \E c \in Consumers : Consumer(c)

Spec == Init /\ [][Next]_vars

\* Threads run; the spin lock is not fair, so only some waiter gets it. Nobody
\* is obliged to push.
Fairness ==
    /\ WF_vars(PushWrite \/ PushAdvance \/ PushUnlock)
    /\ \A c \in Consumers : WF_vars(PeekHead(c) \/ PeekTail(c) \/ PopTake(c) \/ PopUnlock(c))
    /\ SF_vars(\E c \in Consumers : PopLock(c))

FairSpec == Spec /\ Fairness

-----------------------------------------------------------------------------
(* Properties *)

TypeOK ==
    /\ head \in 0 .. Size - 1 /\ tail \in 0 .. Size - 1
    /\ buff \in [0 .. Size - 1 -> Values \cup {Garbage}]
    /\ lock \in Consumers \cup {"producer", Nobody}
    /\ armed \subseteq Values
    /\ ppc \in {"idle", "write", "advance", "unlock"} /\ pdata \in Values \cup {Garbage}
    /\ cpc \in [Consumers -> {"idle", "peek", "lock", "locked", "unlock"}]
    /\ chead \in [Consumers -> 0 .. Size - 1]
    /\ got \in [Consumers -> Values \cup {-1}]
    /\ full \in BOOLEAN

\* The entries from head to tail, oldest first.
Count == (tail - head) % Size
Items == [i \in 1 .. Count |-> buff[(head + i - 1) % Size]]

\* queue.c:19: one slot more than the values keeps a full ring apart from an
\* empty one, so the assertion never fails.
NeverFull == ~full

\* Every value is in exactly one place: armed, in the producer's hands or
\* once in the ring; no poll ever returns the buffer's garbage.
ValuesExact ==
    LET inRing  == {Items[i] : i \in 1 .. Count}
        inHands == IF ppc \in {"write", "advance"} THEN {pdata} ELSE {}
    IN  /\ Cardinality(inRing) = Count
        /\ inRing \cap inHands = {} /\ armed \cap (inRing \cup inHands) = {}
        /\ armed \cup inRing \cup inHands = Values

\* The ring keeps every value that is pushed, exactly once and in a slot of
\* its own, with threads that test it outside the lock.
RingExact == NeverFull /\ ValuesExact

\* The ring, its double-checked pop included, implements a FIFO whose polls
\* are exact when one thread polls. With several, the head read outside the
\* lock may be stale when the tail is read, and a poll may miss an item.
Abstract == INSTANCE Fifo WITH items <- Items, Capacity <- QueueSize,
                               MayMiss <- Cardinality(Consumers) > 1
ImplementsFifo == Abstract!Spec

\* A pushed value is popped, as long as the consumers keep polling.
Drained == \A d \in Values : d \notin armed ~> d \in armed
=============================================================================
