------------------------- MODULE VerbsChannel_proofs -------------------------
(***************************************************************************)
(* Proofs about the verbs channel, for every number of ranks, threads and  *)
(* work requests and every queue depth: its send and receive credits, and  *)
(* what the owner of a buffer learns of a GET from it.                     *)
(***************************************************************************)
EXTENDS VerbsTransfer, FiniteSetTheorems, SequenceTheorems, TLAPS

-----------------------------------------------------------------------------
(* How many elements of a sequence lie in a set *)

Places(s, A) == {i \in 1 .. Len(s) : s[i] \in A}
Count(s, A)  == Cardinality(Places(s, A))
One(x, A)    == IF x \in A THEN 1 ELSE 0

\* A count is a natural number, at most the length of the sequence.
LEMMA CountType ==
    ASSUME NEW S, NEW s \in Seq(S), NEW A
    PROVE  /\ IsFiniteSet(Places(s, A))
           /\ Count(s, A) \in Nat
<1>1. Len(s) \in Nat /\ Places(s, A) \subseteq 1 .. Len(s)
  BY DEF Places
<1>2. IsFiniteSet(1 .. Len(s))
  BY <1>1, FS_Interval
<1>3. IsFiniteSet(Places(s, A))
  BY <1>1, <1>2, FS_Subset
<1> QED
  BY <1>3, FS_CardinalityType DEF Count

\* The empty sequence has nothing to count.
LEMMA CountEmpty == ASSUME NEW A PROVE Count(<<>>, A) = 0
<1>1. Places(<<>>, A) = {}
  BY DEF Places
<1> QED
  BY <1>1, FS_EmptySet DEF Count

\* An appended element is counted when it is in the set.
LEMMA CountAppend ==
    ASSUME NEW S, NEW s \in Seq(S), NEW x \in S, NEW A
    PROVE  Count(Append(s, x), A) = Count(s, A) + One(x, A)
<1> DEFINE n == Len(s) + 1
<1>1. /\ Len(s) \in Nat /\ Len(Append(s, x)) = n
      /\ \A i \in 1 .. Len(s) : Append(s, x)[i] = s[i]
      /\ Append(s, x)[n] = x
  OBVIOUS
<1>2. IsFiniteSet(Places(s, A)) /\ Count(s, A) \in Nat /\ n \notin Places(s, A)
  BY <1>1, CountType DEF Places
<1>3. CASE x \in A
  <2>1. Places(Append(s, x), A) = Places(s, A) \cup {n}
    BY <1>1, <1>3 DEF Places
  <2> QED
    BY <2>1, <1>2, <1>3, FS_AddElement DEF Count, One
<1>4. CASE x \notin A
  <2>1. Places(Append(s, x), A) = Places(s, A)
    BY <1>1, <1>4 DEF Places
  <2> QED
    BY <2>1, <1>2, <1>4 DEF Count, One
<1> QED
  BY <1>3, <1>4

\* Taking the head away uncounts it when it is in the set.
LEMMA CountTail ==
    ASSUME NEW S, NEW s \in Seq(S), s # <<>>, NEW A
    PROVE  Count(s, A) = Count(Tail(s), A) + One(Head(s), A)
<1> DEFINE P == Places(Tail(s), A)
           Q == Places(s, A) \ {1}
           f == [i \in P |-> i + 1]
<1>1. /\ Len(s) \in Nat /\ Len(s) > 0 /\ Tail(s) \in Seq(S)
      /\ Len(Tail(s)) = Len(s) - 1 /\ Head(s) = s[1]
      /\ \A i \in 1 .. Len(Tail(s)) : Tail(s)[i] = s[i + 1]
  OBVIOUS
<1>2. /\ IsFiniteSet(P) /\ Count(Tail(s), A) \in Nat
      /\ IsFiniteSet(Places(s, A)) /\ Count(s, A) \in Nat
  BY <1>1, CountType
<1>3. \A i \in P : i \in Nat /\ i + 1 \in Q
  BY <1>1 DEF Places
<1>4. \A j \in Q : j - 1 \in P /\ j \in Nat
  <2> TAKE j \in Q
  <2>1. j \in 2 .. Len(s) /\ s[j] \in A
    BY <1>1 DEF Places
  <2>2. j - 1 \in 1 .. Len(Tail(s)) /\ (j - 1) + 1 = j
    BY <2>1, <1>1
  <2> QED
    BY <2>1, <2>2, <1>1 DEF Places
<1> HIDE DEF P, Q
<1>5. ExistsBijection(P, Q)
  <2>1. f \in [P -> Q]
    BY <1>3
  <2>2. \A a, b \in P : f[a] = f[b] => a = b
    BY <1>3
  <2>3. \A j \in Q : \E i \in P : f[i] = j
    <3> TAKE j \in Q
    <3>1. j - 1 \in P /\ f[j - 1] = j
      BY <1>4
    <3> QED
      BY <3>1
  <2> HIDE DEF f
  <2> QED
    BY <2>1, <2>2, <2>3 DEF ExistsBijection, Bijection, Injection, IsInjective, Surjection
<1>6. Cardinality(Q) = Cardinality(P)
  BY <1>2, <1>5, FS_Bijection
<1> USE DEF P, Q
<1>7. 1 \in Places(s, A) <=> Head(s) \in A
  BY <1>1 DEF Places
<1>8. Cardinality(Q) = IF 1 \in Places(s, A) THEN Cardinality(Places(s, A)) - 1
                                             ELSE Cardinality(Places(s, A))
  BY <1>2, FS_RemoveElement
<1> QED
  BY <1>2, <1>6, <1>7, <1>8 DEF Count, One


-----------------------------------------------------------------------------
(* The inductive invariant *)

\* Work requests that the queue pair from r to q can hold: those of a plan, and
\* notifications of a GET.
WRs(r, q) ==
    {x \in WorkRequest :
        /\ Home[x.imm[1]] = r /\ W(x.imm).dst = q
        /\ \/ x.wrid = x.imm /\ x.op = Opcode(W(x.imm))
           \/ x.wrid = None /\ x.op = "imm" /\ Notifies(W(x.imm))}

\* Completions that the completion queue of r can hold.
Recvs == {c \in Completion : c.kind = "recv"}
Comps(r) ==
    {c \in Completion :
        \/ c.kind = "recv" /\ c.t # None /\ W(c.t).dst = r /\ W(c.t).rmt
        \/ c.kind = "read" /\ c.t # None /\ W(c.t).dma = "get"
             /\ W(c.t).dst = c.peer /\ Home[c.t[1]] = r
        \/ c.kind = "write" /\ (c.t # None => W(c.t).dma = "put" /\ Home[c.t[1]] = r)}

ElementsOK ==
    \A r \in Ranks :
        /\ \A q \in Ranks : sq[r][q] \in Seq(WRs(r, q))
        /\ cq[r] \in Seq(Comps(r)) /\ batch[r] \in Seq(Comps(r))
        /\ note[r] # None => Home[note[r][1]] = r /\ Notifies(W(note[r]))

\* The holder of send_lock is the thread inside the loop.
LockOK ==
    /\ \A th \in Threads : pc[th] \in {"check", "count"} <=> lock[Home[th]] = th
    /\ \A r \in Ranks : lock[r] # None => Home[lock[r]] = r
    /\ \A th \in Threads : /\ at[th] >= 1 /\ (pc[th] = "count" => at[th] <= Len(Wrts[th]))
                           /\ plan[th] = "none" => pc[th] = "idle"

\* completions of requests sent to q
Sends(q) == {c \in Completion : c.kind # "recv" /\ c.peer = q}

\* GETs to be followed by a notification, as work request and as completion
FlagWR   == {x \in WorkRequest : x.op = "read" /\ Notifies(W(x.wrid))}
FlagC(q) == {c \in Sends(q) : c.kind = "read" /\ Notifies(W(c.t))}

Pending(r, q) ==
    Count(sq[r][q], FlagWR) + Count(cq[r], FlagC(q)) + Count(batch[r], FlagC(q))
Noted(r, q) == IF note[r] # None /\ W(note[r]).dst = q THEN 1 ELSE 0

\* entries of the send queue to q in use, still to be subtracted or reserved
Load(r, q) == used[r][q] + Count(batch[r], Sends(q)) + Pending(r, q) + Noted(r, q)

\* what the lock holder has posted to q and not counted in req_submit yet
Uncounted(r, q) ==
    IF lock[r] # None /\ pc[lock[r]] = "count" /\ W(<<lock[r], at[lock[r]]>>).dst = q
    THEN Charge(W(<<lock[r], at[lock[r]]>>)) ELSE 0

\* The counters are exact, and a load of Depth + 1 includes a GET still to be
\* processed, whose own entry is free again when its notification is posted.
Credit ==
    \A r, q \in Ranks :
        /\ submit[r][q] + Uncounted(r, q) = finish[r][q] + Load(r, q)
        /\ used[r][q] = Len(sq[r][q]) + Count(cq[r], Sends(q))
        /\ Load(r, q) <= Depth + 1
        /\ Pending(r, q) = 0 => Load(r, q) <= Depth

VerbsInv ==
    /\ TypeOK /\ ElementsOK /\ LockOK /\ SrqExact /\ PostFits /\ CountersOrdered
    /\ err = "no" => Credit

-----------------------------------------------------------------------------
(* Facts about the data *)

\* A transfer names a work request of a plan.
LEMMA TransferType ==
    /\ \A t \in Transfers : /\ t[1] \in Threads /\ t[2] \in 1 .. Len(Wrts[t[1]])
                            /\ t = <<t[1], t[2]>> /\ W(t) \in Wrt /\ t # None
    /\ \A th \in Threads : Len(Wrts[th]) \in Nat
    /\ \A th \in Threads : \A k \in Nat :
         k >= 1 /\ k <= Len(Wrts[th]) => <<th, k>> \in Transfers /\ W(<<th, k>>) \in Wrt
<1>1. \A th \in Threads : Wrts[th] \in Seq(Wrt) /\ Len(Wrts[th]) \in Nat
                          /\ DOMAIN Wrts[th] = 1 .. Len(Wrts[th])
  BY VerbsAssumption
<1>2. \A th \in Threads : \A k \in 1 .. Len(Wrts[th]) :
        Wrts[th][k] \in Wrt /\ <<th, k>> \in Transfers
  BY <1>1 DEF Transfers
<1>3. \A t \in Transfers : \E th \in Threads : \E k \in 1 .. Len(Wrts[th]) : t = <<th, k>>
  BY <1>1 DEF Transfers
<1> QED
  BY <1>1, <1>2, <1>3, VerbsAssumption DEF W

\* A request accounts for one entry, and for another when it is to be notified.
LEMMA ChargeType ==
    ASSUME NEW w \in Wrt
    PROVE  /\ Charge(w) = 1 + (IF Notifies(w) THEN 1 ELSE 0)
           /\ Opcode(w) \in {"write", "imm", "read"}
           /\ Opcode(w) = "read" <=> w.dma = "get"
           /\ w.dst \in Ranks
BY DEF Charge, Notifies, Opcode, Wrt

\* One element counts at most once.
LEMMA OneType == \A x, A : One(x, A) \in {0, 1}
BY DEF One

\* Behind and Polled count elements of a set of completions.
LEMMA BehindIsCount ==
    ASSUME NEW s \in Seq(Completion)
    PROVE  Behind(s) = Count(s, Recvs)
<1>1. DOMAIN s = 1 .. Len(s) /\ \A i \in 1 .. Len(s) : s[i] \in Completion
  OBVIOUS
<1>2. {i \in DOMAIN s : s[i].kind = "recv"} = Places(s, Recvs)
  BY <1>1 DEF Places, Recvs
<1> QED
  BY <1>2 DEF Behind, Count

\* The completions that a poll frees entries for.
LEMMA PolledIsCount ==
    ASSUME TypeOK, NEW r \in Ranks, NEW q \in Ranks
    PROVE  Polled(r, q) = Count(cq[r], Sends(q))
<1>1. cq[r] \in Seq(Completion)
  BY DEF TypeOK
<1>2. DOMAIN cq[r] = 1 .. Len(cq[r]) /\ \A i \in 1 .. Len(cq[r]) : cq[r][i] \in Completion
  BY <1>1
<1>3. {i \in DOMAIN cq[r] : cq[r][i].peer = q /\ cq[r][i].kind # "recv"} = Places(cq[r], Sends(q))
  BY <1>2 DEF Places, Sends
<1> QED
  BY <1>3 DEF Polled, Count

\* The numbers of the invariant are natural numbers.
LEMMA CreditTypes ==
    ASSUME TypeOK, LockOK, NEW r \in Ranks, NEW q \in Ranks
    PROVE  /\ submit[r][q] \in Nat /\ finish[r][q] \in Nat
           /\ used[r][q] \in Nat /\ used[r][q] <= Depth /\ Depth \in Nat
           /\ Len(sq[r][q]) \in Nat /\ Count(sq[r][q], FlagWR) \in Nat
           /\ Count(cq[r], Sends(q)) \in Nat /\ Count(cq[r], FlagC(q)) \in Nat
           /\ Count(batch[r], Sends(q)) \in Nat /\ Count(batch[r], FlagC(q)) \in Nat
           /\ Pending(r, q) \in Nat /\ Noted(r, q) \in {0, 1}
           /\ Load(r, q) \in Nat /\ Uncounted(r, q) \in {0, 1, 2}
<1>1. /\ submit[r][q] \in Nat /\ finish[r][q] \in Nat
      /\ used[r][q] \in Nat /\ used[r][q] <= Depth /\ Depth \in Nat
  <2>1. submit[r] \in [Ranks -> Nat] /\ finish[r] \in [Ranks -> Nat]
    BY DEF TypeOK
  <2>2. used \in [Ranks -> [Ranks -> 0 .. Depth]]
    BY DEF TypeOK
  <2>3. used[r] \in [Ranks -> 0 .. Depth]
    BY <2>2
  <2>4. used[r][q] \in 0 .. Depth
    BY <2>3
  <2> QED
    BY <2>1, <2>4, VerbsAssumption
<1>2. sq[r][q] \in Seq(WorkRequest) /\ cq[r] \in Seq(Completion) /\ batch[r] \in Seq(Completion)
  BY ZenonT(30) DEF TypeOK
<1>3. Len(sq[r][q]) \in Nat /\ Count(sq[r][q], FlagWR) \in Nat
  BY <1>2, CountType
<1>4. Count(cq[r], Sends(q)) \in Nat /\ Count(cq[r], FlagC(q)) \in Nat
  BY <1>2, CountType
<1>5. Count(batch[r], Sends(q)) \in Nat /\ Count(batch[r], FlagC(q)) \in Nat
  BY <1>2, CountType
<1>6. Pending(r, q) \in Nat /\ Noted(r, q) \in {0, 1}
  BY <1>3, <1>4, <1>5 DEF Pending, Noted
<1>7. Load(r, q) \in Nat
  BY <1>1, <1>5, <1>6 DEF Load
<1>8. Uncounted(r, q) \in {0, 1, 2}
  BY DEF Uncounted, Charge
<1> QED
  BY <1>1, <1>3, <1>4, <1>5, <1>6, <1>7, <1>8

\* The invariant holds when nothing has been posted.
LEMMA VerbsInit == Init => VerbsInv
<1> SUFFICES ASSUME Init PROVE VerbsInv
  OBVIOUS
<1>1. TypeOK
  BY VerbsAssumption DEF Init, TypeOK
<1>2. ElementsOK
  BY DEF Init, ElementsOK
<1>3. LockOK
  BY VerbsAssumption DEF Init, LockOK
<1>4. SrqExact
  <2>1. Behind(<<>>) = 0
    <3>1. <<>> \in Seq(Completion)
      OBVIOUS
    <3> QED
      BY <3>1, BehindIsCount, CountEmpty
  <2> QED
    BY <2>1, VerbsAssumption DEF Init, SrqExact
<1>5. PostFits /\ CountersOrdered
  BY DEF Init, PostFits, CountersOrdered
<1>6. Credit
  BY CountEmpty, VerbsAssumption DEF Init, Credit, Load, Pending, Noted, Uncounted
<1> QED
  BY <1>1, <1>2, <1>3, <1>4, <1>5, <1>6 DEF VerbsInv

-----------------------------------------------------------------------------
(* The application threads *)

\* Load and Pending depend only on what the interface and the daemon hold.
LEMMA SameLoad ==
    ASSUME NEW r \in Ranks, NEW q \in Ranks,
           used'[r][q] = used[r][q], sq'[r][q] = sq[r][q], cq'[r] = cq[r],
           batch'[r] = batch[r], note'[r] = note[r]
    PROVE  Load(r, q)' = Load(r, q) /\ Pending(r, q)' = Pending(r, q)
<1>1. Pending(r, q)' = Pending(r, q) /\ Noted(r, q)' = Noted(r, q)
  BY DEF Pending, Noted
<1> QED
  BY <1>1 DEF Load

\* A step of an application thread that posts nothing keeps the invariant when it
\* keeps the lock and what the holder has left uncounted.
LEMMA AppFrame ==
    ASSUME VerbsInv, err = "no", TypeOK', LockOK', err' \in {"no", "timeout"},
           UNCHANGED <<submit, nicVars, dmnVars>>,
           \A r, q \in Ranks : Uncounted(r, q)' = Uncounted(r, q)
    PROVE  VerbsInv'
<1>1. UNCHANGED <<submit, sq, used, srq, cq, finish, batch, numWr, note, events>>
  BY DEF nicVars, dmnVars
<1>2. ElementsOK'
  BY <1>1 DEF VerbsInv, ElementsOK
<1>3. SrqExact'
  BY <1>1 DEF VerbsInv, SrqExact
<1>4. PostFits' /\ CountersOrdered'
  BY DEF PostFits, CountersOrdered
<1>5. Credit'
  <2>1. Credit
    BY DEF VerbsInv
  <2>2. \A r, q \in Ranks : Load(r, q)' = Load(r, q) /\ Pending(r, q)' = Pending(r, q)
    BY <1>1, SameLoad
  <2> QED
    BY <2>1, <2>2, <1>1 DEF Credit
<1> QED
  BY <1>2, <1>3, <1>4, <1>5 DEF VerbsInv

\* A step of a thread that does not hold the lock changes no charge.
LEMMA SameUncounted ==
    ASSUME LockOK, lock' = lock, at' = at, NEW th \in Threads,
           lock[Home[th]] # th, \A u \in Threads : u # th => pc'[u] = pc[u], TypeOK
    PROVE  \A r, q \in Ranks : Uncounted(r, q)' = Uncounted(r, q)
<1> SUFFICES ASSUME NEW r \in Ranks, NEW q \in Ranks
             PROVE  Uncounted(r, q)' = Uncounted(r, q)
  OBVIOUS
<1>1. lock[r] \in Threads \cup {None} /\ (lock[r] # None => lock[r] # th)
  BY DEF LockOK, TypeOK
<1>2. lock[r] # None => pc'[lock[r]] = pc[lock[r]]
  BY <1>1
<1> QED
  BY <1>2 DEF Uncounted

\* Creating a plan posts nothing.
LEMMA PlanCreateInv ==
    ASSUME VerbsInv, NEW th \in Threads, PlanCreate(th)
    PROVE  VerbsInv'
<1>1. TypeOK /\ LockOK /\ pc[th] = "idle" /\ lock[Home[th]] # th
  BY DEF VerbsInv, LockOK, PlanCreate
<1>2. TypeOK'
  <2>1. plan' \in [Threads -> {"none", "ready", "gone"}]
    BY <1>1 DEF TypeOK, PlanCreate
  <2>2. starts \in [Threads -> 0 .. MaxStart]
    BY <1>1 DEF TypeOK
  <2>3. starts' \in [Threads -> 0 .. MaxStart]
    <3>1. 1 \in 0 .. MaxStart
      BY VerbsAssumption
    <3> QED
      BY <2>2, <3>1 DEF PlanCreate
  <2>4. pc' \in [Threads -> {"idle", "lock", "check", "count"}]
    BY <1>1, ZenonT(30) DEF TypeOK, PlanCreate
  <2> QED
    BY <2>1, <2>3, <2>4, <1>1 DEF TypeOK, PlanCreate, nicVars, dmnVars
<1>3. LockOK'
  BY <1>1 DEF LockOK, TypeOK, PlanCreate
<1>4. \A r, q \in Ranks : Uncounted(r, q)' = Uncounted(r, q)
  BY <1>1, SameUncounted DEF TypeOK, PlanCreate
<1> QED
  BY <1>2, <1>3, <1>4, AppFrame DEF PlanCreate

\* Calling start posts nothing.
LEMMA PlanStartInv ==
    ASSUME VerbsInv, NEW th \in Threads, PlanStart(th)
    PROVE  VerbsInv'
<1>1. TypeOK /\ LockOK /\ pc[th] = "idle" /\ lock[Home[th]] # th
  BY DEF VerbsInv, LockOK, PlanStart
<1>2. TypeOK'
  <2>1. starts \in [Threads -> 0 .. MaxStart] /\ MaxStart \in Nat
    BY <1>1, VerbsAssumption DEF TypeOK
  <2>2. starts' \in [Threads -> 0 .. MaxStart]
    BY <2>1 DEF PlanStart
  <2>3. pc' \in [Threads -> {"idle", "lock", "check", "count"}]
    BY <1>1 DEF TypeOK, PlanStart
  <2> QED
    BY <2>2, <2>3, <1>1 DEF TypeOK, PlanStart, nicVars, dmnVars
<1>3. LockOK'
  BY <1>1 DEF LockOK, TypeOK, PlanStart
<1>4. \A r, q \in Ranks : Uncounted(r, q)' = Uncounted(r, q)
  BY <1>1, SameUncounted DEF TypeOK, PlanStart
<1> QED
  BY <1>2, <1>3, <1>4, AppFrame DEF PlanStart

\* Destroying a plan posts nothing.
LEMMA PlanDestroyInv ==
    ASSUME VerbsInv, NEW th \in Threads, PlanDestroy(th)
    PROVE  VerbsInv'
<1>1. TypeOK /\ LockOK /\ pc[th] = "idle" /\ lock[Home[th]] # th
  BY DEF VerbsInv, LockOK, PlanDestroy
<1>2. TypeOK'
  BY <1>1 DEF TypeOK, PlanDestroy, nicVars, dmnVars
<1>3. LockOK'
  BY <1>1 DEF LockOK, TypeOK, PlanDestroy
<1>4. \A r, q \in Ranks : Uncounted(r, q)' = Uncounted(r, q)
  BY <1>1, SameUncounted DEF TypeOK, PlanDestroy
<1> QED
  BY <1>2, <1>3, <1>4, AppFrame DEF PlanDestroy

\* The new holder of the lock has nothing uncounted.
LEMMA StartLockInv ==
    ASSUME VerbsInv, NEW th \in Threads, StartLock(th)
    PROVE  VerbsInv'
<1>1. TypeOK /\ LockOK /\ lock[Home[th]] = None /\ Home[th] \in Ranks /\ th # None
  BY VerbsAssumption DEF VerbsInv, StartLock
<1>2. TypeOK'
  BY <1>1 DEF TypeOK, StartLock, nicVars, dmnVars
<1>3. LockOK'
  <2>1. \A u \in Threads : pc'[u] \in {"check", "count"} <=> lock'[Home[u]] = u
    <3> TAKE u \in Threads
    <3>1. Home[u] \in Ranks /\ u # None
      BY VerbsAssumption
    <3>2. /\ pc \in [Threads -> {"idle", "lock", "check", "count"}]
          /\ lock \in [Ranks -> Threads \cup {None}]
          /\ pc[u] \in {"check", "count"} <=> lock[Home[u]] = u
          /\ pc' = [pc EXCEPT ![th] = "check"] /\ lock' = [lock EXCEPT ![Home[th]] = th]
      BY <1>1 DEF LockOK, TypeOK, StartLock
    <3>3. CASE u = th
      BY <3>1, <3>2, <3>3
    <3>4. CASE u # th
      BY <3>1, <3>2, <3>4, <1>1
    <3> QED
      BY <3>3, <3>4
  <2>2. \A r \in Ranks : lock'[r] # None => Home[lock'[r]] = r
    BY <1>1, ZenonT(30) DEF LockOK, TypeOK, StartLock
  <2>3. \A u \in Threads : /\ at'[u] >= 1 /\ (pc'[u] = "count" => at'[u] <= Len(Wrts[u]))
                           /\ plan'[u] = "none" => pc'[u] = "idle"
    BY <1>1 DEF LockOK, TypeOK, StartLock
  <2> QED
    BY <2>1, <2>2, <2>3 DEF LockOK
<1>4. \A r, q \in Ranks : Uncounted(r, q)' = Uncounted(r, q)
  <2> TAKE r, q \in Ranks
  <2>1. CASE r = Home[th]
    BY <2>1, <1>1 DEF StartLock, Uncounted, TypeOK
  <2>2. CASE r # Home[th]
    <3>1. lock'[r] = lock[r] /\ lock[r] \in Threads \cup {None} /\ (lock[r] # None => lock[r] # th)
      BY <2>2, <1>1 DEF StartLock, TypeOK, LockOK
    <3>2. lock[r] # None => pc'[lock[r]] = pc[lock[r]] /\ at'[lock[r]] = at[lock[r]]
      BY <3>1, <1>1 DEF StartLock, TypeOK
    <3> QED
      BY <3>1, <3>2 DEF Uncounted
  <2> QED
    BY <2>1, <2>2
<1> QED
  BY <1>2, <1>3, <1>4, AppFrame DEF StartLock

\* The lock is left with nothing uncounted.
LEMMA StartUnlockInv ==
    ASSUME VerbsInv, NEW th \in Threads, StartUnlock(th)
    PROVE  VerbsInv'
<1>1. /\ TypeOK /\ LockOK /\ Home[th] \in Ranks /\ th # None
      /\ lock[Home[th]] = th /\ pc[th] = "check"
  BY VerbsAssumption DEF VerbsInv, LockOK, StartUnlock
<1>2. TypeOK'
  BY <1>1 DEF TypeOK, StartUnlock, nicVars, dmnVars
<1>3. LockOK'
  <2>1. \A u \in Threads : pc'[u] \in {"check", "count"} <=> lock'[Home[u]] = u
    <3> TAKE u \in Threads
    <3>1. Home[u] \in Ranks /\ u # None
      BY VerbsAssumption
    <3>2. /\ pc \in [Threads -> {"idle", "lock", "check", "count"}]
          /\ lock \in [Ranks -> Threads \cup {None}]
          /\ pc[u] \in {"check", "count"} <=> lock[Home[u]] = u
          /\ pc' = [pc EXCEPT ![th] = "idle"] /\ lock' = [lock EXCEPT ![Home[th]] = None]
      BY <1>1 DEF LockOK, TypeOK, StartUnlock
    <3>3. CASE u = th
      BY <3>1, <3>2, <3>3
    <3>4. CASE u # th
      BY <3>1, <3>2, <3>4, <1>1
    <3> QED
      BY <3>3, <3>4
  <2>2. \A r \in Ranks : lock'[r] # None => Home[lock'[r]] = r
    BY <1>1 DEF LockOK, TypeOK, StartUnlock
  <2>3. \A u \in Threads : /\ at'[u] >= 1 /\ (pc'[u] = "count" => at'[u] <= Len(Wrts[u]))
                           /\ plan'[u] = "none" => pc'[u] = "idle"
    BY <1>1 DEF LockOK, TypeOK, StartUnlock
  <2> QED
    BY <2>1, <2>2, <2>3 DEF LockOK
<1>4. \A r, q \in Ranks : Uncounted(r, q)' = Uncounted(r, q)
  <2> TAKE r, q \in Ranks
  <2>1. CASE r = Home[th]
    BY <2>1, <1>1 DEF StartUnlock, Uncounted, TypeOK
  <2>2. CASE r # Home[th]
    <3>1. lock'[r] = lock[r] /\ lock[r] \in Threads \cup {None} /\ (lock[r] # None => lock[r] # th)
      BY <2>2, <1>1 DEF StartUnlock, TypeOK, LockOK
    <3>2. lock[r] # None => pc'[lock[r]] = pc[lock[r]] /\ at'[lock[r]] = at[lock[r]]
      BY <3>1, <1>1 DEF StartUnlock, TypeOK
    <3> QED
      BY <3>1, <3>2 DEF Uncounted
  <2> QED
    BY <2>1, <2>2
<1> QED
  BY <1>2, <1>3, <1>4, AppFrame DEF StartUnlock

\* The exit after ten seconds posts nothing.
LEMMA SpaceTimeoutInv ==
    ASSUME VerbsInv, NEW th \in Threads, SpaceTimeout(th)
    PROVE  VerbsInv'
<1>1. UNCHANGED <<appVars, nicVars, dmnVars>> /\ err' = "timeout" /\ err = "no"
  BY DEF SpaceTimeout
<1>2. TypeOK'
  BY <1>1 DEF VerbsInv, TypeOK, appVars, nicVars, dmnVars
<1>3. LockOK'
  BY <1>1 DEF VerbsInv, LockOK, appVars
<1>4. \A r, q \in Ranks : Uncounted(r, q)' = Uncounted(r, q)
  BY <1>1 DEF Uncounted, appVars
<1>5. UNCHANGED submit
  BY <1>1 DEF appVars
<1> QED
  BY <1>1, <1>2, <1>3, <1>4, <1>5, AppFrame

\* The lock holder about to test for space has everything counted.
LEMMA HolderCounted ==
    ASSUME VerbsInv, NEW th \in Threads, pc[th] = "check"
    PROVE  lock[Home[th]] = th /\ \A q \in Ranks : Uncounted(Home[th], q) = 0
BY DEF VerbsInv, LockOK, Uncounted

\* The request that PostSend posts.
PostedWR(th) == [op |-> Opcode(W(<<th, at[th]>>)), wrid |-> <<th, at[th]>>, imm |-> <<th, at[th]>>]

\* What a thread posts belongs in the queue pair it posts to.
LEMMA PostedType ==
    ASSUME VerbsInv, NEW th \in Threads, at[th] <= Len(Wrts[th])
    PROVE  /\ <<th, at[th]>> \in Transfers /\ W(<<th, at[th]>>) \in Wrt
           /\ W(<<th, at[th]>>).dst \in Ranks
           /\ PostedWR(th) \in WRs(Home[th], W(<<th, at[th]>>).dst)
           /\ 1 + One(PostedWR(th), FlagWR) = Charge(W(<<th, at[th]>>))
<1> DEFINE t == <<th, at[th]>>
<1>1. at[th] \in Nat /\ at[th] >= 1
  BY DEF VerbsInv, TypeOK, LockOK
<1>2. t \in Transfers /\ W(t) \in Wrt
  BY <1>1, TransferType
<1>3. /\ Charge(W(t)) = 1 + (IF Notifies(W(t)) THEN 1 ELSE 0)
      /\ Opcode(W(t)) \in {"write", "imm", "read"}
      /\ Opcode(W(t)) = "read" <=> W(t).dma = "get"
      /\ W(t).dst \in Ranks
  BY <1>2, ChargeType
<1>4. PostedWR(th) \in WorkRequest
  BY <1>2, <1>3 DEF PostedWR, WorkRequest
<1>5. t[1] = th
  OBVIOUS
<1> HIDE DEF t
<1>6. /\ PostedWR(th).op = Opcode(W(t)) /\ PostedWR(th).wrid = t /\ PostedWR(th).imm = t
  BY DEF PostedWR, t
<1>7. PostedWR(th) \in WRs(Home[th], W(t).dst)
  BY <1>3, <1>4, <1>5, <1>6 DEF WRs
<1>8. PostedWR(th) \in FlagWR <=> Notifies(W(t))
  BY <1>3, <1>4, <1>6 DEF FlagWR, Notifies
<1> QED
  BY <1>2, <1>3, <1>7, <1>8 DEF One, t

\* What ibv_post_send does to a queue that has space.
LEMMA PostEffect ==
    ASSUME VerbsInv, NEW r \in Ranks, NEW q \in Ranks, NEW x \in WRs(r, q),
           used[r][q] < Depth, Post(r, q, x.op, x.wrid, x.imm)
    PROVE  /\ err' = err
           /\ sq' \in [Ranks -> [Ranks -> Seq(WorkRequest)]]
           /\ used' \in [Ranks -> [Ranks -> 0 .. Depth]]
           /\ \A p, d \in Ranks : sq'[p][d] \in Seq(WRs(p, d))
           /\ \A p, d \in Ranks : p # r \/ d # q => sq'[p][d] = sq[p][d] /\ used'[p][d] = used[p][d]
           /\ used'[r][q] = used[r][q] + 1
           /\ Len(sq'[r][q]) = Len(sq[r][q]) + 1
           /\ Count(sq'[r][q], FlagWR) = Count(sq[r][q], FlagWR) + One(x, FlagWR)
<1>1. /\ used \in [Ranks -> [Ranks -> 0 .. Depth]] /\ Depth \in Nat
      /\ used' = [used EXCEPT ![r][q] = @ + 1]
  BY VerbsAssumption DEF VerbsInv, TypeOK, Post
<1>2. used[r] \in [Ranks -> 0 .. Depth] /\ used[r][q] \in 0 .. Depth
  BY <1>1
<1>3. /\ used' \in [Ranks -> [Ranks -> 0 .. Depth]] /\ used'[r][q] = used[r][q] + 1
      /\ \A p, d \in Ranks : p # r \/ d # q => used'[p][d] = used[p][d]
  <2>1. used[r][q] + 1 \in 0 .. Depth
    BY <1>1, <1>2
  <2> QED
    BY <1>1, <1>2, <2>1
<1>4. err' = err
  <2>1. used[r][q] >= Depth \/ UNCHANGED err
    BY DEF Post
  <2> QED
    BY <2>1, <1>1, <1>2
<1>5. x \in WorkRequest /\ x = [op |-> x.op, wrid |-> x.wrid, imm |-> x.imm]
  BY DEF WRs, WorkRequest
<1>6. sq' = [sq EXCEPT ![r][q] = Append(sq[r][q], x)] /\ sq \in [Ranks -> [Ranks -> Seq(WorkRequest)]]
  BY <1>5 DEF Post, VerbsInv, TypeOK
<1>7. sq[r] \in [Ranks -> Seq(WorkRequest)] /\ sq[r][q] \in Seq(WorkRequest)
  BY <1>6
<1>8. /\ sq'[r][q] = Append(sq[r][q], x)
      /\ \A p, d \in Ranks : p # r \/ d # q => sq'[p][d] = sq[p][d]
  BY <1>6, <1>7
<1>9. sq' \in [Ranks -> [Ranks -> Seq(WorkRequest)]]
  <2>1. Append(sq[r][q], x) \in Seq(WorkRequest)
    BY <1>5, <1>7
  <2> QED
    BY <1>6, <1>7, <2>1
<1>10. \A p, d \in Ranks : sq'[p][d] \in Seq(WRs(p, d))
  <2> TAKE p, d \in Ranks
  <2>1. sq[p][d] \in Seq(WRs(p, d))
    BY DEF VerbsInv, ElementsOK
  <2>2. CASE p = r /\ d = q
    <3> DEFINE S == WRs(r, q)
    <3>1. sq[r][q] \in Seq(S) /\ x \in S
      BY <2>1, <2>2
    <3> HIDE DEF S
    <3>2. Append(sq[r][q], x) \in Seq(S)
      BY <3>1
    <3> QED
      BY <3>2, <2>2, <1>8 DEF S
  <2>3. CASE p # r \/ d # q
    BY <2>1, <2>3, <1>8
  <2> QED
    BY <2>2, <2>3
<1>11. /\ Len(sq'[r][q]) = Len(sq[r][q]) + 1
       /\ Count(sq'[r][q], FlagWR) = Count(sq[r][q], FlagWR) + One(x, FlagWR)
  BY <1>5, <1>7, <1>8, CountAppend
<1> QED
  BY <1>3, <1>4, <1>8, <1>9, <1>10, <1>11

\* A post after the wait for space fits, whatever the daemon has done since.
LEMMA PostSendInv ==
    ASSUME VerbsInv, NEW th \in Threads, PostSend(th)
    PROVE  VerbsInv'
<1> DEFINE r == Home[th]
           q == W(<<th, at[th]>>).dst
           x == PostedWR(th)
<1>1. /\ TypeOK /\ LockOK /\ ElementsOK /\ Credit /\ err = "no"
      /\ pc[th] = "check" /\ at[th] <= Len(Wrts[th]) /\ r \in Ranks /\ Depth \in Nat
  BY VerbsAssumption DEF VerbsInv, PostSend
<1>2. /\ <<th, at[th]>> \in Transfers /\ W(<<th, at[th]>>) \in Wrt /\ q \in Ranks
      /\ x \in WRs(r, q)
      /\ 1 + One(x, FlagWR) = Charge(W(<<th, at[th]>>))
  BY <1>1, PostedType
<1>3. lock[r] = th /\ \A d \in Ranks : Uncounted(r, d) = 0
  BY <1>1, HolderCounted
<1>4. /\ submit[r][q] \in Nat /\ finish[r][q] \in Nat /\ Load(r, q) \in Nat
      /\ used[r][q] \in Nat /\ Pending(r, q) \in Nat /\ Count(batch[r], Sends(q)) \in Nat
      /\ Noted(r, q) \in {0, 1}
  BY <1>1, <1>2, CreditTypes
<1>5. submit[r][q] = finish[r][q] + Load(r, q)
  <2>1. submit[r][q] + Uncounted(r, q) = finish[r][q] + Load(r, q)
    BY <1>1, <1>2 DEF Credit
  <2> QED
    BY <2>1, <1>2, <1>3, <1>4
<1>6. /\ HasSpace(r, q) /\ Post(r, q, x.op, x.wrid, x.imm)
      /\ pc' = [pc EXCEPT ![th] = "count"]
      /\ UNCHANGED <<plan, starts, at, lock, submit, srq, cq, dmnVars>>
  BY <1>4, <1>5 DEF PostSend, PostedWR
<1>7. Load(r, q) <= Depth - 1 /\ used[r][q] <= Load(r, q)
  BY <1>1, <1>4, <1>5, <1>6 DEF HasSpace, Outstanding, Load
<1>8. used[r][q] < Depth
  BY <1>1, <1>4, <1>7
<1> HIDE DEF r, q, x
<1>9. /\ err' = err
      /\ sq' \in [Ranks -> [Ranks -> Seq(WorkRequest)]]
      /\ used' \in [Ranks -> [Ranks -> 0 .. Depth]]
      /\ \A p, d \in Ranks : sq'[p][d] \in Seq(WRs(p, d))
      /\ \A p, d \in Ranks : p # r \/ d # q => sq'[p][d] = sq[p][d] /\ used'[p][d] = used[p][d]
      /\ used'[r][q] = used[r][q] + 1
      /\ Len(sq'[r][q]) = Len(sq[r][q]) + 1
      /\ Count(sq'[r][q], FlagWR) = Count(sq[r][q], FlagWR) + One(x, FlagWR)
  BY <1>1, <1>2, <1>6, <1>8, PostEffect
<1>10. UNCHANGED <<plan, starts, at, lock, submit, srq, cq, finish, batch, numWr, note, events>>
  BY <1>6 DEF dmnVars
<1>11. TypeOK'
  <2>1. pc' \in [Threads -> {"idle", "lock", "check", "count"}]
    BY <1>1, <1>6 DEF TypeOK
  <2> QED
    BY <2>1, <1>1, <1>9, <1>10 DEF TypeOK
<1>12. ElementsOK'
  BY <1>1, <1>9, <1>10 DEF ElementsOK
<1>13. LockOK'
  BY <1>1, <1>6, <1>10 DEF LockOK, TypeOK
<1>14. SrqExact' /\ PostFits' /\ CountersOrdered'
  BY <1>9, <1>10 DEF VerbsInv, SrqExact, PostFits, CountersOrdered
<1>15. Credit'
  <2> SUFFICES ASSUME NEW p \in Ranks, NEW d \in Ranks
               PROVE  /\ submit'[p][d] + Uncounted(p, d)' = finish'[p][d] + Load(p, d)'
                      /\ used'[p][d] = Len(sq'[p][d]) + Count(cq'[p], Sends(d))
                      /\ Load(p, d)' <= Depth + 1
                      /\ Pending(p, d)' = 0 => Load(p, d)' <= Depth
    BY DEF Credit
  <2>1. /\ submit[p][d] + Uncounted(p, d) = finish[p][d] + Load(p, d)
        /\ used[p][d] = Len(sq[p][d]) + Count(cq[p], Sends(d))
        /\ Load(p, d) <= Depth + 1
        /\ Pending(p, d) = 0 => Load(p, d) <= Depth
    BY <1>1 DEF Credit
  <2>2. Uncounted(p, d)' = IF p = r /\ d = q THEN 1 + One(x, FlagWR) ELSE Uncounted(p, d)
    <3>1. CASE p = r
      <4>1. lock'[p] = th /\ pc'[th] = "count" /\ at' = at /\ th # None
        BY <3>1, <1>1, <1>3, <1>6, <1>10, VerbsAssumption DEF TypeOK
      <4>2. Uncounted(p, d)' = IF q = d THEN Charge(W(<<th, at[th]>>)) ELSE 0
        BY <4>1 DEF Uncounted, q
      <4> QED
        BY <4>2, <3>1, <1>2, <1>3
    <3>2. CASE p # r
      <4>1. lock'[p] = lock[p] /\ at' = at /\ (lock[p] # None => lock[p] # th)
        BY <3>2, <1>1, <1>10 DEF LockOK, r
      <4>2. lock[p] # None => pc'[lock[p]] = pc[lock[p]]
        BY <4>1, <1>1, <1>6 DEF TypeOK
      <4> QED
        BY <4>1, <4>2, <3>2 DEF Uncounted
    <3> QED
      BY <3>1, <3>2
  <2>3. CASE p # r \/ d # q
    <3>1. Load(p, d)' = Load(p, d) /\ Pending(p, d)' = Pending(p, d)
      BY <2>3, <1>9, <1>10, SameLoad
    <3> QED
      BY <3>1, <2>1, <2>2, <2>3, <1>9, <1>10
  <2>4. CASE p = r /\ d = q
    <3>1. One(x, FlagWR) \in {0, 1}
      BY OneType
    <3>2. /\ Len(sq[p][d]) \in Nat /\ Count(sq[p][d], FlagWR) \in Nat
          /\ Count(cq[p], Sends(d)) \in Nat /\ Count(cq[p], FlagC(d)) \in Nat
          /\ Count(batch[p], FlagC(d)) \in Nat /\ Count(batch[p], Sends(d)) \in Nat
          /\ submit[p][d] \in Nat /\ finish[p][d] \in Nat /\ Load(p, d) \in Nat
          /\ used[p][d] \in Nat /\ Pending(p, d) \in Nat /\ Noted(p, d) \in {0, 1}
      BY <1>1, CreditTypes
    <3>3. /\ Len(sq'[p][d]) = Len(sq[p][d]) + 1 /\ used'[p][d] = used[p][d] + 1
          /\ Count(sq'[p][d], FlagWR) = Count(sq[p][d], FlagWR) + One(x, FlagWR)
          /\ cq' = cq /\ batch' = batch /\ note' = note /\ submit' = submit /\ finish' = finish
      BY <2>4, <1>9, <1>10
    <3>4. Pending(p, d)' = Pending(p, d) + One(x, FlagWR)
      BY <3>1, <3>2, <3>3 DEF Pending
    <3>5. Noted(p, d)' = Noted(p, d)
      BY <3>3 DEF Noted
    <3>6. Load(p, d)' = Load(p, d) + 1 + One(x, FlagWR)
      <4>1. Load(p, d) = used[p][d] + Count(batch[p], Sends(d)) + Pending(p, d) + Noted(p, d)
        BY DEF Load
      <4>2. Load(p, d)' = used[p][d] + 1 + Count(batch[p], Sends(d)) + Pending(p, d)'
                            + Noted(p, d)'
        BY <3>3 DEF Load
      <4>3. /\ One(x, FlagWR) \in Nat /\ Noted(p, d) \in Nat /\ Pending(p, d)' \in Nat
            /\ used[p][d] \in Nat /\ Count(batch[p], Sends(d)) \in Nat /\ Pending(p, d) \in Nat
        BY <3>1, <3>2, <3>4
      <4> QED
        BY <4>1, <4>2, <4>3, <3>4, <3>5
    <3>7. submit'[p][d] + Uncounted(p, d)' = finish'[p][d] + Load(p, d)'
      <4>1. Uncounted(p, d) = 0 /\ Uncounted(p, d)' = 1 + One(x, FlagWR)
        BY <1>3, <2>2, <2>4
      <4>2. submit[p][d] = finish[p][d] + Load(p, d)
        BY <4>1, <2>1, <3>2
      <4>3. submit'[p][d] = submit[p][d] /\ finish'[p][d] = finish[p][d]
        BY <3>3
      <4>4. One(x, FlagWR) \in Nat /\ Load(p, d) \in Nat /\ finish[p][d] \in Nat
        BY <3>1, <3>2
      <4> QED
        BY <4>1, <4>2, <4>3, <4>4, <3>6
    <3>8. used'[p][d] = Len(sq'[p][d]) + Count(cq'[p], Sends(d))
      BY <3>2, <3>3, <2>1, SMTT(30)
    <3>9. Load(p, d)' <= Depth + 1 /\ (Pending(p, d)' = 0 => Load(p, d)' <= Depth)
      BY <3>1, <3>2, <3>4, <3>6, <2>4, <1>1, <1>7
    <3> QED
      BY <3>7, <3>8, <3>9
  <2> QED
    BY <2>3, <2>4
<1> QED
  BY <1>11, <1>12, <1>13, <1>14, <1>15 DEF VerbsInv

\* Counting a posted request pays for it and for its notification.
LEMMA CountSubmitInv ==
    ASSUME VerbsInv, NEW th \in Threads, CountSubmit(th)
    PROVE  VerbsInv'
<1> DEFINE r == Home[th]
           w == W(<<th, at[th]>>)
<1>1. /\ TypeOK /\ LockOK /\ ElementsOK /\ Credit /\ err = "no" /\ pc[th] = "count"
      /\ r \in Ranks /\ lock[r] = th /\ at[th] <= Len(Wrts[th]) /\ th # None
  BY VerbsAssumption DEF VerbsInv, CountSubmit, LockOK
<1>2. w \in Wrt /\ w.dst \in Ranks /\ Charge(w) \in Nat
  BY <1>1, PostedType DEF Charge
<1> HIDE DEF r, w
<1>3. /\ submit' = [submit EXCEPT ![r][w.dst] = @ + Charge(w)]
      /\ at' = [at EXCEPT ![th] = @ + 1] /\ pc' = [pc EXCEPT ![th] = "check"]
      /\ UNCHANGED <<plan, starts, lock, sq, used, srq, cq, finish, batch, numWr, note, events, err>>
  BY DEF CountSubmit, r, w, nicVars, dmnVars
<1>4. /\ submit' \in [Ranks -> [Ranks -> Nat]]
      /\ \A p, d \in Ranks : submit'[p][d] = IF p = r /\ d = w.dst THEN submit[p][d] + Charge(w)
                                             ELSE submit[p][d]
  <2>1. submit \in [Ranks -> [Ranks -> Nat]]
    BY <1>1 DEF TypeOK
  <2>2. submit[r] \in [Ranks -> Nat] /\ submit[r][w.dst] + Charge(w) \in Nat
    BY <2>1, <1>1, <1>2
  <2> QED
    BY <2>1, <2>2, <1>1, <1>2, <1>3
<1>5. TypeOK'
  <2>1. at' \in [Threads -> Nat]
    BY <1>1, <1>3 DEF TypeOK
  <2>2. pc' \in [Threads -> {"idle", "lock", "check", "count"}]
    BY <1>1, <1>3 DEF TypeOK
  <2> QED
    BY <2>1, <2>2, <1>1, <1>3, <1>4 DEF TypeOK
<1>6. ElementsOK'
  BY <1>1, <1>3 DEF ElementsOK
<1>7. LockOK'
  BY <1>1, <1>3 DEF LockOK, TypeOK
<1>8. SrqExact' /\ PostFits' /\ CountersOrdered'
  BY <1>3 DEF VerbsInv, SrqExact, PostFits, CountersOrdered
<1>9. Credit'
  <2> SUFFICES ASSUME NEW p \in Ranks, NEW d \in Ranks
               PROVE  /\ submit'[p][d] + Uncounted(p, d)' = finish'[p][d] + Load(p, d)'
                      /\ used'[p][d] = Len(sq'[p][d]) + Count(cq'[p], Sends(d))
                      /\ Load(p, d)' <= Depth + 1
                      /\ Pending(p, d)' = 0 => Load(p, d)' <= Depth
    BY DEF Credit
  <2>1. /\ submit[p][d] + Uncounted(p, d) = finish[p][d] + Load(p, d)
        /\ used[p][d] = Len(sq[p][d]) + Count(cq[p], Sends(d))
        /\ Load(p, d) <= Depth + 1
        /\ Pending(p, d) = 0 => Load(p, d) <= Depth
    BY <1>1 DEF Credit
  <2>2. Load(p, d)' = Load(p, d) /\ Pending(p, d)' = Pending(p, d)
    BY <1>3, SameLoad
  <2>3. submit'[p][d] + Uncounted(p, d)' = submit[p][d] + Uncounted(p, d)
    <3>1. CASE p = r
      <4>1. Uncounted(p, d)' = 0
        BY <3>1, <1>1, <1>3 DEF Uncounted, TypeOK
      <4>2. Uncounted(p, d) = IF d = w.dst THEN Charge(w) ELSE 0
        BY <3>1, <1>1 DEF Uncounted, w
      <4>3. submit[p][d] \in Nat
        BY <1>1, CreditTypes
      <4> QED
        BY <3>1, <4>1, <4>2, <4>3, <1>2, <1>4
    <3>2. CASE p # r
      <4>1. lock' = lock /\ lock[p] \in Threads \cup {None} /\ (lock[p] # None => lock[p] # th)
        BY <3>2, <1>1, <1>3 DEF LockOK, TypeOK, r
      <4>2. lock[p] # None => pc'[lock[p]] = pc[lock[p]] /\ at'[lock[p]] = at[lock[p]]
        BY <4>1, <1>1, <1>3 DEF TypeOK
      <4>3. Uncounted(p, d)' = Uncounted(p, d)
        BY <4>1, <4>2 DEF Uncounted
      <4> QED
        BY <3>2, <4>3, <1>4
    <3> QED
      BY <3>1, <3>2
  <2> QED
    BY <2>1, <2>2, <2>3, <1>3
<1> QED
  BY <1>5, <1>6, <1>7, <1>8, <1>9 DEF VerbsInv

-----------------------------------------------------------------------------
(* The interface and the daemon *)

\* A step of the interface or of a daemon leaves the threads alone.
LEMMA DaemonFrame ==
    ASSUME VerbsInv, UNCHANGED appVars
    PROVE  /\ LockOK' /\ \A r, q \in Ranks : Uncounted(r, q)' = Uncounted(r, q)
BY DEF VerbsInv, LockOK, Uncounted, appVars

\* An element appended to a sequence of elements of S.
LEMMA AppendType ==
    ASSUME NEW S, NEW s \in Seq(S), NEW x \in S
    PROVE  Append(s, x) \in Seq(S)
OBVIOUS

\* Two completions are appended one after the other.
LEMMA AppendTwice ==
    ASSUME NEW S, NEW s \in Seq(S), NEW x \in S, NEW y \in S
    PROVE  s \o <<x, y>> = Append(Append(s, x), y)
<1>1. Append(s, x) = s \o <<x>> /\ Append(s, x) \in Seq(S)
  BY AppendIsConcat
<1>2. Append(Append(s, x), y) = Append(s, x) \o <<y>>
  BY <1>1, AppendIsConcat
<1>3. <<x>> \in Seq(S) /\ <<y>> \in Seq(S) /\ <<x>> \o <<y>> = <<x, y>>
  <2>1. <<x>> \in Seq(S) /\ <<y>> \in Seq(S) /\ <<x, y>> \in Seq(S)
    OBVIOUS
  <2>2. /\ Len(<<x>> \o <<y>>) = 2 /\ <<x>> \o <<y>> \in Seq(S)
        /\ (<<x>> \o <<y>>)[1] = x /\ (<<x>> \o <<y>>)[2] = y
    BY <2>1
  <2>3. Len(<<x, y>>) = 2 /\ <<x, y>>[1] = x /\ <<x, y>>[2] = y
    OBVIOUS
  <2>4. \A i \in 1 .. 2 : i = 1 \/ i = 2
    OBVIOUS
  <2> QED
    BY <2>1, <2>2, <2>3, <2>4, SeqEqual
<1>4. (s \o <<x>>) \o <<y>> = s \o (<<x>> \o <<y>>)
  BY <1>3, ConcatAssociative
<1> QED
  BY <1>1, <1>2, <1>3, <1>4

\* A sequence that is not empty has a head and a tail of its type.
LEMMA TailType ==
    ASSUME NEW S, NEW s \in Seq(S), s # <<>>
    PROVE  /\ Head(s) \in S /\ Tail(s) \in Seq(S) /\ Len(Tail(s)) = Len(s) - 1 /\ Len(s) \in Nat
OBVIOUS

\* Receive requests go back to the SRQ.
LEMMA RepostInv ==
    ASSUME VerbsInv, NEW r \in Ranks, Repost(r)
    PROVE  VerbsInv'
<1>1. /\ TypeOK /\ ElementsOK /\ Credit /\ SrqExact /\ err = "no" /\ batch[r] = <<>>
      /\ srq' = [srq EXCEPT ![r] = @ + numWr[r]] /\ numWr' = [numWr EXCEPT ![r] = 0]
      /\ UNCHANGED appVars
      /\ UNCHANGED <<sq, used, cq, finish, batch, note, events, err>>
  BY DEF VerbsInv, Repost
<1>2. LockOK' /\ \A p, d \in Ranks : Uncounted(p, d)' = Uncounted(p, d)
  BY <1>1, DaemonFrame
<1>3. /\ srq \in [Ranks -> 0 .. SrqDepth] /\ numWr \in [Ranks -> Nat] /\ SrqDepth \in Nat
      /\ cq[r] \in Seq(Completion)
  BY <1>1, VerbsAssumption DEF TypeOK
<1>4. Behind(cq[r]) \in Nat /\ Behind(batch[r]) = 0
  BY <1>1, <1>3, BehindIsCount, CountType, CountEmpty, EmptySeq, ZenonT(30)
<1>5. srq[r] + Behind(cq[r]) + Behind(batch[r]) + numWr[r] = SrqDepth
  BY <1>1 DEF SrqExact
<1>6. srq[r] + numWr[r] \in 0 .. SrqDepth
  BY <1>3, <1>4, <1>5
<1>7. TypeOK'
  <2>1. srq' \in [Ranks -> 0 .. SrqDepth] /\ numWr' \in [Ranks -> Nat]
    BY <1>1, <1>3, <1>6
  <2> QED
    BY <2>1, <1>1 DEF TypeOK, appVars
<1>8. ElementsOK'
  BY <1>1 DEF ElementsOK
<1>9. SrqExact'
  <2> SUFFICES ASSUME NEW p \in Ranks
               PROVE  srq'[p] + Behind(cq'[p]) + Behind(batch'[p]) + numWr'[p] = SrqDepth
    BY DEF SrqExact
  <2>1. CASE p = r
    BY <2>1, <1>1, <1>3, <1>4, <1>5
  <2>2. CASE p # r
    <3>1. srq[p] + Behind(cq[p]) + Behind(batch[p]) + numWr[p] = SrqDepth
      BY <1>1 DEF SrqExact
    <3>2. srq'[p] = srq[p] /\ numWr'[p] = numWr[p] /\ cq' = cq /\ batch' = batch
      BY <2>2, <1>1, <1>3
    <3> QED
      BY <3>1, <3>2
  <2> QED
    BY <2>1, <2>2
<1>10. Credit'
  <2>1. \A p, d \in Ranks : Load(p, d)' = Load(p, d) /\ Pending(p, d)' = Pending(p, d)
    BY <1>1, SameLoad
  <2> QED
    BY <2>1, <1>1, <1>2 DEF Credit, appVars
<1> QED
  BY <1>1, <1>2, <1>7, <1>8, <1>9, <1>10 DEF VerbsInv, PostFits, CountersOrdered

\* Polled completions free their entries and remain to be finished.
LEMMA PollInv ==
    ASSUME VerbsInv, NEW r \in Ranks, Poll(r)
    PROVE  VerbsInv'
<1>1. /\ TypeOK /\ ElementsOK /\ LockOK /\ Credit /\ SrqExact /\ err = "no"
      /\ batch[r] = <<>> /\ note[r] = None /\ numWr[r] = 0
      /\ batch' = [batch EXCEPT ![r] = cq[r]] /\ cq' = [cq EXCEPT ![r] = <<>>]
      /\ used' = [used EXCEPT ![r] = [q \in Ranks |-> @[q] - Polled(r, q)]]
      /\ UNCHANGED appVars /\ UNCHANGED <<sq, srq, finish, numWr, note, events, err>>
  BY DEF VerbsInv, Poll
<1>2. LockOK' /\ \A p, d \in Ranks : Uncounted(p, d)' = Uncounted(p, d)
  BY <1>1, DaemonFrame
<1>3. /\ cq \in [Ranks -> Seq(Completion)] /\ batch \in [Ranks -> Seq(Completion)]
      /\ used \in [Ranks -> [Ranks -> 0 .. Depth]] /\ Depth \in Nat
  BY <1>1, VerbsAssumption DEF TypeOK
<1>4. /\ \A p \in Ranks : p # r => cq'[p] = cq[p] /\ batch'[p] = batch[p] /\ used'[p] = used[p]
      /\ cq'[r] = <<>> /\ batch'[r] = cq[r]
      /\ \A d \in Ranks : used'[r][d] = used[r][d] - Count(cq[r], Sends(d))
  <2>1. \A d \in Ranks : used'[r][d] = used[r][d] - Polled(r, d)
    BY <1>1, <1>3
  <2>2. \A d \in Ranks : Polled(r, d) = Count(cq[r], Sends(d))
    BY <1>1, PolledIsCount
  <2> QED
    BY <2>1, <2>2, <1>1, <1>3
<1>5. \A d \in Ranks : /\ used[r][d] = Len(sq[r][d]) + Count(cq[r], Sends(d))
                        /\ used'[r][d] = Len(sq[r][d]) /\ used'[r][d] \in 0 .. Depth
  <2> TAKE d \in Ranks
  <2>1. /\ used[r][d] \in Nat /\ used[r][d] <= Depth /\ Depth \in Nat
        /\ Count(cq[r], Sends(d)) \in Nat /\ Len(sq[r][d]) \in Nat
    BY <1>1, CreditTypes
  <2>2. used[r][d] = Len(sq[r][d]) + Count(cq[r], Sends(d))
    BY <1>1 DEF Credit
  <2> QED
    BY <2>1, <2>2, <1>4
<1>6. TypeOK'
  <2>1. used' \in [Ranks -> [Ranks -> 0 .. Depth]]
    <3>1. used'[r] \in [Ranks -> 0 .. Depth]
      <4>1. used'[r] = [q \in Ranks |-> used[r][q] - Polled(r, q)]
        BY <1>1, <1>3
      <4> QED
        BY <4>1, <1>5
    <3> QED
      BY <3>1, <1>1, <1>3
  <2>2. cq' \in [Ranks -> Seq(Completion)] /\ batch' \in [Ranks -> Seq(Completion)]
    BY <1>1, <1>3, EmptySeq
  <2> QED
    BY <2>1, <2>2, <1>1 DEF TypeOK, appVars
<1>7. ElementsOK'
  <2>1. cq[r] \in Seq(Comps(r)) /\ <<>> \in Seq(Comps(r))
    BY <1>1, EmptySeq DEF ElementsOK
  <2> QED
    BY <2>1, <1>1, <1>4 DEF ElementsOK
<1>8. SrqExact'
  <2> SUFFICES ASSUME NEW p \in Ranks
               PROVE  srq'[p] + Behind(cq'[p]) + Behind(batch'[p]) + numWr'[p] = SrqDepth
    BY DEF SrqExact
  <2>1. srq[p] + Behind(cq[p]) + Behind(batch[p]) + numWr[p] = SrqDepth
    BY <1>1 DEF SrqExact
  <2>2. CASE p = r
    <3>1. Behind(cq[p]) \in Nat /\ Behind(<<>>) = 0 /\ srq[p] \in Nat /\ numWr[p] \in Nat
      <4>1. <<>> \in Seq(Completion) /\ cq[p] \in Seq(Completion)
        BY <1>3, EmptySeq
      <4>2. srq[p] \in Nat /\ numWr[p] \in Nat
        <5>1. srq[p] \in 0 .. SrqDepth /\ SrqDepth \in Nat /\ numWr[p] \in Nat
          BY <1>1, VerbsAssumption DEF TypeOK
        <5> QED
          BY <5>1
      <4> QED
        BY <4>1, <4>2, BehindIsCount, CountType, CountEmpty
    <3> QED
      BY <3>1, <2>1, <2>2, <1>1, <1>4
  <2>3. CASE p # r
    BY <2>1, <2>3, <1>1, <1>4
  <2> QED
    BY <2>2, <2>3
<1>9. Credit'
  <2> SUFFICES ASSUME NEW p \in Ranks, NEW d \in Ranks
               PROVE  /\ submit'[p][d] + Uncounted(p, d)' = finish'[p][d] + Load(p, d)'
                      /\ used'[p][d] = Len(sq'[p][d]) + Count(cq'[p], Sends(d))
                      /\ Load(p, d)' <= Depth + 1
                      /\ Pending(p, d)' = 0 => Load(p, d)' <= Depth
    BY DEF Credit
  <2>1. /\ submit[p][d] + Uncounted(p, d) = finish[p][d] + Load(p, d)
        /\ used[p][d] = Len(sq[p][d]) + Count(cq[p], Sends(d))
        /\ Load(p, d) <= Depth + 1
        /\ Pending(p, d) = 0 => Load(p, d) <= Depth
    BY <1>1 DEF Credit
  <2>2. submit' = submit
    BY <1>1 DEF appVars
  <2>3. CASE p # r
    <3>1. Load(p, d)' = Load(p, d) /\ Pending(p, d)' = Pending(p, d)
      BY <2>3, <1>1, <1>4, SameLoad
    <3> QED
      BY <3>1, <2>1, <2>2, <2>3, <1>1, <1>2, <1>4
  <2>4. CASE p = r
    <3>1. /\ Count(<<>>, FlagC(d)) = 0 /\ Count(<<>>, Sends(d)) = 0
          /\ Count(cq[p], FlagC(d)) \in Nat /\ Count(sq[p][d], FlagWR) \in Nat
          /\ Count(cq[p], Sends(d)) \in Nat /\ used[p][d] \in Nat /\ Pending(p, d) \in Nat
          /\ Noted(p, d) \in Nat /\ Len(sq[p][d]) \in Nat
      <4>1. Count(<<>>, FlagC(d)) = 0 /\ Count(<<>>, Sends(d)) = 0
        BY CountEmpty
      <4>2. Noted(p, d) \in Nat
        BY DEF Noted
      <4> QED
        BY <4>1, <4>2, <1>1, CreditTypes
    <3>2. Pending(p, d)' = Pending(p, d)
      BY <3>1, <2>4, <1>1, <1>4 DEF Pending
    <3>3. Noted(p, d)' = Noted(p, d)
      BY <1>1 DEF Noted
    <3>4. Load(p, d)' = Load(p, d)
      <4>1. Load(p, d) = used[p][d] + 0 + Pending(p, d) + Noted(p, d)
        BY <3>1, <2>4, <1>1 DEF Load
      <4>2. Load(p, d)' = used[p][d] - Count(cq[p], Sends(d)) + Count(cq[p], Sends(d))
                            + Pending(p, d) + Noted(p, d)
        BY <3>2, <3>3, <2>4, <1>4 DEF Load
      <4> QED
        BY <4>1, <4>2, <3>1
    <3>5. used'[p][d] = Len(sq'[p][d]) + Count(cq'[p], Sends(d))
      BY <3>1, <2>4, <1>1, <1>4, <1>5
    <3> QED
      BY <3>2, <3>4, <3>5, <2>1, <2>2, <1>1, <1>2
  <2> QED
    BY <2>3, <2>4
<1> QED
  BY <1>1, <1>2, <1>6, <1>7, <1>8, <1>9 DEF VerbsInv, PostFits, CountersOrdered

\* A notification always finds an entry: while it is due, the load is at most
\* Depth, or Depth + 1 with another GET to be processed.
LEMMA NotifyInv ==
    ASSUME VerbsInv, NEW r \in Ranks, Notify(r)
    PROVE  VerbsInv'
<1> SUFFICES ASSUME NEW t \in Transfers, t = note[r] PROVE VerbsInv'
  BY DEF Notify, VerbsInv, TypeOK
<1> DEFINE q == W(t).dst
           x == [op |-> "imm", wrid |-> None, imm |-> t]
<1>1. /\ TypeOK /\ ElementsOK /\ LockOK /\ Credit /\ SrqExact /\ err = "no"
      /\ note[r] = t /\ t # None
      /\ Post(r, q, "imm", None, t) /\ note' = [note EXCEPT ![r] = None]
      /\ UNCHANGED appVars /\ UNCHANGED <<srq, cq, finish, batch, numWr, events>>
  BY DEF VerbsInv, Notify
<1>2. LockOK' /\ \A p, d \in Ranks : Uncounted(p, d)' = Uncounted(p, d)
  BY <1>1, DaemonFrame
<1>3. q \in Ranks /\ Home[t[1]] = r /\ Notifies(W(t))
  BY <1>1, TransferType DEF ElementsOK, Wrt
<1>4. x \in WRs(r, q) /\ One(x, FlagWR) = 0
  BY <1>3 DEF WRs, WorkRequest, FlagWR, One
<1>5. x.op = "imm" /\ x.wrid = None /\ x.imm = t
  OBVIOUS
<1>6. used[r][q] < Depth
  <2>1. /\ used[r][q] \in Nat /\ Depth \in Nat /\ Count(batch[r], Sends(q)) \in Nat
        /\ Pending(r, q) \in Nat
    BY <1>1, <1>3, CreditTypes
  <2>2. Noted(r, q) = 1
    BY <1>1 DEF Noted
  <2>3. Load(r, q) = used[r][q] + Count(batch[r], Sends(q)) + Pending(r, q) + 1
    BY <2>2 DEF Load
  <2>4. Load(r, q) <= Depth + 1 /\ (Pending(r, q) = 0 => Load(r, q) <= Depth)
    BY <1>1, <1>3 DEF Credit
  <2> QED
    BY <2>1, <2>3, <2>4
<1> HIDE DEF q, x
<1>7. /\ err' = err
      /\ sq' \in [Ranks -> [Ranks -> Seq(WorkRequest)]]
      /\ used' \in [Ranks -> [Ranks -> 0 .. Depth]]
      /\ \A p, d \in Ranks : sq'[p][d] \in Seq(WRs(p, d))
      /\ \A p, d \in Ranks : p # r \/ d # q => sq'[p][d] = sq[p][d] /\ used'[p][d] = used[p][d]
      /\ used'[r][q] = used[r][q] + 1
      /\ Len(sq'[r][q]) = Len(sq[r][q]) + 1
      /\ Count(sq'[r][q], FlagWR) = Count(sq[r][q], FlagWR) + One(x, FlagWR)
  BY <1>1, <1>3, <1>4, <1>5, <1>6, PostEffect
<1>8. TypeOK'
  <2>1. note' \in [Ranks -> Transfers \cup {None}]
    BY <1>1 DEF TypeOK
  <2> QED
    BY <2>1, <1>1, <1>7 DEF TypeOK, appVars
<1>9. ElementsOK'
  <2>1. \A p \in Ranks : note'[p] = IF p = r THEN None ELSE note[p]
    BY <1>1 DEF TypeOK
  <2>2. \A p \in Ranks : note'[p] # None => Home[note'[p][1]] = p /\ Notifies(W(note'[p]))
    BY <2>1, <1>1 DEF ElementsOK
  <2>3. \A p \in Ranks : cq'[p] \in Seq(Comps(p)) /\ batch'[p] \in Seq(Comps(p))
    BY <1>1 DEF ElementsOK
  <2> QED
    BY <2>2, <2>3, <1>7 DEF ElementsOK
<1>10. SrqExact'
  BY <1>1 DEF SrqExact
<1>11. Credit'
  <2> SUFFICES ASSUME NEW p \in Ranks, NEW d \in Ranks
               PROVE  /\ submit'[p][d] + Uncounted(p, d)' = finish'[p][d] + Load(p, d)'
                      /\ used'[p][d] = Len(sq'[p][d]) + Count(cq'[p], Sends(d))
                      /\ Load(p, d)' <= Depth + 1
                      /\ Pending(p, d)' = 0 => Load(p, d)' <= Depth
    BY DEF Credit
  <2>1. /\ submit[p][d] + Uncounted(p, d) = finish[p][d] + Load(p, d)
        /\ used[p][d] = Len(sq[p][d]) + Count(cq[p], Sends(d))
        /\ Load(p, d) <= Depth + 1
        /\ Pending(p, d) = 0 => Load(p, d) <= Depth
    BY <1>1 DEF Credit
  <2>2. submit' = submit
    BY <1>1 DEF appVars
  <2>3. /\ Len(sq[p][d]) \in Nat /\ Count(sq[p][d], FlagWR) \in Nat
        /\ Count(cq[p], Sends(d)) \in Nat /\ used[p][d] \in Nat /\ Pending(p, d) \in Nat
        /\ Count(batch[p], Sends(d)) \in Nat
    BY <1>1, CreditTypes
  <2>4. Pending(p, d)' = Pending(p, d)
    <3>1. Count(sq'[p][d], FlagWR) = Count(sq[p][d], FlagWR)
      <4>1. CASE p = r /\ d = q
        <5>1. Count(sq'[p][d], FlagWR) = Count(sq[p][d], FlagWR) + 0
          BY <4>1, <1>4, <1>7
        <5> QED
          BY <5>1, <2>3
      <4>2. CASE p # r \/ d # q
        BY <4>2, <1>7
      <4> QED
        BY <4>1, <4>2
    <3> QED
      BY <3>1, <1>1 DEF Pending
  <2>5. Load(p, d)' = Load(p, d)
    <3>1. CASE p = r /\ d = q
      <4>1. Noted(p, d) = 1 /\ Noted(p, d)' = 0
        BY <3>1, <1>1 DEF Noted, q, TypeOK
      <4>2. Load(p, d) = used[p][d] + Count(batch[p], Sends(d)) + Pending(p, d) + 1
        BY <4>1 DEF Load
      <4>3. Load(p, d)' = used[p][d] + 1 + Count(batch[p], Sends(d)) + Pending(p, d) + 0
        BY <4>1, <3>1, <2>4, <1>1, <1>7 DEF Load
      <4> QED
        BY <4>2, <4>3, <2>3
    <3>2. CASE p # r \/ d # q
      <4>1. Noted(p, d)' = Noted(p, d)
        BY <3>2, <1>1 DEF Noted, q, TypeOK
      <4> QED
        BY <4>1, <3>2, <2>4, <1>1, <1>7 DEF Load
    <3> QED
      BY <3>1, <3>2
  <2>6. used'[p][d] = Len(sq'[p][d]) + Count(cq'[p], Sends(d))
    <3>1. CASE p = r /\ d = q
      <4>1. used'[p][d] = used[p][d] + 1 /\ Len(sq'[p][d]) = Len(sq[p][d]) + 1 /\ cq' = cq
        BY <3>1, <1>1, <1>7
      <4> QED
        BY <4>1, <2>1, <2>3
    <3>2. CASE p # r \/ d # q
      BY <3>2, <2>1, <1>1, <1>7
    <3> QED
      BY <3>1, <3>2
  <2> QED
    BY <2>1, <2>2, <2>4, <2>5, <2>6, <1>1, <1>2
<1> QED
  BY <1>1, <1>2, <1>7, <1>8, <1>9, <1>10, <1>11 DEF VerbsInv, PostFits, CountersOrdered

\* What the daemon of r does with the completion c, in terms of the sets that
\* are counted.
LEMMA HandleEffect ==
    ASSUME VerbsInv, NEW r \in Ranks, Handle(r), NEW c, c = Head(batch[r])
    PROVE  /\ c \in Completion /\ c \in Comps(r)
           /\ finish' \in [Ranks -> [Ranks -> Nat]] /\ numWr' \in [Ranks -> Nat]
           /\ note' \in [Ranks -> Transfers \cup {None}]
           /\ \A p \in Ranks : p # r => finish'[p] = finish[p] /\ numWr'[p] = numWr[p]
                                        /\ note'[p] = note[p]
           /\ \A d \in Ranks : finish'[r][d] = finish[r][d] + One(c, Sends(d))
           /\ \A d \in Ranks : Noted(r, d)' = One(c, FlagC(d))
           /\ numWr'[r] = numWr[r] + One(c, Recvs)
           /\ note'[r] # None => Home[note'[r][1]] = r /\ Notifies(W(note'[r]))
<1>1. /\ note[r] = None /\ batch[r] # <<>>
      /\ HandleWrite(r, c) \/ HandleRecv(r, c) \/ HandleRead(r, c)
  BY DEF Handle
<1>2. c \in Completion /\ c \in Comps(r)
  <2>1. batch[r] \in Seq(Completion) /\ batch[r] \in Seq(Comps(r))
    BY DEF VerbsInv, TypeOK, ElementsOK
  <2> QED
    BY <2>1, <1>1, TailType
<1>3. /\ finish \in [Ranks -> [Ranks -> Nat]] /\ numWr \in [Ranks -> Nat]
      /\ note \in [Ranks -> Transfers \cup {None}]
  BY DEF VerbsInv, TypeOK
<1>4. c.kind \in {"write", "read", "recv"} /\ c.peer \in Ranks /\ c.t \in Transfers \cup {None}
  BY <1>2 DEF Completion
<1>5. finish[r] \in [Ranks -> Nat] /\ finish[r][c.peer] \in Nat /\ numWr[r] \in Nat
  BY <1>3, <1>4
<1>6. CASE c.kind = "recv"
  <2>1. numWr' = [numWr EXCEPT ![r] = @ + 1] /\ finish' = finish /\ note' = note
    BY <1>1, <1>6 DEF HandleWrite, HandleRecv, HandleRead
  <2>2. One(c, Recvs) = 1 /\ \A d \in Ranks : One(c, Sends(d)) = 0 /\ One(c, FlagC(d)) = 0
    BY <1>2, <1>6 DEF One, Recvs, Sends, FlagC
  <2>3. \A d \in Ranks : Noted(r, d)' = 0
    BY <2>1, <1>1 DEF Noted
  <2>4. \A d \in Ranks : finish[r][d] = finish[r][d] + 0
    BY <1>5
  <2> QED
    BY <2>1, <2>2, <2>3, <2>4, <1>1, <1>2, <1>3, <1>5
<1>7. CASE c.kind # "recv"
  <2>1. numWr' = numWr /\ finish' = [finish EXCEPT ![r][c.peer] = @ + 1]
    BY <1>1, <1>4, <1>7 DEF HandleWrite, HandleRecv, HandleRead
  <2>2. /\ One(c, Recvs) = 0
        /\ \A d \in Ranks : One(c, Sends(d)) = IF d = c.peer THEN 1 ELSE 0
    BY <1>2, <1>7 DEF One, Recvs, Sends
  <2>3. /\ finish' \in [Ranks -> [Ranks -> Nat]]
        /\ \A p \in Ranks : p # r => finish'[p] = finish[p]
        /\ \A d \in Ranks : finish'[r][d] = finish[r][d] + One(c, Sends(d))
    <3>1. finish'[r] = [finish[r] EXCEPT ![c.peer] = @ + 1]
      BY <2>1, <1>3
    <3>2. finish[r][c.peer] + 1 \in Nat
      BY <1>5
    <3>3. \A d \in Ranks : finish'[r][d] = IF d = c.peer THEN finish[r][d] + 1 ELSE finish[r][d]
      BY <3>1, <1>5
    <3>4. \A d \in Ranks : finish'[r][d] = finish[r][d] + One(c, Sends(d))
      BY <3>3, <2>2, <1>5
    <3> QED
      BY <3>2, <3>4, <2>1, <1>3, <1>5
  <2>4. numWr'[r] = numWr[r] + One(c, Recvs)
    BY <2>1, <2>2, <1>5
  <2>5. CASE c.kind = "write"
    <3>1. note' = note
      BY <2>5, <1>1 DEF HandleWrite, HandleRecv, HandleRead
    <3>2. \A d \in Ranks : One(c, FlagC(d)) = 0
      BY <2>5 DEF One, FlagC
    <3>3. \A d \in Ranks : Noted(r, d)' = 0
      BY <3>1, <1>1 DEF Noted
    <3> QED
      BY <3>1, <3>2, <3>3, <2>1, <2>3, <2>4, <1>1, <1>2, <1>3
  <2>6. CASE c.kind = "read"
    <3>1. note' = [note EXCEPT ![r] = IF Notifies(W(c.t)) THEN c.t ELSE None]
      BY <2>6, <1>1 DEF HandleWrite, HandleRecv, HandleRead
    <3>2. note'[r] = IF Notifies(W(c.t)) THEN c.t ELSE None
      BY <3>1, <1>3
    <3>3. c.t # None /\ W(c.t).dst = c.peer /\ Home[c.t[1]] = r
      BY <2>6, <1>2 DEF Comps
    <3>4. \A d \in Ranks : One(c, FlagC(d)) = IF d = c.peer /\ Notifies(W(c.t)) THEN 1 ELSE 0
      BY <2>6, <1>2 DEF One, FlagC, Sends
    <3>5. \A d \in Ranks : Noted(r, d)' = IF d = c.peer /\ Notifies(W(c.t)) THEN 1 ELSE 0
      BY <3>2, <3>3 DEF Noted
    <3>6. /\ note' \in [Ranks -> Transfers \cup {None}]
          /\ \A p \in Ranks : p # r => note'[p] = note[p]
      BY <3>1, <1>3, <1>4
    <3> QED
      BY <3>2, <3>3, <3>4, <3>5, <3>6, <2>1, <2>3, <2>4, <1>2, <1>3
  <2> QED
    BY <2>5, <2>6, <1>4, <1>7
<1> QED
  BY <1>6, <1>7

\* A handled completion is finished; a GET reserves the entry of its notification.
LEMMA HandleInv ==
    ASSUME VerbsInv, NEW r \in Ranks, Handle(r)
    PROVE  VerbsInv'
<1> SUFFICES ASSUME NEW c, c = Head(batch[r]) PROVE VerbsInv'
  OBVIOUS
<1>1. /\ TypeOK /\ ElementsOK /\ LockOK /\ Credit /\ SrqExact /\ err = "no"
      /\ note[r] = None /\ batch[r] # <<>> /\ batch' = [batch EXCEPT ![r] = Tail(@)]
      /\ Progress(c) /\ UNCHANGED appVars /\ UNCHANGED <<sq, used, srq, cq, err>>
  BY DEF VerbsInv, Handle, nicVars
<1>2. LockOK' /\ \A p, d \in Ranks : Uncounted(p, d)' = Uncounted(p, d)
  BY <1>1, DaemonFrame
<1>3. /\ c \in Completion /\ c \in Comps(r)
      /\ finish' \in [Ranks -> [Ranks -> Nat]] /\ numWr' \in [Ranks -> Nat]
      /\ note' \in [Ranks -> Transfers \cup {None}]
      /\ \A p \in Ranks : p # r => finish'[p] = finish[p] /\ numWr'[p] = numWr[p]
                                   /\ note'[p] = note[p]
      /\ \A d \in Ranks : finish'[r][d] = finish[r][d] + One(c, Sends(d))
      /\ \A d \in Ranks : Noted(r, d)' = One(c, FlagC(d))
      /\ numWr'[r] = numWr[r] + One(c, Recvs)
      /\ note'[r] # None => Home[note'[r][1]] = r /\ Notifies(W(note'[r]))
  BY HandleEffect
<1>4. batch \in [Ranks -> Seq(Completion)]
  BY <1>1 DEF TypeOK
<1>5. /\ batch'[r] = Tail(batch[r]) /\ batch'[r] \in Seq(Completion) /\ batch'[r] \in Seq(Comps(r))
      /\ \A p \in Ranks : p # r => batch'[p] = batch[p]
  <2>1. batch[r] \in Seq(Comps(r)) /\ batch[r] \in Seq(Completion)
    BY <1>1, <1>4 DEF ElementsOK
  <2> QED
    BY <2>1, <1>1, <1>4, TailType
<1>6. TypeOK'
  <2>1. batch' \in [Ranks -> Seq(Completion)]
    BY <1>1, <1>4, <1>5
  <2>2. events' \in [Transfers -> [loc : Nat, rmt : Nat]]
    <3>1. events \in [Transfers -> [loc : Nat, rmt : Nat]]
      BY <1>1 DEF TypeOK
    <3>2. CASE c.t = None
      BY <3>1, <3>2, <1>1, VerbsAssumption DEF Progress
    <3>3. CASE c.t # None
      <4>1. c.t \in Transfers /\ events[c.t] \in [loc : Nat, rmt : Nat]
        BY <3>1, <3>3, <1>3 DEF Completion
      <4>2. /\ [events[c.t] EXCEPT !.loc = @ + 1] \in [loc : Nat, rmt : Nat]
            /\ [events[c.t] EXCEPT !.rmt = @ + 1] \in [loc : Nat, rmt : Nat]
        BY <4>1
      <4>3. \/ events' = events
            \/ events' = [events EXCEPT ![c.t] = [events[c.t] EXCEPT !.loc = @ + 1]]
            \/ events' = [events EXCEPT ![c.t] = [events[c.t] EXCEPT !.rmt = @ + 1]]
        BY <3>1, <4>1, <1>1 DEF Progress
      <4> QED
        BY <3>1, <4>1, <4>2, <4>3
    <3> QED
      BY <3>2, <3>3
  <2> QED
    BY <2>1, <2>2, <1>1, <1>3 DEF TypeOK, appVars
<1>7. ElementsOK'
  <2> SUFFICES ASSUME NEW p \in Ranks
               PROVE  /\ \A q \in Ranks : sq'[p][q] \in Seq(WRs(p, q))
                      /\ cq'[p] \in Seq(Comps(p)) /\ batch'[p] \in Seq(Comps(p))
                      /\ note'[p] # None => Home[note'[p][1]] = p /\ Notifies(W(note'[p]))
    BY DEF ElementsOK
  <2>1. CASE p = r
    BY <2>1, <1>1, <1>3, <1>5 DEF ElementsOK
  <2>2. CASE p # r
    BY <2>2, <1>1, <1>3, <1>5 DEF ElementsOK
  <2> QED
    BY <2>1, <2>2
<1>8. SrqExact'
  <2> SUFFICES ASSUME NEW p \in Ranks
               PROVE  srq'[p] + Behind(cq'[p]) + Behind(batch'[p]) + numWr'[p] = SrqDepth
    BY DEF SrqExact
  <2>1. srq[p] + Behind(cq[p]) + Behind(batch[p]) + numWr[p] = SrqDepth
    BY <1>1 DEF SrqExact
  <2>2. CASE p = r
    <3>1. Behind(batch[r]) = Behind(batch'[r]) + One(c, Recvs)
      <4>1. batch[r] \in Seq(Completion)
        BY <1>4
      <4>2. Count(batch[r], Recvs) = Count(Tail(batch[r]), Recvs) + One(Head(batch[r]), Recvs)
        BY <4>1, <1>1, CountTail
      <4> QED
        BY <4>1, <4>2, <1>5, BehindIsCount
    <3>2. /\ Behind(batch'[r]) \in Nat /\ Behind(cq[r]) \in Nat /\ One(c, Recvs) \in Nat
          /\ srq[r] \in Nat /\ numWr[r] \in Nat
      <4>1. cq[r] \in Seq(Completion) /\ batch'[r] \in Seq(Completion)
        BY <1>1, <1>5 DEF TypeOK
      <4>2. srq[r] \in 0 .. SrqDepth /\ SrqDepth \in Nat /\ numWr[r] \in Nat
        BY <1>1, VerbsAssumption DEF TypeOK
      <4> QED
        BY <4>1, <4>2, BehindIsCount, CountType, OneType
    <3> QED
      BY <3>1, <3>2, <2>1, <2>2, <1>1, <1>3
  <2>3. CASE p # r
    BY <2>1, <2>3, <1>1, <1>3, <1>5
  <2> QED
    BY <2>2, <2>3
<1>9. Credit'
  <2> SUFFICES ASSUME NEW p \in Ranks, NEW d \in Ranks
               PROVE  /\ submit'[p][d] + Uncounted(p, d)' = finish'[p][d] + Load(p, d)'
                      /\ used'[p][d] = Len(sq'[p][d]) + Count(cq'[p], Sends(d))
                      /\ Load(p, d)' <= Depth + 1
                      /\ Pending(p, d)' = 0 => Load(p, d)' <= Depth
    BY DEF Credit
  <2>1. /\ submit[p][d] + Uncounted(p, d) = finish[p][d] + Load(p, d)
        /\ used[p][d] = Len(sq[p][d]) + Count(cq[p], Sends(d))
        /\ Load(p, d) <= Depth + 1
        /\ Pending(p, d) = 0 => Load(p, d) <= Depth
    BY <1>1 DEF Credit
  <2>2. submit' = submit
    BY <1>1 DEF appVars
  <2>3. CASE p # r
    <3>1. Load(p, d)' = Load(p, d) /\ Pending(p, d)' = Pending(p, d)
      BY <2>3, <1>1, <1>3, <1>5, SameLoad
    <3> QED
      BY <3>1, <2>1, <2>2, <2>3, <1>1, <1>2, <1>3
  <2>4. CASE p = r
    <3>1. batch[p] \in Seq(Completion) /\ batch[p] # <<>> /\ batch'[p] = Tail(batch[p])
      BY <2>4, <1>1, <1>4, <1>5
    <3>2. /\ Count(batch[p], Sends(d)) = Count(batch'[p], Sends(d)) + One(c, Sends(d))
          /\ Count(batch[p], FlagC(d)) = Count(batch'[p], FlagC(d)) + One(c, FlagC(d))
          /\ Count(batch'[p], Sends(d)) \in Nat /\ Count(batch'[p], FlagC(d)) \in Nat
      BY <3>1, <2>4, <1>5, CountTail, CountType
    <3>3. /\ One(c, Sends(d)) \in Nat /\ One(c, FlagC(d)) \in Nat
          /\ One(c, FlagC(d)) = 0 \/ One(c, Sends(d)) = 1
      BY DEF One, FlagC
    <3>4. /\ Count(sq[p][d], FlagWR) \in Nat /\ Count(cq[p], FlagC(d)) \in Nat
          /\ used[p][d] \in Nat /\ Pending(p, d) \in Nat /\ finish[p][d] \in Nat
          /\ Load(p, d) \in Nat /\ Depth \in Nat
      BY <1>1, CreditTypes
    <3>5. Pending(p, d) = Pending(p, d)' + One(c, FlagC(d)) /\ Pending(p, d)' \in Nat
      <4>1. Pending(p, d) = Count(sq[p][d], FlagWR) + Count(cq[p], FlagC(d))
                              + Count(batch[p], FlagC(d))
        BY DEF Pending
      <4>2. Pending(p, d)' = Count(sq[p][d], FlagWR) + Count(cq[p], FlagC(d))
                              + Count(batch'[p], FlagC(d))
        BY <1>1 DEF Pending
      <4> QED
        BY <4>1, <4>2, <3>2, <3>3, <3>4
    <3>6. Noted(p, d) = 0 /\ Noted(p, d)' = One(c, FlagC(d))
      BY <2>4, <1>1, <1>3 DEF Noted
    <3>7. Load(p, d) = Load(p, d)' + One(c, Sends(d)) /\ Load(p, d)' \in Nat
      <4>1. Load(p, d) = used[p][d] + Count(batch[p], Sends(d)) + Pending(p, d) + 0
        BY <3>6 DEF Load
      <4>2. Load(p, d)' = used[p][d] + Count(batch'[p], Sends(d)) + Pending(p, d)'
                            + One(c, FlagC(d))
        BY <3>6, <1>1 DEF Load
      <4> QED
        BY <4>1, <4>2, <3>2, <3>3, <3>4, <3>5
    <3>8. finish'[p][d] = finish[p][d] + One(c, Sends(d))
      BY <2>4, <1>3
    <3>9. submit'[p][d] + Uncounted(p, d)' = finish'[p][d] + Load(p, d)'
      <4>1. submit'[p][d] + Uncounted(p, d)' = finish[p][d] + Load(p, d)
        BY <2>1, <2>2, <1>2
      <4> QED
        BY <4>1, <3>3, <3>4, <3>7, <3>8
    <3>10. Load(p, d)' <= Depth + 1 /\ (Pending(p, d)' = 0 => Load(p, d)' <= Depth)
      BY <3>3, <3>4, <3>5, <3>7, <2>1
    <3> QED
      BY <3>9, <3>10, <2>1, <1>1
  <2> QED
    BY <2>3, <2>4
<1> QED
  BY <1>1, <1>2, <1>6, <1>7, <1>8, <1>9 DEF VerbsInv, PostFits, CountersOrdered

\* The completions of a request x that the queue pair from r to q executes.
SentBy(q, x) == [kind |-> IF x.op = "read" THEN "read" ELSE "write", peer |-> q, t |-> x.wrid]
RecvBy(r, x) == [kind |-> "recv", peer |-> r, t |-> x.imm]

\* What the completions of a request are and which counts they enter.
LEMMA CompletionType ==
    ASSUME NEW r \in Ranks, NEW q \in Ranks, NEW x \in WRs(r, q)
    PROVE  /\ SentBy(q, x) \in Completion /\ SentBy(q, x) \in Comps(r)
           /\ RecvBy(r, x) \in Completion /\ (x.op = "imm" => RecvBy(r, x) \in Comps(q))
           /\ One(SentBy(q, x), Recvs) = 0 /\ One(RecvBy(r, x), Recvs) = 1
           /\ \A d \in Ranks : /\ One(SentBy(q, x), Sends(d)) = IF d = q THEN 1 ELSE 0
                               /\ One(SentBy(q, x), FlagC(d)) = IF d = q THEN One(x, FlagWR) ELSE 0
                               /\ One(RecvBy(r, x), Sends(d)) = 0 /\ One(RecvBy(r, x), FlagC(d)) = 0
<1>1. /\ x \in WorkRequest /\ x.op \in {"write", "imm", "read"}
      /\ x.wrid \in Transfers \cup {None} /\ x.imm \in Transfers /\ x.imm # None
      /\ Home[x.imm[1]] = r /\ W(x.imm).dst = q
      /\ \/ x.wrid = x.imm /\ x.op = Opcode(W(x.imm))
         \/ x.wrid = None /\ x.op = "imm" /\ Notifies(W(x.imm))
  BY TransferType DEF WRs, WorkRequest
<1>2. /\ W(x.imm).dma \in {"put", "get"}
      /\ x.wrid # None => (x.op = "read" <=> W(x.imm).dma = "get")
      /\ x.op = "imm" => W(x.imm).rmt
  BY <1>1, TransferType DEF Wrt, Opcode, Notifies
<1>3. SentBy(q, x) \in Completion /\ RecvBy(r, x) \in Completion
  BY <1>1 DEF SentBy, RecvBy, Completion
<1>4. /\ SentBy(q, x).kind = (IF x.op = "read" THEN "read" ELSE "write")
      /\ SentBy(q, x).peer = q /\ SentBy(q, x).t = x.wrid
      /\ RecvBy(r, x).kind = "recv" /\ RecvBy(r, x).t = x.imm
  BY DEF SentBy, RecvBy
<1>5. SentBy(q, x) \in Comps(r)
  BY <1>1, <1>2, <1>3, <1>4 DEF Comps
<1>6. x.op = "imm" => RecvBy(r, x) \in Comps(q)
  BY <1>1, <1>2, <1>3, <1>4 DEF Comps
<1>7. One(SentBy(q, x), Recvs) = 0 /\ One(RecvBy(r, x), Recvs) = 1
  BY <1>3, <1>4 DEF One, Recvs
<1>8. \A d \in Ranks : One(RecvBy(r, x), Sends(d)) = 0 /\ One(RecvBy(r, x), FlagC(d)) = 0
  BY <1>4 DEF One, Sends, FlagC
<1>9. \A d \in Ranks : One(SentBy(q, x), Sends(d)) = IF d = q THEN 1 ELSE 0
  BY <1>3, <1>4 DEF One, Sends
<1>10. \A d \in Ranks : SentBy(q, x) \in FlagC(d) <=> d = q /\ x \in FlagWR
  BY <1>1, <1>3, <1>4 DEF Sends, FlagC, FlagWR
<1>11. \A d \in Ranks : One(SentBy(q, x), FlagC(d)) = IF d = q THEN One(x, FlagWR) ELSE 0
  BY <1>10 DEF One
<1> QED
  BY <1>3, <1>5, <1>6, <1>7, <1>8, <1>9, <1>11

\* The completions are appended to the completion queues of r and q.
Completes(r, q, x) ==
    \/ x.op # "imm" /\ cq' = [cq EXCEPT ![r] = Append(@, SentBy(q, x))]
    \/ /\ x.op = "imm"
       /\ cq' = IF q = r THEN [cq EXCEPT ![r] = @ \o <<RecvBy(r, x), SentBy(q, x)>>]
                ELSE [cq EXCEPT ![r] = Append(@, SentBy(q, x)),
                                ![q] = Append(@, RecvBy(r, x))]

\* What executing a request adds to the completion queues.
LEMMA ExecuteEffect ==
    ASSUME VerbsInv, NEW r \in Ranks, NEW q \in Ranks, NEW x \in WRs(r, q), Completes(r, q, x)
    PROVE  /\ cq' \in [Ranks -> Seq(Completion)]
           /\ \A p \in Ranks :
                /\ cq'[p] \in Seq(Comps(p))
                /\ Count(cq'[p], Recvs) = Count(cq[p], Recvs)
                                           + (IF p = q /\ x.op = "imm" THEN 1 ELSE 0)
                /\ \A d \in Ranks :
                     /\ Count(cq'[p], Sends(d)) = Count(cq[p], Sends(d))
                                                  + (IF p = r /\ d = q THEN 1 ELSE 0)
                     /\ Count(cq'[p], FlagC(d)) = Count(cq[p], FlagC(d))
                                       + (IF p = r /\ d = q THEN One(x, FlagWR) ELSE 0)
<1> USE DEF Completes
<1> DEFINE sent == SentBy(q, x)
           recv == RecvBy(r, x)
<1>1. /\ sent \in Completion /\ sent \in Comps(r)
      /\ recv \in Completion /\ (x.op = "imm" => recv \in Comps(q))
      /\ One(sent, Recvs) = 0 /\ One(recv, Recvs) = 1
      /\ \A d \in Ranks : /\ One(sent, Sends(d)) = IF d = q THEN 1 ELSE 0
                          /\ One(sent, FlagC(d)) = IF d = q THEN One(x, FlagWR) ELSE 0
                          /\ One(recv, Sends(d)) = 0 /\ One(recv, FlagC(d)) = 0
  BY CompletionType
<1> HIDE DEF sent, recv
<1>2. cq \in [Ranks -> Seq(Completion)] /\ \A p \in Ranks : cq[p] \in Seq(Comps(p))
  BY DEF VerbsInv, TypeOK, ElementsOK
<1>3. \A s \in Seq(Completion) : \A A : Count(s, A) \in Nat
  BY CountType
<1>4. \A s \in Seq(Completion) : \A y \in Completion : \A A :
        Append(s, y) \in Seq(Completion) /\ Count(Append(s, y), A) = Count(s, A) + One(y, A)
  BY CountAppend, AppendType
<1>5. One(x, FlagWR) \in {0, 1}
  BY OneType
<1> SUFFICES ASSUME NEW p \in Ranks
             PROVE  /\ cq'[p] \in Seq(Comps(p)) /\ cq'[p] \in Seq(Completion)
                    /\ Count(cq'[p], Recvs) = Count(cq[p], Recvs)
                                               + (IF p = q /\ x.op = "imm" THEN 1 ELSE 0)
                    /\ \A d \in Ranks :
                         /\ Count(cq'[p], Sends(d)) = Count(cq[p], Sends(d))
                                                      + (IF p = r /\ d = q THEN 1 ELSE 0)
                         /\ Count(cq'[p], FlagC(d)) = Count(cq[p], FlagC(d))
                                           + (IF p = r /\ d = q THEN One(x, FlagWR) ELSE 0)
  <2>1. \E f : cq' = [i \in Ranks |-> f[i]]
    BY <1>2
  <2> QED
    BY <2>1
<1>6. /\ cq[p] \in Seq(Completion) /\ cq[p] \in Seq(Comps(p)) /\ Count(cq[p], Recvs) \in Nat
      /\ \A d \in Ranks : Count(cq[p], Sends(d)) \in Nat /\ Count(cq[p], FlagC(d)) \in Nat
  BY <1>2, <1>3
<1>7. CASE p = r /\ (x.op # "imm" \/ q # r)
  <2>1. cq'[p] = Append(cq[p], sent)
    BY <1>2, <1>7 DEF sent
  <2>2. cq'[p] \in Seq(Comps(p)) /\ cq'[p] \in Seq(Completion)
    BY <2>1, <1>1, <1>6, <1>7, AppendType
  <2>3. \A A : Count(cq'[p], A) = Count(cq[p], A) + One(sent, A)
    BY <2>1, <1>1, <1>4, <1>6
  <2> QED
    BY <2>2, <2>3, <1>1, <1>6, <1>7
<1>8. CASE p = q /\ x.op = "imm" /\ q # r
  <2>1. cq'[p] = Append(cq[p], recv)
    BY <1>2, <1>8 DEF recv
  <2>2. cq'[p] \in Seq(Comps(p)) /\ cq'[p] \in Seq(Completion)
    BY <2>1, <1>1, <1>6, <1>8, AppendType
  <2>3. \A A : Count(cq'[p], A) = Count(cq[p], A) + One(recv, A)
    BY <2>1, <1>1, <1>4, <1>6
  <2> QED
    BY <2>2, <2>3, <1>1, <1>6, <1>8
<1>9. CASE p = r /\ q = r /\ x.op = "imm"
  <2>1. cq'[p] = cq[p] \o <<recv, sent>>
    BY <1>2, <1>9 DEF sent, recv
  <2>2. cq'[p] = Append(Append(cq[p], recv), sent)
    <3>1. \A s \in Seq(Completion) : \A y, z \in Completion :
            s \o <<y, z>> = Append(Append(s, y), z)
      BY AppendTwice
    <3>2. cq[p] \o <<recv, sent>> = Append(Append(cq[p], recv), sent)
      BY <3>1, <1>1, <1>6
    <3> QED
      BY <2>1, <3>2
  <2>3. Append(cq[p], recv) \in Seq(Comps(p)) /\ Append(cq[p], recv) \in Seq(Completion)
    BY <1>1, <1>6, <1>9, AppendType
  <2>4. cq'[p] \in Seq(Comps(p)) /\ cq'[p] \in Seq(Completion)
    BY <2>2, <2>3, <1>1, <1>9, AppendType
  <2>5. \A A : Count(cq'[p], A) = Count(cq[p], A) + One(recv, A) + One(sent, A)
    BY <2>2, <2>3, <1>1, <1>4, <1>6
  <2> QED
    BY <2>4, <2>5, <1>1, <1>5, <1>6, <1>9
<1>10. CASE p # r /\ (p # q \/ x.op # "imm")
  <2>1. cq'[p] = cq[p]
    BY <1>2, <1>10
  <2> QED
    BY <2>1, <1>6, <1>10
<1> QED
  BY <1>7, <1>8, <1>9, <1>10

\* Executing a request moves it to the completion queues.
LEMMA ExecuteInv ==
    ASSUME VerbsInv, NEW r \in Ranks, NEW q \in Ranks, Execute(r, q)
    PROVE  VerbsInv'
<1> SUFFICES ASSUME NEW x, x = Head(sq[r][q]) PROVE VerbsInv'
  OBVIOUS
<1>1. /\ TypeOK /\ ElementsOK /\ LockOK /\ Credit /\ SrqExact /\ err = "no"
      /\ sq[r][q] # <<>> /\ sq' = [sq EXCEPT ![r][q] = Tail(@)]
      /\ UNCHANGED appVars /\ UNCHANGED <<used, finish, batch, numWr, note, events>>
  BY DEF VerbsInv, Execute, dmnVars
<1>2. LockOK' /\ \A p, d \in Ranks : Uncounted(p, d)' = Uncounted(p, d)
  BY <1>1, DaemonFrame
<1>3. /\ sq \in [Ranks -> [Ranks -> Seq(WorkRequest)]] /\ sq[r] \in [Ranks -> Seq(WorkRequest)]
      /\ sq[r][q] \in Seq(WorkRequest) /\ sq[r][q] \in Seq(WRs(r, q))
  <2>1. sq \in [Ranks -> [Ranks -> Seq(WorkRequest)]] /\ sq[r][q] \in Seq(WRs(r, q))
    BY <1>1 DEF TypeOK, ElementsOK
  <2> QED
    BY <2>1
<1>4. /\ x \in WRs(r, q) /\ Tail(sq[r][q]) \in Seq(WRs(r, q)) /\ Tail(sq[r][q]) \in Seq(WorkRequest)
      /\ Len(Tail(sq[r][q])) = Len(sq[r][q]) - 1
  BY <1>1, <1>3, TailType
<1>5. /\ sq'[r][q] = Tail(sq[r][q])
      /\ \A p, d \in Ranks : p # r \/ d # q => sq'[p][d] = sq[p][d]
      /\ sq' \in [Ranks -> [Ranks -> Seq(WorkRequest)]]
  BY <1>1, <1>3, <1>4
<1>6. Count(sq[r][q], FlagWR) = Count(Tail(sq[r][q]), FlagWR) + One(x, FlagWR)
  BY <1>1, <1>3, CountTail
<1>7. \A p, d \in Ranks : sq'[p][d] \in Seq(WRs(p, d))
  <2> TAKE p, d \in Ranks
  <2>1. CASE p = r /\ d = q
    BY <2>1, <1>4, <1>5
  <2>2. CASE p # r \/ d # q
    BY <2>2, <1>1, <1>5 DEF ElementsOK
  <2> QED
    BY <2>1, <2>2
<1>8. \/ err' = "rnr" /\ srq' = srq /\ cq' = cq
      \/ /\ err' = "no"
         /\ \/ /\ x.op # "imm" /\ cq' = [cq EXCEPT ![r] = Append(@, SentBy(q, x))]
               /\ srq' = srq
            \/ /\ x.op = "imm" /\ srq[q] # 0 /\ srq' = [srq EXCEPT ![q] = @ - 1]
               /\ cq' = IF q = r THEN [cq EXCEPT ![r] = @ \o <<RecvBy(r, x), SentBy(q, x)>>]
                        ELSE [cq EXCEPT ![r] = Append(@, SentBy(q, x)),
                                        ![q] = Append(@, RecvBy(r, x))]
  BY <1>1 DEF Execute, SentBy, RecvBy
<1>9. CASE err' = "rnr" /\ srq' = srq /\ cq' = cq
  <2>1. TypeOK'
    BY <1>1, <1>5, <1>9 DEF TypeOK, appVars
  <2>2. ElementsOK'
    BY <1>1, <1>7, <1>9 DEF ElementsOK
  <2>3. SrqExact'
    BY <1>1, <1>9 DEF SrqExact
  <2> QED
    BY <2>1, <2>2, <2>3, <1>2, <1>9 DEF VerbsInv, PostFits, CountersOrdered
<1>10. CASE err' = "no" /\ ~(err' = "rnr" /\ srq' = srq /\ cq' = cq)
  <2>1. /\ cq' \in [Ranks -> Seq(Completion)]
        /\ \A p \in Ranks :
             /\ cq'[p] \in Seq(Comps(p))
             /\ Count(cq'[p], Recvs) = Count(cq[p], Recvs)
                                        + (IF p = q /\ x.op = "imm" THEN 1 ELSE 0)
             /\ \A d \in Ranks :
                  /\ Count(cq'[p], Sends(d)) = Count(cq[p], Sends(d))
                                               + (IF p = r /\ d = q THEN 1 ELSE 0)
                  /\ Count(cq'[p], FlagC(d)) = Count(cq[p], FlagC(d))
                                    + (IF p = r /\ d = q THEN One(x, FlagWR) ELSE 0)
    <3>1. Completes(r, q, x)
      BY <1>8, <1>10 DEF Completes
    <3> QED
      BY <3>1, <1>4, ExecuteEffect
  <2>2. /\ srq' \in [Ranks -> 0 .. SrqDepth]
        /\ \A p \in Ranks : srq'[p] = srq[p] - (IF p = q /\ x.op = "imm" THEN 1 ELSE 0)
    <3>1. srq \in [Ranks -> 0 .. SrqDepth] /\ SrqDepth \in Nat
      BY <1>1, VerbsAssumption DEF TypeOK
    <3>2. \A p \in Ranks : srq[p] \in Nat /\ srq[p] <= SrqDepth /\ srq[p] - 0 = srq[p]
      BY <3>1
    <3>3. CASE x.op # "imm"
      BY <3>1, <3>2, <3>3, <1>8, <1>10
    <3>4. CASE x.op = "imm"
      <4>1. srq[q] # 0 /\ srq' = [srq EXCEPT ![q] = @ - 1]
        BY <3>4, <1>8, <1>10
      <4>2. srq[q] - 1 \in 0 .. SrqDepth
        BY <4>1, <3>1, <3>2
      <4> QED
        BY <4>1, <4>2, <3>1, <3>2, <3>4
    <3> QED
      BY <3>3, <3>4
  <2>3. TypeOK'
    BY <2>1, <2>2, <1>1, <1>5, <1>10 DEF TypeOK, appVars
  <2>4. ElementsOK'
    BY <2>1, <1>1, <1>7 DEF ElementsOK
  <2>5. SrqExact'
    <3> SUFFICES ASSUME NEW p \in Ranks
                 PROVE  srq'[p] + Behind(cq'[p]) + Behind(batch'[p]) + numWr'[p] = SrqDepth
      BY DEF SrqExact
    <3>1. srq[p] + Behind(cq[p]) + Behind(batch[p]) + numWr[p] = SrqDepth
      BY <1>1 DEF SrqExact
    <3>2. /\ cq[p] \in Seq(Completion) /\ cq'[p] \in Seq(Completion)
          /\ batch[p] \in Seq(Completion) /\ numWr[p] \in Nat
      BY <2>1, <1>1 DEF TypeOK
    <3>3. /\ Behind(cq[p]) = Count(cq[p], Recvs) /\ Behind(cq'[p]) = Count(cq'[p], Recvs)
          /\ Count(cq[p], Recvs) \in Nat /\ Behind(batch[p]) \in Nat
      BY <3>2, BehindIsCount, CountType
    <3>4. srq[p] \in Nat
      <4>1. srq[p] \in 0 .. SrqDepth /\ SrqDepth \in Nat
        BY <1>1, VerbsAssumption DEF TypeOK
      <4> QED
        BY <4>1
    <3>5. CASE p = q /\ x.op = "imm"
      <4>1. Behind(cq'[p]) = Behind(cq[p]) + 1 /\ srq'[p] = srq[p] - 1
        BY <3>3, <3>5, <2>1, <2>2
      <4> QED
        BY <4>1, <3>1, <3>2, <3>3, <3>4, <1>1
    <3>6. CASE ~(p = q /\ x.op = "imm")
      <4>1. Behind(cq'[p]) = Behind(cq[p]) + 0 /\ srq'[p] = srq[p] - 0
        BY <3>3, <3>6, <2>1, <2>2
      <4> QED
        BY <4>1, <3>1, <3>2, <3>3, <3>4, <1>1
    <3> QED
      BY <3>5, <3>6
  <2>6. Credit'
    <3> SUFFICES ASSUME NEW p \in Ranks, NEW d \in Ranks
                 PROVE  /\ submit'[p][d] + Uncounted(p, d)' = finish'[p][d] + Load(p, d)'
                        /\ used'[p][d] = Len(sq'[p][d]) + Count(cq'[p], Sends(d))
                        /\ Load(p, d)' <= Depth + 1
                        /\ Pending(p, d)' = 0 => Load(p, d)' <= Depth
      BY DEF Credit
    <3>1. /\ submit[p][d] + Uncounted(p, d) = finish[p][d] + Load(p, d)
          /\ used[p][d] = Len(sq[p][d]) + Count(cq[p], Sends(d))
          /\ Load(p, d) <= Depth + 1
          /\ Pending(p, d) = 0 => Load(p, d) <= Depth
      BY <1>1 DEF Credit
    <3>2. submit' = submit
      BY <1>1 DEF appVars
    <3>3. /\ Len(sq[p][d]) \in Nat /\ Count(sq[p][d], FlagWR) \in Nat
          /\ Count(cq[p], Sends(d)) \in Nat /\ Count(cq[p], FlagC(d)) \in Nat
          /\ Count(batch[p], FlagC(d)) \in Nat
      BY <1>1, CreditTypes
    <3>4. One(x, FlagWR) \in Nat
      BY DEF One
    <3>5. /\ Pending(p, d)' = Pending(p, d)
          /\ used'[p][d] = Len(sq'[p][d]) + Count(cq'[p], Sends(d))
      <4>1. CASE p = r /\ d = q
        <5>1. /\ Count(sq[p][d], FlagWR) = Count(sq'[p][d], FlagWR) + One(x, FlagWR)
              /\ Len(sq'[p][d]) = Len(sq[p][d]) - 1
              /\ Count(cq'[p], FlagC(d)) = Count(cq[p], FlagC(d)) + One(x, FlagWR)
              /\ Count(cq'[p], Sends(d)) = Count(cq[p], Sends(d)) + 1
          BY <4>1, <2>1, <1>4, <1>5, <1>6
        <5>2. sq'[p][d] \in Seq(WorkRequest)
          BY <1>5
        <5>3. Count(sq'[p][d], FlagWR) \in Nat
          BY <5>2, CountType
        <5>4. Pending(p, d) = Count(sq[p][d], FlagWR) + Count(cq[p], FlagC(d))
                                + Count(batch[p], FlagC(d))
          BY DEF Pending
        <5>5. Pending(p, d)' = Count(sq'[p][d], FlagWR) + Count(cq'[p], FlagC(d))
                                + Count(batch[p], FlagC(d))
          BY <1>1 DEF Pending
        <5>6. Pending(p, d)' = Pending(p, d)
          BY <5>1, <5>3, <5>4, <5>5, <3>3, <3>4
        <5>7. used'[p][d] = Len(sq'[p][d]) + Count(cq'[p], Sends(d))
          BY <5>1, <3>1, <3>3, <1>1
        <5> QED
          BY <5>6, <5>7
      <4>2. CASE p # r \/ d # q
        <5>1. /\ sq'[p][d] = sq[p][d]
              /\ Count(cq'[p], FlagC(d)) = Count(cq[p], FlagC(d)) + 0
              /\ Count(cq'[p], Sends(d)) = Count(cq[p], Sends(d)) + 0
          BY <4>2, <2>1, <1>5
        <5>2. /\ Count(cq'[p], FlagC(d)) = Count(cq[p], FlagC(d))
              /\ Count(cq'[p], Sends(d)) = Count(cq[p], Sends(d))
          BY <5>1, <3>3
        <5> QED
          BY <5>1, <5>2, <3>1, <1>1 DEF Pending
      <4> QED
        BY <4>1, <4>2
    <3>6. Load(p, d)' = Load(p, d)
      BY <3>5, <1>1 DEF Load, Noted
    <3> QED
      BY <3>1, <3>2, <3>5, <3>6, <1>1, <1>2
  <2> QED
    BY <2>3, <2>4, <2>5, <2>6, <1>2, <1>10 DEF VerbsInv, PostFits, CountersOrdered
<1> QED
  BY <1>8, <1>9, <1>10

-----------------------------------------------------------------------------
(* The theorems *)

\* Every step keeps the invariant.
LEMMA VerbsNext == VerbsInv /\ [Next]_vars => VerbsInv'
<1> SUFFICES ASSUME VerbsInv, [Next]_vars PROVE VerbsInv'
  OBVIOUS
<1>1. CASE UNCHANGED vars
  <2>1. UNCHANGED <<plan, starts, pc, at, lock, submit, sq, used, srq, cq, finish, batch, numWr,
                    note, events, err>>
    BY <1>1 DEF vars, appVars, nicVars, dmnVars
  <2>2. \A r, q \in Ranks : /\ Load(r, q)' = Load(r, q) /\ Pending(r, q)' = Pending(r, q)
                             /\ Uncounted(r, q)' = Uncounted(r, q)
    BY <2>1, SameLoad DEF Uncounted
  <2>3. TypeOK' /\ ElementsOK' /\ LockOK'
    BY <2>1 DEF VerbsInv, TypeOK, ElementsOK, LockOK
  <2>4. SrqExact' /\ PostFits' /\ CountersOrdered'
    BY <2>1 DEF VerbsInv, SrqExact, PostFits, CountersOrdered
  <2>5. err' = "no" => Credit'
    BY <2>1, <2>2 DEF VerbsInv, Credit
  <2> QED
    BY <2>3, <2>4, <2>5 DEF VerbsInv
<1>2. ASSUME NEW th \in Threads,
             \/ PlanCreate(th) \/ PlanStart(th) \/ PlanDestroy(th)
             \/ StartLock(th) \/ PostSend(th) \/ SpaceTimeout(th)
             \/ CountSubmit(th) \/ StartUnlock(th)
      PROVE  VerbsInv'
  BY <1>2, PlanCreateInv, PlanStartInv, PlanDestroyInv, StartLockInv, PostSendInv,
     SpaceTimeoutInv, CountSubmitInv, StartUnlockInv
<1>3. ASSUME NEW r \in Ranks, NEW q \in Ranks, Execute(r, q)
      PROVE  VerbsInv'
  BY <1>3, ExecuteInv
<1>4. ASSUME NEW r \in Ranks, Poll(r) \/ Handle(r) \/ Notify(r) \/ Repost(r)
      PROVE  VerbsInv'
  BY <1>4, PollInv, HandleInv, NotifyInv, RepostInv
<1> QED
  BY <1>1, <1>2, <1>3, <1>4 DEF Next

\* The inductive invariant of the verbs channel: the counters of
\* uri_verbs_rdma_plan_start and the daemon are exact.
THEOREM VerbsInvariant == Spec => []VerbsInv
BY VerbsInit, VerbsNext, PTL DEF Spec

\* The variables keep their types; every send queue and every shared receive
\* queue keeps within its depth.
THEOREM VerbsTypes == Spec => []TypeOK
<1>1. VerbsInv => TypeOK
  BY DEF VerbsInv
<1> QED
  BY VerbsInvariant, <1>1, PTL

\* ibv_post_send never finds a full send queue, neither in
\* uri_verbs_rdma_plan_start nor in uri_verbs_send_rmt_complete, which posts
\* without a test and without the lock.
THEOREM PostsAlwaysFit == Spec => []PostFits
<1>1. VerbsInv => PostFits
  BY DEF VerbsInv
<1> QED
  BY VerbsInvariant, <1>1, PTL

\* The assertion req_submit >= req_finish of uri_verbs_rdma_plan_start holds.
THEOREM CountersStayOrdered == Spec => []CountersOrdered
<1>1. VerbsInv => CountersOrdered
  BY DEF VerbsInv
<1> QED
  BY VerbsInvariant, <1>1, PTL

\* No receive request of the shared receive queue is lost or reposted twice.
THEOREM ReceivesAreConserved == Spec => []SrqExact
<1>1. VerbsInv => SrqExact
  BY DEF VerbsInv
<1> QED
  BY VerbsInvariant, <1>1, PTL

-----------------------------------------------------------------------------
(* What becomes of a transfer *)

\* the request of t and the notifications of t, as work requests
OwnWR(t)  == {x \in WorkRequest : x.wrid = t /\ x.op = Opcode(W(t))}
NoteWR(t) == {x \in WorkRequest : x.op = "imm" /\ x.imm = t}

\* the completions of the request of t, and what tells its other end
SentC(t) == {c \in Completion : c.kind # "recv" /\ c.t = t}
NoteC(t) == {c \in Completion : c.kind = "recv" /\ c.t = t}

\* How many there are of each, polled or not
OwnQueued(t)  == Count(sq[Home[t[1]]][W(t).dst], OwnWR(t))
NoteQueued(t) == Count(sq[Home[t[1]]][W(t).dst], NoteWR(t))
Completed(t)  == Count(cq[Home[t[1]]], SentC(t)) + Count(batch[Home[t[1]]], SentC(t))
Arrived(t)    == Count(cq[W(t).dst], NoteC(t)) + Count(batch[W(t).dst], NoteC(t))
NoteDue(t)    == IF note[Home[t[1]]] = t THEN 1 ELSE 0

\* A transfer that was handed to the interface is queued, or completed and not
\* handled, or its signal was updated; the other end of a GET is told by a
\* notification, that of a PUT by its own request.
LocExact(t) == W(t).loc => events[t].loc + Completed(t) + OwnQueued(t) = Posted(t)
PutExact(t) ==
    W(t).dma = "put" /\ W(t).rmt => events[t].rmt + Arrived(t) + OwnQueued(t) = Posted(t)
GetExact(t) ==
    Notifies(W(t)) =>
      events[t].rmt + Arrived(t) + NoteQueued(t) + NoteDue(t) + Completed(t) + OwnQueued(t)
        = Posted(t)
Exact(t) == LocExact(t) /\ PutExact(t) /\ GetExact(t)

\* a plan in use has been started
StartsOK ==
    \A th \in Threads : /\ pc[th] # "idle" => starts[th] > 0
                        /\ plan[th] = "none" => starts[th] = 0

Balance == StartsOK /\ (err = "no" => \A t \in Transfers : Exact(t))

-----------------------------------------------------------------------------
(* Facts about the tallies *)

\* A transfer and the queues it goes through.
LEMMA TransferPlace ==
    ASSUME NEW t \in Transfers
    PROVE  /\ t[1] \in Threads /\ t # None /\ W(t) \in Wrt
           /\ Home[t[1]] \in Ranks /\ W(t).dst \in Ranks
<1>1. t[1] \in Threads /\ t # None /\ W(t) \in Wrt
  BY TransferType
<1> QED
  BY <1>1, VerbsAssumption DEF Wrt

\* All tallies are natural numbers.
LEMMA TallyTypes ==
    VerbsInv => \A t \in Transfers :
        /\ events[t].loc \in Nat /\ events[t].rmt \in Nat
        /\ OwnQueued(t) \in Nat /\ NoteQueued(t) \in Nat /\ NoteDue(t) \in {0, 1}
        /\ Completed(t) \in Nat /\ Arrived(t) \in Nat
        /\ starts[t[1]] \in Nat /\ Posted(t) \in Nat /\ Posted(t) <= starts[t[1]]
<1> SUFFICES ASSUME VerbsInv, NEW t \in Transfers,
                    NEW r \in Ranks, NEW q \in Ranks, r = Home[t[1]], q = W(t).dst
             PROVE  /\ events[t].loc \in Nat /\ events[t].rmt \in Nat
                    /\ OwnQueued(t) \in Nat /\ NoteQueued(t) \in Nat /\ NoteDue(t) \in {0, 1}
                    /\ Completed(t) \in Nat /\ Arrived(t) \in Nat
                    /\ starts[t[1]] \in Nat /\ Posted(t) \in Nat /\ Posted(t) <= starts[t[1]]
  BY TransferPlace
<1>1. events[t].loc \in Nat /\ events[t].rmt \in Nat
  <2>1. events \in [Transfers -> [loc : Nat, rmt : Nat]]
    BY DEF VerbsInv, TypeOK
  <2>2. events[t] \in [loc : Nat, rmt : Nat]
    BY <2>1
  <2> QED
    BY <2>2
<1>2. /\ sq[r][q] \in Seq(WorkRequest) /\ cq[r] \in Seq(Completion) /\ batch[r] \in Seq(Completion)
      /\ cq[q] \in Seq(Completion) /\ batch[q] \in Seq(Completion)
  BY ZenonT(30) DEF VerbsInv, TypeOK
<1>3. OwnQueued(t) \in Nat /\ NoteQueued(t) \in Nat
  BY <1>2, CountType DEF OwnQueued, NoteQueued
<1>4. Completed(t) \in Nat
  <2>1. Count(cq[r], SentC(t)) \in Nat /\ Count(batch[r], SentC(t)) \in Nat
    BY <1>2, CountType
  <2> QED
    BY <2>1 DEF Completed
<1>5. Arrived(t) \in Nat
  <2>1. Count(cq[q], NoteC(t)) \in Nat /\ Count(batch[q], NoteC(t)) \in Nat
    BY <1>2, CountType
  <2> QED
    BY <2>1 DEF Arrived
<1>6. starts[t[1]] \in Nat /\ Posted(t) \in Nat /\ Posted(t) <= starts[t[1]]
  <2>1. starts[t[1]] \in 0 .. MaxStart
    BY TransferPlace DEF VerbsInv, TypeOK
  <2>2. starts[t[1]] \in Nat
    BY <2>1, VerbsAssumption
  <2>3. \/ starts[t[1]] = 0 /\ Posted(t) = 0
        \/ starts[t[1]] # 0 /\ Posted(t) = starts[t[1]]
        \/ starts[t[1]] # 0 /\ Posted(t) = starts[t[1]] - 1
    BY DEF Posted
  <2> QED
    BY <2>2, <2>3
<1>7. NoteDue(t) \in {0, 1}
  BY DEF NoteDue
<1> QED
  BY <1>1, <1>3, <1>4, <1>5, <1>6, <1>7

\* An appended element is counted where it belongs to the set.
LEMMA QueueAppended ==
    ASSUME NEW s \in Seq(WorkRequest), NEW x \in WorkRequest, NEW A,
           NEW u, u = Append(s, x) \/ (u = s /\ x \notin A)
    PROVE  Count(u, A) = Count(s, A) + One(x, A)
<1>1. CASE u = Append(s, x)
  BY <1>1, CountAppend
<1>2. CASE u = s /\ x \notin A
  <2>1. Count(s, A) \in Nat
    BY CountType
  <2> QED
    BY <1>2, <2>1 DEF One
<1> QED
  BY <1>1, <1>2

\* u is left when x is taken from s.
Taken(s, x, u) == s # <<>> /\ x = Head(s) /\ u = Tail(s)

\* The head is uncounted where it belongs to the set.
LEMMA QueueTaken ==
    ASSUME NEW s \in Seq(WorkRequest), NEW x, NEW A,
           NEW u, Taken(s, x, u) \/ (u = s /\ x \notin A)
    PROVE  Count(s, A) = Count(u, A) + One(x, A)
<1>1. CASE Taken(s, x, u)
  BY <1>1, CountTail DEF Taken
<1>2. CASE u = s /\ x \notin A
  <2>1. Count(s, A) \in Nat
    BY CountType
  <2> QED
    BY <1>2, <2>1 DEF One
<1> QED
  BY <1>1, <1>2

\* The completions of a request, in the set they belong to.
LEMMA CompletesCount ==
    ASSUME VerbsInv, NEW a \in Ranks, NEW d \in Ranks, NEW x \in WRs(a, d), Completes(a, d, x),
           NEW q \in Ranks, NEW A,
           SentBy(d, x) \in A => q = a, x.op = "imm" /\ RecvBy(a, x) \in A => q = d
    PROVE  /\ x.op # "imm" => Count(cq'[q], A) = Count(cq[q], A) + One(SentBy(d, x), A)
           /\ x.op = "imm" => Count(cq'[q], A) = Count(cq[q], A) + One(SentBy(d, x), A)
                                                   + One(RecvBy(a, x), A)
<1> SUFFICES ASSUME NEW sent, NEW recv, sent = SentBy(d, x), recv = RecvBy(a, x)
             PROVE  /\ x.op # "imm" => Count(cq'[q], A) = Count(cq[q], A) + One(sent, A)
                    /\ x.op = "imm" => Count(cq'[q], A) = Count(cq[q], A) + One(sent, A)
                                                            + One(recv, A)
  OBVIOUS
<1>1. cq \in [Ranks -> Seq(Completion)] /\ sent \in Completion /\ recv \in Completion
  BY CompletionType DEF VerbsInv, TypeOK
<1>2. cq[q] \in Seq(Completion) /\ Count(cq[q], A) \in Nat
  BY <1>1, CountType
<1>3. \A s \in Seq(Completion) : \A y \in Completion :
        /\ Append(s, y) \in Seq(Completion)
        /\ Count(Append(s, y), A) = Count(s, A) + One(y, A)
  BY CountAppend, AppendType
<1>4. /\ q # a => One(sent, A) = 0
      /\ x.op = "imm" /\ q # d => One(recv, A) = 0
      /\ One(sent, A) \in {0, 1} /\ One(recv, A) \in {0, 1}
  BY DEF One
<1>5. CASE x.op # "imm"
  <2>1. cq' = [cq EXCEPT ![a] = Append(@, sent)]
    BY <1>5 DEF Completes
  <2>2. cq'[q] = IF q = a THEN Append(cq[q], sent) ELSE cq[q]
    BY <2>1, <1>1
  <2> QED
    BY <2>2, <1>1, <1>2, <1>3, <1>4, <1>5
<1>6. CASE x.op = "imm" /\ d # a
  <2>1. cq' = [cq EXCEPT ![a] = Append(@, sent), ![d] = Append(@, recv)]
    BY <1>6 DEF Completes
  <2>2. cq'[q] = IF q = d THEN Append(cq[q], recv)
                 ELSE IF q = a THEN Append(cq[q], sent) ELSE cq[q]
    BY <2>1, <1>1, <1>6
  <2> QED
    BY <2>2, <1>1, <1>2, <1>3, <1>4, <1>6
<1>7. CASE x.op = "imm" /\ d = a
  <2>1. cq' = [cq EXCEPT ![a] = @ \o <<recv, sent>>]
    BY <1>7 DEF Completes
  <2>2. CASE q = d
    <3>1. cq'[q] = Append(Append(cq[q], recv), sent)
      <4>1. cq'[q] = cq[q] \o <<recv, sent>>
        BY <2>1, <2>2, <1>1, <1>7
      <4>2. cq[q] \o <<recv, sent>> = Append(Append(cq[q], recv), sent)
        BY <1>1, <1>2, AppendTwice
      <4> QED
        BY <4>1, <4>2
    <3>2. /\ Append(cq[q], recv) \in Seq(Completion)
          /\ Count(Append(cq[q], recv), A) = Count(cq[q], A) + One(recv, A)
      BY <1>1, <1>2, <1>3
    <3>3. Count(cq'[q], A) = Count(Append(cq[q], recv), A) + One(sent, A)
      BY <3>1, <3>2, <1>1, <1>3
    <3> QED
      BY <3>2, <3>3, <1>2, <1>4, <1>7
  <2>3. CASE q # d
    <3>1. cq'[q] = cq[q]
      BY <2>1, <2>3, <1>1, <1>7
    <3> QED
      BY <3>1, <2>3, <1>2, <1>4, <1>7
  <2> QED
    BY <2>2, <2>3
<1> QED
  BY <1>5, <1>6, <1>7

\* A step that touches no queue leaves the tallies alone.
LEMMA SameTallies ==
    ASSUME UNCHANGED <<sq, cq, batch, note>>
    PROVE  \A t \in Transfers : /\ OwnQueued(t)' = OwnQueued(t) /\ NoteQueued(t)' = NoteQueued(t)
                                /\ Completed(t)' = Completed(t) /\ Arrived(t)' = Arrived(t)
                                /\ NoteDue(t)' = NoteDue(t)
BY DEF OwnQueued, NoteQueued, Completed, Arrived, NoteDue

\* The steps of a thread that post nothing.
Unposted(th) ==
    \/ PlanCreate(th) \/ PlanStart(th) \/ PlanDestroy(th) \/ StartLock(th)
    \/ SpaceTimeout(th) \/ CountSubmit(th) \/ StartUnlock(th)

\* What a thread has posted is known from its place in the loop.
LEMMA PostedKept ==
    ASSUME VerbsInv, StartsOK, NEW th \in Threads, Unposted(th), NEW t \in Transfers
    PROVE  Posted(t)' = Posted(t)
<1>1. /\ t[1] \in Threads /\ t[2] \in 1 .. Len(Wrts[t[1]]) /\ Len(Wrts[t[1]]) \in Nat
      /\ starts \in [Threads -> 0 .. MaxStart] /\ at \in [Threads -> Nat] /\ MaxStart \in Nat
      /\ pc \in [Threads -> {"idle", "lock", "check", "count"}]
      /\ plan \in [Threads -> {"none", "ready", "gone"}]
  BY TransferType, VerbsAssumption DEF VerbsInv, TypeOK
<1>2. starts[t[1]] \in Nat /\ at[t[1]] \in Nat /\ t[2] \in Nat /\ t[2] >= 1 /\ starts[th] \in Nat
  <2>1. starts[t[1]] \in 0 .. MaxStart /\ at[t[1]] \in Nat /\ starts[th] \in 0 .. MaxStart
    BY <1>1
  <2> QED
    BY <2>1, <1>1
<1>3. CASE t[1] # th
  <2>1. starts'[t[1]] = starts[t[1]] /\ pc'[t[1]] = pc[t[1]] /\ at'[t[1]] = at[t[1]]
    BY <1>1, <1>3 DEF Unposted, PlanCreate, PlanStart, PlanDestroy, StartLock, SpaceTimeout,
                      CountSubmit, StartUnlock, appVars
  <2> QED
    BY <2>1 DEF Posted
<1>4. CASE t[1] = th
  <2>1. CASE PlanCreate(th)
    <3>1. starts[th] = 0 /\ pc[th] = "idle"
      BY <2>1 DEF PlanCreate, StartsOK, VerbsInv, LockOK
    <3>2. \/ starts'[th] = starts[th]
          \/ starts'[th] = 1 /\ pc'[th] = "lock"
      BY <2>1, <1>1 DEF PlanCreate
    <3>3. Posted(t) = 0
      BY <3>1, <1>4 DEF Posted
    <3>4. Posted(t)' = 0
      BY <3>1, <3>2, <1>4 DEF Posted
    <3> QED
      BY <3>3, <3>4
  <2>2. CASE PlanStart(th)
    <3>1. starts'[th] = starts[th] + 1 /\ pc'[th] = "lock" /\ pc[th] = "idle"
      BY <2>2, <1>1 DEF PlanStart
    <3>2. Posted(t) = starts[th]
      BY <3>1, <1>4 DEF Posted
    <3>3. Posted(t)' = starts[th]
      BY <3>1, <1>2, <1>4 DEF Posted
    <3> QED
      BY <3>2, <3>3
  <2>3. CASE PlanDestroy(th)
    BY <2>3 DEF PlanDestroy, Posted
  <2>4. CASE SpaceTimeout(th)
    BY <2>4 DEF SpaceTimeout, Posted, appVars
  <2>5. CASE StartLock(th)
    <3>1. pc[th] = "lock" /\ pc'[th] = "check" /\ at'[th] = 1 /\ starts' = starts
      BY <2>5, <1>1 DEF StartLock
    <3> QED
      BY <3>1, <1>2, <1>4 DEF Posted
  <2>6. CASE CountSubmit(th)
    <3>1. pc[th] = "count" /\ pc'[th] = "check" /\ at'[th] = at[th] + 1 /\ starts' = starts
      BY <2>6, <1>1 DEF CountSubmit
    <3> QED
      BY <3>1, <1>2, <1>4 DEF Posted
  <2>7. CASE StartUnlock(th)
    <3>1. pc[th] = "check" /\ at[th] > t[2] /\ pc'[th] = "idle" /\ starts' = starts
      BY <2>7, <1>1, <1>2, <1>4 DEF StartUnlock
    <3> QED
      BY <3>1, <1>2, <1>4 DEF Posted
  <2> QED
    BY <2>1, <2>2, <2>3, <2>4, <2>5, <2>6, <2>7 DEF Unposted
<1> QED
  BY <1>3, <1>4

\* A plan that is in use stays started.
LEMMA StartsOKNext == VerbsInv /\ StartsOK /\ [Next]_vars => StartsOK'
<1> SUFFICES ASSUME VerbsInv, StartsOK, [Next]_vars, NEW u \in Threads
             PROVE  /\ pc'[u] # "idle" => starts'[u] > 0
                    /\ plan'[u] = "none" => starts'[u] = 0
  BY DEF StartsOK
<1>1. /\ starts \in [Threads -> 0 .. MaxStart] /\ MaxStart \in Nat
      /\ pc \in [Threads -> {"idle", "lock", "check", "count"}]
      /\ plan \in [Threads -> {"none", "ready", "gone"}]
  BY VerbsAssumption DEF VerbsInv, TypeOK
<1>2. /\ starts[u] \in Nat /\ (pc[u] # "idle" => starts[u] > 0)
      /\ plan[u] = "none" => starts[u] = 0
  <2>1. starts[u] \in 0 .. MaxStart
    BY <1>1
  <2> QED
    BY <2>1, <1>1 DEF StartsOK
<1>3. CASE plan' = plan /\ starts' = starts /\ pc' = pc
  BY <1>2, <1>3
<1>4. ASSUME NEW th \in Threads,
             \/ PlanCreate(th) \/ PlanStart(th) \/ PlanDestroy(th) \/ StartLock(th)
             \/ SpaceTimeout(th) \/ CountSubmit(th) \/ StartUnlock(th) \/ PostSend(th)
      PROVE  /\ pc'[u] # "idle" => starts'[u] > 0
             /\ plan'[u] = "none" => starts'[u] = 0
  <2>1. CASE u # th
    <3>1. plan'[u] = plan[u] /\ starts'[u] = starts[u] /\ pc'[u] = pc[u]
      BY <1>1, <1>4, <2>1 DEF PlanCreate, PlanStart, PlanDestroy, StartLock, SpaceTimeout,
                             CountSubmit, StartUnlock, PostSend, appVars
    <3> QED
      BY <3>1, <1>2
  <2>2. CASE u = th
    <3>1. CASE PlanCreate(th)
      BY <3>1, <2>2, <1>1, <1>2 DEF PlanCreate
    <3>2. CASE PlanStart(th)
      BY <3>2, <2>2, <1>1, <1>2 DEF PlanStart
    <3>3. CASE PlanDestroy(th)
      BY <3>3, <2>2, <1>1, <1>2 DEF PlanDestroy
    <3>4. CASE SpaceTimeout(th)
      BY <3>4, <1>2 DEF SpaceTimeout, appVars
    <3>5. CASE StartLock(th) \/ CountSubmit(th)
      BY <3>5, <2>2, <1>1, <1>2 DEF StartLock, CountSubmit
    <3>6. CASE StartUnlock(th)
      <4>1. plan[u] # "none"
        BY <3>6, <2>2 DEF StartUnlock, VerbsInv, LockOK
      <4> QED
        BY <4>1, <3>6, <2>2, <1>1, <1>2 DEF StartUnlock
    <3>7. CASE PostSend(th)
      BY <3>7, <2>2, <1>1, <1>2 DEF PostSend
    <3> QED
      BY <1>4, <3>1, <3>2, <3>3, <3>4, <3>5, <3>6, <3>7
  <2> QED
    BY <2>1, <2>2
<1>5. ASSUME NEW r \in Ranks, NEW q \in Ranks,
             Execute(r, q) \/ Poll(r) \/ Handle(r) \/ Notify(r) \/ Repost(r)
      PROVE  plan' = plan /\ starts' = starts /\ pc' = pc
  BY <1>5 DEF Execute, Poll, Handle, Notify, Repost, appVars
<1> QED
  BY <1>3, <1>4, <1>5 DEF Next, vars, appVars

-----------------------------------------------------------------------------
(* What each step does to the tallies *)

\* A request posted or executed is one of t only in the queue pair of t.
LEMMA RequestPlace ==
    ASSUME NEW t \in Transfers, NEW a \in Ranks, NEW d \in Ranks, NEW x \in WRs(a, d)
    PROVE  /\ x \in WorkRequest
           /\ x \in OwnWR(t) => Home[t[1]] = a /\ W(t).dst = d
           /\ x \in NoteWR(t) => Home[t[1]] = a /\ W(t).dst = d
<1>1. t # None
  BY TransferPlace
<1> QED
  BY <1>1 DEF WRs, OwnWR, NoteWR

\* The queue pair from a to d is given the request x, and no other.
Queues(a, d, x) == sq' = [sq EXCEPT ![a][d] = Append(sq[a][d], x)]

\* The queue pair from r to q after that.
LEMMA QueuesAt ==
    ASSUME VerbsInv, NEW a \in Ranks, NEW d \in Ranks, NEW x, Queues(a, d, x),
           NEW r \in Ranks, NEW q \in Ranks
    PROVE  /\ sq[r][q] \in Seq(WorkRequest)
           /\ sq'[r][q] = IF r = a /\ q = d THEN Append(sq[r][q], x) ELSE sq[r][q]
<1>1. sq \in [Ranks -> [Ranks -> Seq(WorkRequest)]]
  BY DEF VerbsInv, TypeOK
<1>2. sq'[r] = IF r = a THEN [sq[a] EXCEPT ![d] = Append(sq[a][d], x)] ELSE sq[r]
  BY <1>1 DEF Queues
<1>3. sq[r] \in [Ranks -> Seq(WorkRequest)]
  BY <1>1
<1> QED
  BY <1>2, <1>3

\* A posted request is counted where it is queued.
LEMMA QueueCounts ==
    ASSUME VerbsInv, NEW a \in Ranks, NEW d \in Ranks, NEW x \in WRs(a, d), Queues(a, d, x),
           NEW t \in Transfers
    PROVE  /\ OwnQueued(t)' = OwnQueued(t) + One(x, OwnWR(t))
           /\ NoteQueued(t)' = NoteQueued(t) + One(x, NoteWR(t))
<1> SUFFICES ASSUME NEW r \in Ranks, r = Home[t[1]], NEW q \in Ranks, q = W(t).dst
             PROVE  /\ OwnQueued(t)' = OwnQueued(t) + One(x, OwnWR(t))
                    /\ NoteQueued(t)' = NoteQueued(t) + One(x, NoteWR(t))
  BY TransferPlace
<1>1. /\ x \in WorkRequest
      /\ x \in OwnWR(t) => r = a /\ q = d
      /\ x \in NoteWR(t) => r = a /\ q = d
  BY RequestPlace
<1>2. /\ sq[r][q] \in Seq(WorkRequest)
      /\ sq'[r][q] = IF r = a /\ q = d THEN Append(sq[r][q], x) ELSE sq[r][q]
  BY QueuesAt
<1>3. \A A : (x \in A => r = a /\ q = d)
              => Count(sq'[r][q], A) = Count(sq[r][q], A) + One(x, A)
  <2>1. \A s \in Seq(WorkRequest) : \A u, A :
          u = Append(s, x) \/ (u = s /\ x \notin A) => Count(u, A) = Count(s, A) + One(x, A)
    BY <1>1, QueueAppended
  <2> SUFFICES ASSUME NEW A, x \in A => r = a /\ q = d
               PROVE  Count(sq'[r][q], A) = Count(sq[r][q], A) + One(x, A)
    OBVIOUS
  <2> SUFFICES ASSUME NEW s, s = sq[r][q], NEW u, u = sq'[r][q]
               PROVE  Count(u, A) = Count(s, A) + One(x, A)
    OBVIOUS
  <2>2. s \in Seq(WorkRequest) /\ (u = Append(s, x) \/ (u = s /\ x \notin A))
    BY <1>2
  <2> QED
    BY <2>1, <2>2
<1>4. /\ Count(sq'[r][q], OwnWR(t)) = Count(sq[r][q], OwnWR(t)) + One(x, OwnWR(t))
      /\ Count(sq'[r][q], NoteWR(t)) = Count(sq[r][q], NoteWR(t)) + One(x, NoteWR(t))
  BY <1>1, <1>3
<1> QED
  BY <1>4 DEF OwnQueued, NoteQueued

\* A thread posts the request of its next transfer, and no notification of a GET.
LEMMA PostSendTallies ==
    ASSUME VerbsInv, VerbsInv', StartsOK, NEW th \in Threads, PostSend(th), NEW t \in Transfers
    PROVE  \E n \in {0, 1} :
             /\ OwnQueued(t)' = OwnQueued(t) + n /\ Posted(t)' = Posted(t) + n
             /\ Notifies(W(t)) => NoteQueued(t)' = NoteQueued(t)
<1> SUFFICES ASSUME NEW u, u = <<th, at[th]>>, NEW a, a = Home[th], NEW d, d = W(u).dst,
                    NEW x, x = PostedWR(th)
             PROVE  \E n \in {0, 1} :
                      /\ OwnQueued(t)' = OwnQueued(t) + n /\ Posted(t)' = Posted(t) + n
                      /\ Notifies(W(t)) => NoteQueued(t)' = NoteQueued(t)
  OBVIOUS
<1>1. /\ pc[th] = "check" /\ at[th] <= Len(Wrts[th])
      /\ UNCHANGED <<starts, at>>
  BY DEF PostSend
<1>2. u \in Transfers /\ W(u) \in Wrt /\ a \in Ranks /\ d \in Ranks /\ x \in WRs(a, d)
  BY <1>1, PostedType, VerbsAssumption
<1>3. x.op = Opcode(W(u)) /\ x.wrid = u /\ x.imm = u /\ u[1] = th /\ u[2] = at[th]
  BY DEF PostedWR
<1>4. /\ Queues(a, d, x) /\ pc' = [pc EXCEPT ![th] = "count"]
  <2>1. err' # "assert"
    BY DEF VerbsInv, CountersOrdered
  <2> QED
    BY <2>1 DEF PostSend, Post, PostedWR, Queues
<1>5. /\ OwnQueued(t)' = OwnQueued(t) + One(x, OwnWR(t))
      /\ NoteQueued(t)' = NoteQueued(t) + One(x, NoteWR(t))
  BY <1>2, <1>4, QueueCounts
<1>6. x \in WorkRequest /\ (x \in OwnWR(t) <=> t = u)
  <2>1. x \in WorkRequest
    BY <1>2, RequestPlace
  <2> QED
    BY <2>1, <1>3 DEF OwnWR
<1>7. Notifies(W(t)) => NoteQueued(t)' = NoteQueued(t)
  <2> SUFFICES ASSUME Notifies(W(t)) PROVE NoteQueued(t)' = NoteQueued(t)
    OBVIOUS
  <2>1. x \notin NoteWR(t)
    BY <1>3 DEF NoteWR, Opcode, Notifies
  <2>2. One(x, NoteWR(t)) = 0 /\ NoteQueued(t) \in Nat
    BY <2>1, TallyTypes DEF One
  <2> QED
    BY <2>2, <1>5
<1>8. Posted(t)' = Posted(t) + One(x, OwnWR(t))
  <2>1. /\ t[1] \in Threads /\ t = <<t[1], t[2]>> /\ t[2] \in 1 .. Len(Wrts[t[1]])
        /\ Len(Wrts[t[1]]) \in Nat /\ Posted(t) \in Nat /\ starts[t[1]] \in Nat
        /\ pc \in [Threads -> {"idle", "lock", "check", "count"}] /\ at[th] \in Nat
    BY TransferType, TallyTypes DEF VerbsInv, TypeOK
  <2>2. CASE t[1] # th
    <3>1. pc'[t[1]] = pc[t[1]] /\ t # u
      BY <2>1, <2>2, <1>3, <1>4
    <3>2. Posted(t)' = Posted(t) /\ One(x, OwnWR(t)) = 0
      BY <3>1, <1>1, <1>6 DEF Posted, One
    <3> QED
      BY <3>2, <2>1
  <2>3. CASE t[1] = th
    <3>1. starts[th] > 0 /\ pc'[th] = "count" /\ at'[th] = at[th] /\ starts'[th] = starts[th]
      BY <2>1, <1>1, <1>4 DEF StartsOK
    <3>2. CASE t = u
      <4>1. t[2] = at[th] /\ One(x, OwnWR(t)) = 1
        BY <3>2, <1>3, <1>6 DEF One
      <4>2. Posted(t) = starts[th] - 1
        BY <4>1, <3>1, <2>1, <2>3, <1>1 DEF Posted
      <4>3. Posted(t)' = starts[th]
        BY <4>1, <3>1, <2>1, <2>3, <1>1 DEF Posted
      <4> QED
        BY <4>1, <4>2, <4>3, <2>1, <2>3
    <3>3. CASE t # u
      <4>1. t[2] # at[th] /\ One(x, OwnWR(t)) = 0
        BY <3>3, <2>1, <2>3, <1>3, <1>6 DEF One
      <4>2. Posted(t)' = Posted(t)
        BY <4>1, <3>1, <2>1, <2>3, <1>1 DEF Posted
      <4> QED
        BY <4>1, <4>2, <2>1
    <3> QED
      BY <3>2, <3>3
  <2> QED
    BY <2>2, <2>3
<1>9. One(x, OwnWR(t)) \in {0, 1}
  BY OneType
<1> QED
  BY <1>5, <1>7, <1>8, <1>9

\* The notification that is due is queued; nothing else is.
LEMMA NotifyTallies ==
    ASSUME VerbsInv, NEW p \in Ranks, Notify(p), NEW t \in Transfers
    PROVE  /\ OwnQueued(t)' = OwnQueued(t)
           /\ NoteQueued(t)' + NoteDue(t)' = NoteQueued(t) + NoteDue(t)
           /\ NoteQueued(t)' \in Nat /\ NoteDue(t)' \in {0, 1}
<1> SUFFICES ASSUME NEW u \in Transfers, u = note[p], NEW d, d = W(u).dst,
                    NEW x, x = [op |-> "imm", wrid |-> None, imm |-> u],
                    NEW r \in Ranks, r = Home[t[1]]
             PROVE  /\ OwnQueued(t)' = OwnQueued(t)
                    /\ NoteQueued(t)' + NoteDue(t)' = NoteQueued(t) + NoteDue(t)
                    /\ NoteQueued(t)' \in Nat /\ NoteDue(t)' \in {0, 1}
  BY TransferPlace DEF Notify, VerbsInv, TypeOK
<1>1. /\ note \in [Ranks -> Transfers \cup {None}] /\ t # None /\ u # None /\ d \in Ranks
      /\ OwnQueued(t) \in Nat /\ NoteQueued(t) \in Nat
  BY TallyTypes, TransferPlace DEF VerbsInv, TypeOK
<1>2. Home[u[1]] = p /\ Notifies(W(u))
  BY <1>1 DEF VerbsInv, ElementsOK
<1>3. x \in WRs(p, d) /\ x \notin OwnWR(t) /\ (x \in NoteWR(t) <=> t = u)
  BY <1>1, <1>2 DEF WRs, WorkRequest, OwnWR, NoteWR
<1>4. /\ Queues(p, d, x)
      /\ note' = [note EXCEPT ![p] = None]
  BY DEF Notify, Post, Queues
<1>5. /\ OwnQueued(t)' = OwnQueued(t) + One(x, OwnWR(t))
      /\ NoteQueued(t)' = NoteQueued(t) + One(x, NoteWR(t))
  BY <1>1, <1>3, <1>4, QueueCounts
<1>6. OwnQueued(t)' = OwnQueued(t)
  <2>1. One(x, OwnWR(t)) = 0
    BY <1>3 DEF One
  <2> QED
    BY <2>1, <1>1, <1>5
<1>7. CASE t = u
  <2>1. One(x, NoteWR(t)) = 1
    BY <1>3, <1>7 DEF One
  <2>2. NoteDue(t) = 1 /\ NoteDue(t)' = 0
    BY <1>1, <1>2, <1>4, <1>7 DEF NoteDue
  <2> QED
    BY <2>1, <2>2, <1>1, <1>5, <1>6
<1>8. CASE t # u
  <2>1. One(x, NoteWR(t)) = 0
    BY <1>3, <1>8 DEF One
  <2>2. NoteDue(t)' = NoteDue(t)
    BY <1>1, <1>4, <1>8 DEF NoteDue
  <2>3. NoteDue(t) \in {0, 1}
    BY TallyTypes
  <2> QED
    BY <2>1, <2>2, <2>3, <1>1, <1>5, <1>6
<1> QED
  BY <1>7, <1>8

\* The queue pair from a to d gives up its oldest request, and no other.
Takes(a, d) == sq[a][d] # <<>> /\ sq' = [sq EXCEPT ![a][d] = Tail(sq[a][d])]

\* The queue pair from r to q after that.
LEMMA TakesAt ==
    ASSUME VerbsInv, NEW a \in Ranks, NEW d \in Ranks, Takes(a, d),
           NEW r \in Ranks, NEW q \in Ranks
    PROVE  /\ sq[r][q] \in Seq(WorkRequest)
           /\ sq'[r][q] = IF r = a /\ q = d THEN Tail(sq[r][q]) ELSE sq[r][q]
<1>1. sq \in [Ranks -> [Ranks -> Seq(WorkRequest)]]
  BY DEF VerbsInv, TypeOK
<1>2. sq'[r] = IF r = a THEN [sq[a] EXCEPT ![d] = Tail(sq[a][d])] ELSE sq[r]
  BY <1>1 DEF Takes
<1>3. sq[r] \in [Ranks -> Seq(WorkRequest)]
  BY <1>1
<1> QED
  BY <1>2, <1>3

\* An executed request is uncounted where it was queued.
LEMMA TakeCounts ==
    ASSUME VerbsInv, NEW a \in Ranks, NEW d \in Ranks, Takes(a, d),
           NEW x, x = Head(sq[a][d]), NEW t \in Transfers
    PROVE  /\ x \in WRs(a, d)
           /\ OwnQueued(t) = OwnQueued(t)' + One(x, OwnWR(t))
           /\ NoteQueued(t) = NoteQueued(t)' + One(x, NoteWR(t))
           /\ OwnQueued(t)' \in Nat /\ NoteQueued(t)' \in Nat
<1> SUFFICES ASSUME NEW r \in Ranks, r = Home[t[1]], NEW q \in Ranks, q = W(t).dst
             PROVE  /\ x \in WRs(a, d)
                    /\ OwnQueued(t) = OwnQueued(t)' + One(x, OwnWR(t))
                    /\ NoteQueued(t) = NoteQueued(t)' + One(x, NoteWR(t))
                    /\ OwnQueued(t)' \in Nat /\ NoteQueued(t)' \in Nat
  BY TransferPlace
<1>1. sq[a][d] # <<>> /\ x \in WRs(a, d)
  <2>1. sq[a][d] \in Seq(WRs(a, d)) /\ sq[a][d] # <<>>
    BY DEF VerbsInv, ElementsOK, Takes
  <2> QED
    BY <2>1, TailType
<1>2. /\ x \in WorkRequest
      /\ x \in OwnWR(t) => r = a /\ q = d
      /\ x \in NoteWR(t) => r = a /\ q = d
  BY <1>1, RequestPlace
<1>3. /\ sq[r][q] \in Seq(WorkRequest)
      /\ sq'[r][q] = IF r = a /\ q = d THEN Tail(sq[r][q]) ELSE sq[r][q]
  BY TakesAt
<1>4. \A A : (x \in A => r = a /\ q = d)
              => Count(sq[r][q], A) = Count(sq'[r][q], A) + One(x, A)
  <2> SUFFICES ASSUME NEW A, x \in A => r = a /\ q = d,
                      NEW s, s = sq[r][q], NEW u, u = sq'[r][q]
               PROVE  Count(s, A) = Count(u, A) + One(x, A)
    OBVIOUS
  <2>1. Taken(s, x, u) \/ (u = s /\ x \notin A)
    <3>1. CASE r = a /\ q = d
      BY <3>1, <1>1, <1>3 DEF Taken
    <3>2. CASE ~(r = a /\ q = d)
      BY <3>2, <1>3
    <3> QED
      BY <3>1, <3>2
  <2>2. s \in Seq(WorkRequest)
    BY <1>3
  <2> QED
    BY <2>1, <2>2, QueueTaken
<1>5. /\ Count(sq[r][q], OwnWR(t)) = Count(sq'[r][q], OwnWR(t)) + One(x, OwnWR(t))
      /\ Count(sq[r][q], NoteWR(t)) = Count(sq'[r][q], NoteWR(t)) + One(x, NoteWR(t))
  BY <1>2, <1>4
<1>6. Count(sq'[r][q], OwnWR(t)) \in Nat /\ Count(sq'[r][q], NoteWR(t)) \in Nat
  <2>1. sq'[r][q] \in Seq(WorkRequest)
    <3>1. sq[r][q] # <<>> => Tail(sq[r][q]) \in Seq(WorkRequest)
      BY <1>3, TailType
    <3>2. r = a /\ q = d => sq[r][q] # <<>>
      BY <1>1
    <3> QED
      BY <3>1, <3>2, <1>3
  <2> QED
    BY <2>1, CountType
<1> QED
  BY <1>1, <1>5, <1>6 DEF OwnQueued, NoteQueued

\* An executed request is completed at its home; immediate data arrives at the
\* other end.
LEMMA ExecuteTallies ==
    ASSUME VerbsInv, NEW a \in Ranks, NEW d \in Ranks, Execute(a, d), NEW t \in Transfers
    PROVE  \E n, m \in {0, 1} :
             /\ OwnQueued(t) = OwnQueued(t)' + n
             /\ NoteQueued(t) = NoteQueued(t)' + m
             /\ OwnQueued(t)' \in Nat /\ NoteQueued(t)' \in Nat
             /\ err' = "no" => Completed(t)' = Completed(t) + n /\ Arrived(t)' = Arrived(t) + m
             /\ W(t).dma = "put" /\ W(t).rmt => n = m
             /\ n = IF Head(sq[a][d]).wrid = t THEN 1 ELSE 0
<1> SUFFICES ASSUME NEW x, x = Head(sq[a][d]),
                    NEW r \in Ranks, r = Home[t[1]], NEW q \in Ranks, q = W(t).dst,
                    NEW n, NEW m, n = One(x, OwnWR(t)), m = One(x, NoteWR(t))
             PROVE  /\ OwnQueued(t) = OwnQueued(t)' + n
                    /\ NoteQueued(t) = NoteQueued(t)' + m
                    /\ OwnQueued(t)' \in Nat /\ NoteQueued(t)' \in Nat
                    /\ err' = "no" => Completed(t)' = Completed(t) + n /\ Arrived(t)' = Arrived(t) + m
                    /\ W(t).dma = "put" /\ W(t).rmt => n = m
                    /\ n = IF Head(sq[a][d]).wrid = t THEN 1 ELSE 0
  <2>1. One(Head(sq[a][d]), OwnWR(t)) \in {0, 1} /\ One(Head(sq[a][d]), NoteWR(t)) \in {0, 1}
    BY OneType
  <2> QED
    BY <2>1, TransferPlace
<1>1. Takes(a, d) /\ batch' = batch
  BY DEF Execute, Takes, dmnVars
<1>2. /\ x \in WRs(a, d)
      /\ OwnQueued(t) = OwnQueued(t)' + n
      /\ NoteQueued(t) = NoteQueued(t)' + m
      /\ OwnQueued(t)' \in Nat /\ NoteQueued(t)' \in Nat
  BY <1>1, TakeCounts
<1>3. /\ x \in WorkRequest
      /\ x \in OwnWR(t) => r = a /\ q = d
      /\ x \in NoteWR(t) => r = a /\ q = d
  BY <1>2, RequestPlace
<1>4. t # None /\ W(t) \in Wrt
  BY TransferPlace
<1>5. /\ x \in OwnWR(t) <=> x.wrid = t
      /\ W(t).dma = "put" /\ W(t).rmt => (x \in OwnWR(t) <=> x \in NoteWR(t))
  BY <1>2, <1>4 DEF WRs, WorkRequest, OwnWR, NoteWR, Opcode, Notifies, Wrt
<1>6. n \in {0, 1} /\ m \in {0, 1}
  BY OneType
<1>7. ASSUME err' = "no" PROVE Completed(t)' = Completed(t) + n /\ Arrived(t)' = Arrived(t) + m
  <2>1. Completes(a, d, x)
    BY <1>7 DEF Execute, Completes, SentBy, RecvBy
  <2> SUFFICES ASSUME NEW sent, NEW recv, sent = SentBy(d, x), recv = RecvBy(a, x)
               PROVE  Completed(t)' = Completed(t) + n /\ Arrived(t)' = Arrived(t) + m
    OBVIOUS
  <2>2. /\ sent \in Completion /\ recv \in Completion
        /\ sent.kind # "recv" /\ sent.t = x.wrid /\ recv.kind = "recv" /\ recv.t = x.imm
    BY <1>2, CompletionType DEF SentBy, RecvBy
  <2>3. /\ sent \in SentC(t) <=> x \in OwnWR(t)
        /\ recv \notin SentC(t) /\ sent \notin NoteC(t)
        /\ x.op = "imm" => (recv \in NoteC(t) <=> x \in NoteWR(t))
        /\ x.op # "imm" => x \notin NoteWR(t)
    BY <2>2, <1>3, <1>5 DEF SentC, NoteC, NoteWR
  <2>4. \A A : \A p \in Ranks :
          (sent \in A => p = a) /\ (x.op = "imm" /\ recv \in A => p = d)
             => /\ x.op # "imm" => Count(cq'[p], A) = Count(cq[p], A) + One(sent, A)
                /\ x.op = "imm" => Count(cq'[p], A) = Count(cq[p], A) + One(sent, A) + One(recv, A)
    BY <2>1, <1>2, CompletesCount
  <2>5. Count(cq[r], SentC(t)) \in Nat /\ Count(cq[q], NoteC(t)) \in Nat
    <3>1. cq[r] \in Seq(Completion) /\ cq[q] \in Seq(Completion)
      BY DEF VerbsInv, TypeOK
    <3> QED
      BY <3>1, CountType
  <2>6. Count(cq'[r], SentC(t)) = Count(cq[r], SentC(t)) + n
    <3>1. One(sent, SentC(t)) = n /\ One(recv, SentC(t)) = 0
      BY <2>3 DEF One
    <3>2. (sent \in SentC(t) => r = a) /\ (x.op = "imm" /\ recv \in SentC(t) => r = d)
      BY <2>3, <1>3
    <3>3. /\ x.op # "imm" => Count(cq'[r], SentC(t)) = Count(cq[r], SentC(t)) + n
          /\ x.op = "imm" => Count(cq'[r], SentC(t)) = Count(cq[r], SentC(t)) + n + 0
      BY <2>4, <3>1, <3>2
    <3> QED
      BY <3>3, <2>5, <1>6
  <2>7. Count(cq'[q], NoteC(t)) = Count(cq[q], NoteC(t)) + m
    <3>1. /\ One(sent, NoteC(t)) = 0 /\ (x.op = "imm" => One(recv, NoteC(t)) = m)
          /\ x.op # "imm" => m = 0
      BY <2>3 DEF One
    <3>2. (sent \in NoteC(t) => q = a) /\ (x.op = "imm" /\ recv \in NoteC(t) => q = d)
      BY <2>3, <1>3
    <3>3. /\ x.op # "imm" => Count(cq'[q], NoteC(t)) = Count(cq[q], NoteC(t)) + 0
          /\ x.op = "imm" => Count(cq'[q], NoteC(t)) = Count(cq[q], NoteC(t)) + 0 + m
      BY <2>4, <3>1, <3>2
    <3> QED
      BY <3>1, <3>3, <2>5, <1>6
  <2>8. Count(batch[r], SentC(t)) \in Nat /\ Count(batch[q], NoteC(t)) \in Nat
    <3>1. batch[r] \in Seq(Completion) /\ batch[q] \in Seq(Completion)
      BY DEF VerbsInv, TypeOK
    <3> QED
      BY <3>1, CountType
  <2>9. /\ Completed(t) = Count(cq[r], SentC(t)) + Count(batch[r], SentC(t))
        /\ Completed(t)' = Count(cq'[r], SentC(t)) + Count(batch[r], SentC(t))
        /\ Arrived(t) = Count(cq[q], NoteC(t)) + Count(batch[q], NoteC(t))
        /\ Arrived(t)' = Count(cq'[q], NoteC(t)) + Count(batch[q], NoteC(t))
    BY <1>1 DEF Completed, Arrived
  <2> QED
    BY <2>5, <2>6, <2>7, <2>8, <2>9, <1>6
<1> QED
  BY <1>2, <1>5, <1>7 DEF One

\* A poll moves completions into the batch.
LEMMA PollTallies ==
    ASSUME VerbsInv, NEW p \in Ranks, Poll(p), NEW t \in Transfers
    PROVE  /\ Completed(t)' = Completed(t) /\ Arrived(t)' = Arrived(t)
           /\ OwnQueued(t)' = OwnQueued(t) /\ NoteQueued(t)' = NoteQueued(t)
           /\ NoteDue(t)' = NoteDue(t)
<1>1. /\ batch[p] = <<>> /\ batch' = [batch EXCEPT ![p] = cq[p]] /\ cq' = [cq EXCEPT ![p] = <<>>]
      /\ sq' = sq /\ note' = note
  BY DEF Poll
<1>2. cq \in [Ranks -> Seq(Completion)] /\ batch \in [Ranks -> Seq(Completion)]
  BY DEF VerbsInv, TypeOK
<1>3. ASSUME NEW r \in Ranks, NEW A
      PROVE  Count(cq'[r], A) + Count(batch'[r], A) = Count(cq[r], A) + Count(batch[r], A)
  <2>1. CASE p = r
    <3>1. cq'[r] = <<>> /\ batch'[r] = cq[r] /\ batch[r] = <<>>
      BY <2>1, <1>1, <1>2
    <3>2. Count(<<>>, A) = 0
      BY CountEmpty
    <3>3. Count(cq[r], A) \in Nat
      BY <1>2, CountType
    <3> QED
      BY <3>1, <3>2, <3>3
  <2>2. CASE p # r
    BY <2>2, <1>1, <1>2
  <2> QED
    BY <2>1, <2>2
<1>4. Home[t[1]] \in Ranks /\ W(t).dst \in Ranks
  BY TransferPlace
<1>5. Completed(t)' = Completed(t) /\ Arrived(t)' = Arrived(t)
  BY <1>3, <1>4 DEF Completed, Arrived
<1> QED
  BY <1>1, <1>5 DEF OwnQueued, NoteQueued, NoteDue

\* The events of a completion: of the request of t, and of what tells its other end.
LEMMA ProgressEffect ==
    ASSUME VerbsInv, NEW p \in Ranks, NEW c \in Completion, c \in Comps(p), Progress(c),
           NEW t \in Transfers
    PROVE  /\ events'[t].loc = events[t].loc + (IF W(t).loc THEN One(c, SentC(t)) ELSE 0)
           /\ events'[t].rmt = events[t].rmt + One(c, NoteC(t))
<1>1. t # None
  BY TransferPlace
<1>2. /\ events \in [Transfers -> [loc : Nat, rmt : Nat]]
      /\ c.kind \in {"write", "read", "recv"} /\ c.t \in Transfers \cup {None}
  BY DEF VerbsInv, TypeOK, Completion
<1>3. events[t] \in [loc : Nat, rmt : Nat]
  BY <1>2
<1>4. One(c, NoteC(t)) = (IF c.kind = "recv" /\ c.t = t THEN 1 ELSE 0)
      /\ One(c, SentC(t)) = (IF c.kind # "recv" /\ c.t = t THEN 1 ELSE 0)
  BY DEF One, NoteC, SentC
<1>5. CASE c.kind = "recv"
  <2>1. events' = [events EXCEPT ![c.t].rmt = @ + 1] /\ c.t \in Transfers
    BY <1>2, <1>5 DEF Progress, Comps
  <2>2. CASE c.t = t
    <3>1. events'[t] = [events[t] EXCEPT !.rmt = @ + 1]
      BY <2>1, <2>2, <1>2
    <3>2. events'[t].loc = events[t].loc /\ events'[t].rmt = events[t].rmt + 1
      BY <3>1, <1>3
    <3> QED
      BY <3>2, <2>2, <1>3, <1>4, <1>5
  <2>3. CASE c.t # t
    <3>1. events'[t] = events[t]
      BY <2>1, <2>3, <1>2
    <3> QED
      BY <3>1, <2>3, <1>3, <1>4, <1>5
  <2> QED
    BY <2>2, <2>3
<1>6. CASE c.kind # "recv" /\ c.t = t
  <2>1. CASE W(t).loc
    <3>1. events' = [events EXCEPT ![t].loc = @ + 1]
      BY <2>1, <1>1, <1>6 DEF Progress
    <3>2. events'[t] = [events[t] EXCEPT !.loc = @ + 1]
      BY <3>1, <1>2
    <3>3. events'[t].loc = events[t].loc + 1 /\ events'[t].rmt = events[t].rmt
      BY <3>2, <1>3
    <3> QED
      BY <3>3, <2>1, <1>3, <1>4, <1>6
  <2>2. CASE ~W(t).loc
    <3>1. events' = events
      BY <2>2, <1>6 DEF Progress
    <3> QED
      BY <3>1, <2>2, <1>3, <1>4, <1>6
  <2> QED
    BY <2>1, <2>2
<1>7. CASE c.kind # "recv" /\ c.t # t
  <2>1. events' = events \/ (c.t \in Transfers /\ events' = [events EXCEPT ![c.t].loc = @ + 1])
    BY <1>2, <1>7 DEF Progress
  <2>2. events'[t] = events[t]
    BY <2>1, <1>2, <1>7
  <2> QED
    BY <2>2, <1>3, <1>4, <1>7
<1> QED
  BY <1>5, <1>6, <1>7

\* Handling a completion turns it into an event; that of a GET with a remote
\* signal makes its notification due.
LEMMA HandleTallies ==
    ASSUME VerbsInv, NEW p \in Ranks, Handle(p), NEW t \in Transfers
    PROVE  \E n, m \in {0, 1} :
             /\ Completed(t) = Completed(t)' + n /\ Arrived(t) = Arrived(t)' + m
             /\ Completed(t)' \in Nat /\ Arrived(t)' \in Nat
             /\ events'[t].loc = events[t].loc + (IF W(t).loc THEN n ELSE 0)
             /\ events'[t].rmt = events[t].rmt + m
             /\ Notifies(W(t)) => NoteDue(t)' = NoteDue(t) + n
             /\ OwnQueued(t)' = OwnQueued(t) /\ NoteQueued(t)' = NoteQueued(t)
             /\ n = One(Head(batch[p]), SentC(t)) /\ m = One(Head(batch[p]), NoteC(t))
<1> SUFFICES ASSUME NEW c, c = Head(batch[p]),
                    NEW r \in Ranks, r = Home[t[1]], NEW q \in Ranks, q = W(t).dst,
                    NEW n, NEW m, n = One(c, SentC(t)), m = One(c, NoteC(t))
             PROVE  /\ Completed(t) = Completed(t)' + n /\ Arrived(t) = Arrived(t)' + m
                    /\ Completed(t)' \in Nat /\ Arrived(t)' \in Nat
                    /\ events'[t].loc = events[t].loc + (IF W(t).loc THEN n ELSE 0)
                    /\ events'[t].rmt = events[t].rmt + m
                    /\ Notifies(W(t)) => NoteDue(t)' = NoteDue(t) + n
                    /\ OwnQueued(t)' = OwnQueued(t) /\ NoteQueued(t)' = NoteQueued(t)
  <2>1. One(Head(batch[p]), SentC(t)) \in {0, 1} /\ One(Head(batch[p]), NoteC(t)) \in {0, 1}
    BY OneType
  <2> QED
    BY <2>1, TransferPlace
<1>1. /\ batch[p] # <<>> /\ batch' = [batch EXCEPT ![p] = Tail(@)] /\ note[p] = None
      /\ HandleWrite(p, c) \/ HandleRecv(p, c) \/ HandleRead(p, c)
      /\ sq' = sq /\ cq' = cq /\ Progress(c)
  BY DEF Handle, nicVars
<1>2. /\ note \in [Ranks -> Transfers \cup {None}] /\ batch \in [Ranks -> Seq(Completion)]
      /\ batch[p] \in Seq(Comps(p)) /\ t # None /\ W(t) \in Wrt
  BY TransferPlace DEF VerbsInv, TypeOK, ElementsOK
<1>3. c \in Completion /\ c \in Comps(p)
  <2>1. batch[p] \in Seq(Completion)
    BY <1>2
  <2> QED
    BY <1>1, <1>2, <2>1, TailType
<1>4. /\ events'[t].loc = events[t].loc + (IF W(t).loc THEN n ELSE 0)
      /\ events'[t].rmt = events[t].rmt + m
  BY <1>1, <1>3, ProgressEffect
<1>5. ASSUME NEW s \in Ranks, NEW A, c \in A => s = p
      PROVE  /\ Count(batch[s], A) = Count(batch'[s], A) + One(c, A)
             /\ Count(batch'[s], A) \in Nat
  <2>1. batch[s] \in Seq(Completion) /\ Count(batch[s], A) \in Nat
    BY <1>2, CountType
  <2>2. CASE p = s
    <3>1. batch'[s] = Tail(batch[s]) /\ batch[s] # <<>> /\ c = Head(batch[s])
      BY <2>2, <1>1, <1>2
    <3>2. Count(batch[s], A) = Count(Tail(batch[s]), A) + One(Head(batch[s]), A)
      BY <3>1, <2>1, CountTail
    <3>3. Tail(batch[s]) \in Seq(Completion)
      BY <3>1, <2>1, TailType
    <3>4. Count(Tail(batch[s]), A) \in Nat
      BY <3>3, CountType
    <3> QED
      BY <3>1, <3>2, <3>4
  <2>3. CASE p # s
    <3>1. batch'[s] = batch[s]
      BY <2>3, <1>1, <1>2
    <3>2. One(c, A) = 0
      BY <2>3, <1>5 DEF One
    <3> QED
      BY <3>1, <3>2, <2>1
  <2> QED
    BY <2>2, <2>3
<1>6. c \in SentC(t) => r = p /\ (Notifies(W(t)) => c.kind = "read")
  BY <1>2, <1>3 DEF SentC, Comps, Completion, Notifies
<1>7. c \in NoteC(t) => q = p
  BY <1>3 DEF NoteC, Comps
<1>8. /\ Count(batch[r], SentC(t)) = Count(batch'[r], SentC(t)) + n
      /\ Count(batch'[r], SentC(t)) \in Nat
  BY <1>5, <1>6
<1>9. /\ Count(batch[q], NoteC(t)) = Count(batch'[q], NoteC(t)) + m
      /\ Count(batch'[q], NoteC(t)) \in Nat
  BY <1>5, <1>7
<1>10. /\ Completed(t) = Completed(t)' + n /\ Arrived(t) = Arrived(t)' + m
       /\ Completed(t)' \in Nat /\ Arrived(t)' \in Nat
  <2>1. Count(cq[r], SentC(t)) \in Nat /\ Count(cq[q], NoteC(t)) \in Nat
    <3>1. cq[r] \in Seq(Completion) /\ cq[q] \in Seq(Completion)
      BY DEF VerbsInv, TypeOK
    <3> QED
      BY <3>1, CountType
  <2>2. /\ Completed(t) = Count(cq[r], SentC(t)) + Count(batch[r], SentC(t))
        /\ Completed(t)' = Count(cq[r], SentC(t)) + Count(batch'[r], SentC(t))
        /\ Arrived(t) = Count(cq[q], NoteC(t)) + Count(batch[q], NoteC(t))
        /\ Arrived(t)' = Count(cq[q], NoteC(t)) + Count(batch'[q], NoteC(t))
    BY <1>1 DEF Completed, Arrived
  <2>3. n \in Nat /\ m \in Nat
    BY OneType
  <2> QED
    BY <2>1, <2>2, <2>3, <1>8, <1>9
<1>11. Notifies(W(t)) => NoteDue(t)' = NoteDue(t) + n
  <2> SUFFICES ASSUME Notifies(W(t)) PROVE NoteDue(t)' = NoteDue(t) + n
    OBVIOUS
  <2>1. CASE c \in SentC(t)
    <3>1. c.t = t /\ c.kind = "read" /\ r = p /\ n = 1
      BY <2>1, <1>6 DEF SentC, One
    <3>2. note' = [note EXCEPT ![p] = t]
      BY <3>1, <1>1 DEF HandleWrite, HandleRecv, HandleRead
    <3>3. note'[r] = t /\ note[r] # t
      BY <3>1, <3>2, <1>1, <1>2
    <3> QED
      BY <3>1, <3>3 DEF NoteDue
  <2>2. CASE c \notin SentC(t)
    <3>1. note'[r] = t <=> note[r] = t
      <4>1. CASE c.kind = "read"
        <5>1. c.t # t
          BY <2>2, <4>1, <1>3 DEF SentC
        <5>2. note' = [note EXCEPT ![p] = IF Notifies(W(c.t)) THEN c.t ELSE None]
          BY <4>1, <1>1 DEF HandleWrite, HandleRecv, HandleRead
        <5> QED
          BY <5>1, <5>2, <1>1, <1>2
      <4>2. CASE c.kind # "read"
        BY <4>2, <1>1 DEF HandleWrite, HandleRecv, HandleRead
      <4> QED
        BY <4>1, <4>2
    <3>2. n = 0 /\ NoteDue(t) \in {0, 1}
      BY <2>2, TallyTypes DEF One
    <3> QED
      BY <3>1, <3>2 DEF NoteDue
  <2> QED
    BY <2>1, <2>2
<1>12. OwnQueued(t)' = OwnQueued(t) /\ NoteQueued(t)' = NoteQueued(t)
  BY <1>1 DEF OwnQueued, NoteQueued
<1> QED
  BY <1>4, <1>10, <1>11, <1>12

-----------------------------------------------------------------------------
(* The balance *)

\* Nothing has been started.
LEMMA BalanceInit == Init => Balance
<1> SUFFICES ASSUME Init PROVE Balance
  OBVIOUS
<1>1. StartsOK
  BY DEF Init, StartsOK
<1>2. ASSUME NEW t \in Transfers PROVE Exact(t)
  <2>1. /\ t[1] \in Threads /\ t # None /\ Home[t[1]] \in Ranks /\ W(t).dst \in Ranks
    BY TransferPlace
  <2>2. events[t].loc = 0 /\ events[t].rmt = 0 /\ Posted(t) = 0 /\ NoteDue(t) = 0
    BY <2>1 DEF Init, Posted, NoteDue
  <2>3. OwnQueued(t) = 0 /\ NoteQueued(t) = 0
    BY <2>1, CountEmpty DEF Init, OwnQueued, NoteQueued
  <2>4. Completed(t) = 0 /\ Arrived(t) = 0
    BY <2>1, CountEmpty DEF Init, Completed, Arrived
  <2> QED
    BY <2>2, <2>3, <2>4 DEF Exact, LocExact, PutExact, GetExact
<1> QED
  BY <1>1, <1>2 DEF Balance

\* A step that keeps the tallies keeps the balance.
LEMMA ExactKept ==
    ASSUME NEW t \in Transfers, Exact(t), Posted(t)' = Posted(t), events' = events,
           Completed(t)' = Completed(t), Arrived(t)' = Arrived(t), OwnQueued(t)' = OwnQueued(t),
           NoteQueued(t)' = NoteQueued(t), NoteDue(t)' = NoteDue(t)
    PROVE  Exact(t)'
BY DEF Exact, LocExact, PutExact, GetExact

\* No step but those of a thread touches what Posted depends on.
LEMMA PostedFrame ==
    ASSUME NEW t, UNCHANGED appVars
    PROVE  Posted(t)' = Posted(t)
BY DEF appVars, Posted

\* Posting, executing, polling, handling and notifying keep the balance of t.
LEMMA ExactPostSend ==
    ASSUME VerbsInv, VerbsInv', StartsOK, NEW t \in Transfers, Exact(t),
           NEW th \in Threads, PostSend(th)
    PROVE  Exact(t)'
<1>1. PICK n \in {0, 1} : /\ OwnQueued(t)' = OwnQueued(t) + n /\ Posted(t)' = Posted(t) + n
                          /\ Notifies(W(t)) => NoteQueued(t)' = NoteQueued(t)
  BY PostSendTallies
<1>2. UNCHANGED <<cq, batch, note, events>>
  BY DEF PostSend, dmnVars
<1>3. Completed(t)' = Completed(t) /\ Arrived(t)' = Arrived(t) /\ NoteDue(t)' = NoteDue(t)
  BY <1>2 DEF Completed, Arrived, NoteDue
<1>4. /\ events[t].loc \in Nat /\ events[t].rmt \in Nat
      /\ OwnQueued(t) \in Nat /\ NoteQueued(t) \in Nat /\ NoteDue(t) \in {0, 1}
      /\ Completed(t) \in Nat /\ Arrived(t) \in Nat /\ Posted(t) \in Nat
  BY TallyTypes
<1>5. LocExact(t)'
  BY <1>1, <1>2, <1>3, <1>4 DEF Exact, LocExact
<1>6. PutExact(t)'
  BY <1>1, <1>2, <1>3, <1>4 DEF Exact, PutExact
<1>7. GetExact(t)'
  BY <1>1, <1>2, <1>3, <1>4 DEF Exact, GetExact
<1> QED
  BY <1>5, <1>6, <1>7 DEF Exact

LEMMA ExactNotify ==
    ASSUME VerbsInv, VerbsInv', NEW t \in Transfers, Exact(t), NEW p \in Ranks, Notify(p)
    PROVE  Exact(t)'
<1>1. /\ OwnQueued(t)' = OwnQueued(t) /\ NoteQueued(t)' + NoteDue(t)' = NoteQueued(t) + NoteDue(t)
      /\ NoteQueued(t)' \in Nat /\ NoteDue(t)' \in {0, 1}
  BY NotifyTallies
<1>2. UNCHANGED <<appVars, cq, batch, events>>
  BY DEF Notify
<1>3. Completed(t)' = Completed(t) /\ Arrived(t)' = Arrived(t) /\ Posted(t)' = Posted(t)
  BY <1>2, PostedFrame DEF Completed, Arrived
<1>4. /\ events[t].rmt \in Nat
      /\ OwnQueued(t) \in Nat /\ NoteQueued(t) \in Nat /\ NoteDue(t) \in {0, 1}
      /\ Completed(t) \in Nat /\ Arrived(t) \in Nat /\ Posted(t) \in Nat
  BY TallyTypes
<1>5. LocExact(t)' /\ PutExact(t)'
  BY <1>1, <1>2, <1>3 DEF Exact, LocExact, PutExact
<1>6. GetExact(t)'
  BY <1>1, <1>2, <1>3, <1>4 DEF Exact, GetExact
<1> QED
  BY <1>5, <1>6 DEF Exact

LEMMA ExactExecute ==
    ASSUME VerbsInv, err' = "no", NEW t \in Transfers, Exact(t),
           NEW a \in Ranks, NEW d \in Ranks, Execute(a, d)
    PROVE  Exact(t)'
<1>1. PICK n \in {0, 1}, m \in {0, 1} :
        /\ OwnQueued(t) = OwnQueued(t)' + n /\ NoteQueued(t) = NoteQueued(t)' + m
        /\ OwnQueued(t)' \in Nat /\ NoteQueued(t)' \in Nat
        /\ Completed(t)' = Completed(t) + n /\ Arrived(t)' = Arrived(t) + m
        /\ W(t).dma = "put" /\ W(t).rmt => n = m
  BY ExecuteTallies
<1>2. UNCHANGED <<appVars, note, events>>
  BY DEF Execute, dmnVars
<1>3. NoteDue(t)' = NoteDue(t) /\ Posted(t)' = Posted(t)
  BY <1>2, PostedFrame DEF NoteDue
<1>4. /\ events[t].loc \in Nat /\ events[t].rmt \in Nat /\ NoteDue(t) \in {0, 1}
      /\ Completed(t) \in Nat /\ Arrived(t) \in Nat /\ Posted(t) \in Nat
  BY TallyTypes
<1>5. LocExact(t)'
  BY <1>1, <1>2, <1>3, <1>4 DEF Exact, LocExact
<1>6. PutExact(t)'
  BY <1>1, <1>2, <1>3, <1>4 DEF Exact, PutExact
<1>7. GetExact(t)'
  BY <1>1, <1>2, <1>3, <1>4 DEF Exact, GetExact
<1> QED
  BY <1>5, <1>6, <1>7 DEF Exact

LEMMA ExactHandle ==
    ASSUME VerbsInv, NEW t \in Transfers, Exact(t), NEW p \in Ranks, Handle(p)
    PROVE  Exact(t)'
<1>1. PICK n \in {0, 1}, m \in {0, 1} :
        /\ Completed(t) = Completed(t)' + n /\ Arrived(t) = Arrived(t)' + m
        /\ Completed(t)' \in Nat /\ Arrived(t)' \in Nat
        /\ events'[t].loc = events[t].loc + (IF W(t).loc THEN n ELSE 0)
        /\ events'[t].rmt = events[t].rmt + m
        /\ Notifies(W(t)) => NoteDue(t)' = NoteDue(t) + n
        /\ OwnQueued(t)' = OwnQueued(t) /\ NoteQueued(t)' = NoteQueued(t)
  BY HandleTallies
<1>2. Posted(t)' = Posted(t)
  BY PostedFrame DEF Handle
<1>3. /\ events[t].loc \in Nat /\ events[t].rmt \in Nat
      /\ OwnQueued(t) \in Nat /\ NoteQueued(t) \in Nat /\ NoteDue(t) \in {0, 1}
      /\ Posted(t) \in Nat
  BY TallyTypes
<1>4. LocExact(t)'
  BY <1>1, <1>2, <1>3 DEF Exact, LocExact
<1>5. PutExact(t)'
  BY <1>1, <1>2, <1>3 DEF Exact, PutExact
<1>6. GetExact(t)'
  BY <1>1, <1>2, <1>3 DEF Exact, GetExact
<1> QED
  BY <1>4, <1>5, <1>6 DEF Exact

\* Every step keeps the balance, as long as the program runs.
LEMMA BalanceNext == VerbsInv /\ VerbsInv' /\ Balance /\ [Next]_vars => Balance'
<1> SUFFICES ASSUME VerbsInv, VerbsInv', Balance, [Next]_vars, NEW t \in Transfers, err' = "no"
             PROVE  Exact(t)'
  BY StartsOKNext DEF Balance
<1>1. err = "no"
  BY DEF Next, vars, PlanCreate, PlanStart, PlanDestroy, StartLock, PostSend, SpaceTimeout,
         CountSubmit, StartUnlock, Execute, Poll, Handle, Notify, Repost
<1>2. Exact(t) /\ StartsOK
  BY <1>1 DEF Balance
<1>3. CASE UNCHANGED vars
  <2>1. UNCHANGED <<appVars, sq, cq, batch, note, events>>
    BY <1>3 DEF vars, nicVars, dmnVars
  <2> QED
    BY <2>1, <1>2, SameTallies, PostedFrame, ExactKept
<1>4. ASSUME NEW th \in Threads, Unposted(th) PROVE Exact(t)'
  <2>1. UNCHANGED <<sq, cq, batch, note, events>>
    BY <1>4 DEF Unposted, PlanCreate, PlanStart, PlanDestroy, StartLock, SpaceTimeout, CountSubmit,
                StartUnlock, nicVars, dmnVars
  <2> QED
    BY <2>1, <1>2, <1>4, SameTallies, PostedKept, ExactKept
<1>5. ASSUME NEW p \in Ranks, Repost(p) PROVE Exact(t)'
  <2>1. UNCHANGED <<appVars, sq, cq, batch, note, events>>
    BY <1>5 DEF Repost
  <2> QED
    BY <2>1, <1>2, SameTallies, PostedFrame, ExactKept
<1>6. ASSUME NEW p \in Ranks, Poll(p) PROVE Exact(t)'
  <2>1. UNCHANGED <<appVars, events>>
    BY <1>6 DEF Poll
  <2> QED
    BY <2>1, <1>2, <1>6, PollTallies, PostedFrame, ExactKept
<1> QED
  BY <1>2, <1>3, <1>4, <1>5, <1>6, ExactPostSend, ExactNotify, ExactExecute, ExactHandle
     DEF Next, Unposted

\* What has been started is in exactly one place: queued, completed, due as a
\* notification, or turned into its event.
THEOREM NothingLostOrDoubled == Spec => []Balance
BY BalanceInit, BalanceNext, VerbsInvariant, PTL DEF Spec

\* No owner of a buffer has been signalled more often for a GET than the
\* reader has: the notification is posted only after the completion of the
\* GET (uri_verbs_event_progress, uri_verbs_send_rmt_complete).
THEOREM ToldOnlyAfterRead == Spec => []ToldAfterRead
<1>1. Init => ToldAfterRead
  BY TransferType DEF Init, ToldAfterRead
<1>2. VerbsInv /\ Balance /\ err = "no" => ToldAfterRead
  <2> SUFFICES ASSUME VerbsInv, Balance, err = "no", NEW t \in Transfers, Notifies(W(t)), W(t).loc
               PROVE  events[t].rmt <= events[t].loc
    BY DEF ToldAfterRead
  <2>1. LocExact(t) /\ GetExact(t)
    BY DEF Balance, Exact
  <2>2. /\ events[t].loc \in Nat /\ events[t].rmt \in Nat
        /\ OwnQueued(t) \in Nat /\ NoteQueued(t) \in Nat /\ NoteDue(t) \in {0, 1}
        /\ Completed(t) \in Nat /\ Arrived(t) \in Nat /\ Posted(t) \in Nat
    BY TallyTypes
  <2> QED
    BY <2>1, <2>2 DEF LocExact, GetExact
<1>3. VerbsInv /\ VerbsInv' /\ [Next]_vars => err' = "no" \/ events' = events
  <2> SUFFICES ASSUME [Next]_vars, err' # "no", VerbsInv' PROVE events' = events
    OBVIOUS
  <2>1. CASE UNCHANGED vars
    BY <2>1 DEF vars, dmnVars
  <2>2. ASSUME NEW p \in Ranks PROVE ~Handle(p)
    BY DEF Handle
  <2>3. CASE Next
    BY <2>2, <2>3 DEF Next, PlanCreate, PlanStart, PlanDestroy, StartLock, PostSend, SpaceTimeout,
              CountSubmit, StartUnlock, Execute, Poll, Notify, Repost, dmnVars
  <2> QED
    BY <2>1, <2>3
<1>4. (VerbsInv /\ Balance /\ err = "no" => ToldAfterRead)'
  BY <1>2, PTL
<1>5. VerbsInv /\ VerbsInv' /\ Balance' /\ ToldAfterRead /\ [Next]_vars => ToldAfterRead'
  BY <1>3, <1>4 DEF ToldAfterRead
<1> QED
  BY <1>1, <1>5, NothingLostOrDoubled, VerbsInvariant, PTL DEF Spec

-----------------------------------------------------------------------------
(* The channel implements Transfer *)

\* what the variables of Transfer stand for
Started == [t \in Transfers |-> starts[t[1]]]
Moved   == [t \in Transfers |-> Posted(t) - Queued(t)]
Told    == [e \in Ends |-> events[e[1]][e[2]]]

\* A step that starts the plan of th moves and signals nothing.
Starts(th) ==
    /\ starts' = [starts EXCEPT ![th] = @ + 1] /\ events' = events
    /\ \A t \in Transfers : Posted(t)' = Posted(t) /\ OwnQueued(t)' = OwnQueued(t)

\* The data of t moves when its request leaves the queue pair.
Moves(t) ==
    /\ starts' = starts /\ events' = events
    /\ \A u \in Transfers : Posted(u)' = Posted(u)
    /\ \A u \in Transfers : OwnQueued(u) = OwnQueued(u)' + (IF u = t THEN 1 ELSE 0)
                            /\ OwnQueued(u)' \in Nat

\* The end e has an event that is due.
Fires(e) ==
    /\ starts' = starts
    /\ \A d \in Ends : Told'[d] = IF d = e THEN Told[d] + 1 ELSE Told[d]
    /\ \A t \in Transfers : Posted(t)' = Posted(t) /\ OwnQueued(t)' = OwnQueued(t)
    /\ Told[e] < IF e \in RecvEnds THEN Posted(e[1]) - OwnQueued(e[1]) ELSE starts[e[1][1]]

\* Nothing that Transfer speaks of changes.
Rests ==
    /\ starts' = starts /\ events' = events
    /\ \A t \in Transfers : Posted(t)' - OwnQueued(t)' = Posted(t) - OwnQueued(t)

\* The requests of a transfer in a queue, as Queued and as Count count them.
LEMMA OwnIsCount ==
    ASSUME NEW s \in Seq(WorkRequest), NEW t
    PROVE  Cardinality({i \in DOMAIN s : s[i].wrid = t /\ s[i].op = Opcode(W(t))})
             = Count(s, OwnWR(t))
<1>1. DOMAIN s = 1 .. Len(s) /\ \A i \in 1 .. Len(s) : s[i] \in WorkRequest
  OBVIOUS
<1>2. \A x : x \in OwnWR(t) <=> x \in WorkRequest /\ x.wrid = t /\ x.op = Opcode(W(t))
  BY DEF OwnWR
<1> HIDE DEF OwnWR
<1>3. {i \in DOMAIN s : s[i].wrid = t /\ s[i].op = Opcode(W(t))} = Places(s, OwnWR(t))
  BY <1>1, <1>2 DEF Places
<1> QED
  BY <1>3 DEF Count

LEMMA QueuedIs == VerbsInv => \A t \in Transfers : Queued(t) = OwnQueued(t)
<1> SUFFICES ASSUME VerbsInv, NEW t \in Transfers
             PROVE  Queued(t) = OwnQueued(t)
  OBVIOUS
<1>1. sq[Home[t[1]]][W(t).dst] \in Seq(WorkRequest)
  <2>1. Home[t[1]] \in Ranks /\ W(t).dst \in Ranks
    BY TransferPlace
  <2>2. sq \in [Ranks -> [Ranks -> Seq(WorkRequest)]]
    BY DEF VerbsInv, TypeOK
  <2> QED
    BY <2>1, <2>2
<1> QED
  BY <1>1, OwnIsCount, ZenonT(30) DEF Queued, OwnQueued

\* Each step is one of these four.
LEMMA ThreadEffect ==
    ASSUME VerbsInv, VerbsInv', StartsOK, NEW th \in Threads, Unposted(th) \/ PostSend(th)
    PROVE  Starts(th) \/ Rests
<1>1. CASE Unposted(th)
  <2>1. UNCHANGED <<sq, cq, batch, note, events>>
    BY <1>1 DEF Unposted, PlanCreate, PlanStart, PlanDestroy, StartLock, SpaceTimeout, CountSubmit,
                StartUnlock, nicVars, dmnVars
  <2>2. \A t \in Transfers : Posted(t)' = Posted(t) /\ OwnQueued(t)' = OwnQueued(t)
    BY <2>1, <1>1, SameTallies, PostedKept
  <2>3. starts' = starts \/ starts' = [starts EXCEPT ![th] = @ + 1]
    <3>1. PlanCreate(th) => starts[th] = 0
      BY DEF PlanCreate, StartsOK
    <3> QED
      BY <3>1, <1>1 DEF Unposted, PlanCreate, PlanStart, PlanDestroy, StartLock, SpaceTimeout,
                        CountSubmit, StartUnlock, appVars
  <2> QED
    BY <2>1, <2>2, <2>3 DEF Starts, Rests
<1>2. CASE PostSend(th)
  <2>1. starts' = starts /\ events' = events
    BY <1>2 DEF PostSend, dmnVars
  <2>2. ASSUME NEW t \in Transfers
        PROVE  Posted(t)' - OwnQueued(t)' = Posted(t) - OwnQueued(t)
    <3>1. PICK n \in {0, 1} : OwnQueued(t)' = OwnQueued(t) + n /\ Posted(t)' = Posted(t) + n
      BY <1>2, PostSendTallies
    <3>2. OwnQueued(t) \in Nat /\ Posted(t) \in Nat
      BY TallyTypes
    <3> QED
      BY <3>1, <3>2
  <2> QED
    BY <2>1, <2>2 DEF Rests
<1> QED
  BY <1>1, <1>2

\* The ends of a transfer.
LEMMA EndType ==
    ASSUME NEW e \in Ends
    PROVE  /\ e[1] \in Transfers /\ e = <<e[1], e[2]>>
           /\ (e[2] = "loc" /\ W(e[1]).loc) \/ (e[2] = "rmt" /\ W(e[1]).rmt)
BY DEF Ends

\* An event of one end is no event of another.
LEMMA RmtEvent ==
    ASSUME VerbsInv, NEW t \in Transfers, events' = [events EXCEPT ![t].rmt = @ + 1], NEW d \in Ends
    PROVE  Told'[d] = IF d = <<t, "rmt">> THEN Told[d] + 1 ELSE Told[d]
<1> SUFFICES ASSUME NEW u, NEW h, u = d[1], h = d[2]
             PROVE  Told'[d] = IF d = <<t, "rmt">> THEN Told[d] + 1 ELSE Told[d]
  OBVIOUS
<1>1. u \in Transfers /\ d = <<u, h>> /\ h \in {"loc", "rmt"}
  BY EndType
<1>2. events \in [Transfers -> [loc : Nat, rmt : Nat]] /\ events[u] \in [loc : Nat, rmt : Nat]
  BY <1>1 DEF VerbsInv, TypeOK
<1>3. Told[d] = events[u][h] /\ Told'[d] = events'[u][h]
  BY DEF Told
<1>4. /\ events'[u].loc = events[u].loc
      /\ events'[u].rmt = events[u].rmt + (IF u = t THEN 1 ELSE 0)
  <2>1. events'[u] = IF u = t THEN [events[u] EXCEPT !.rmt = @ + 1] ELSE events[u]
    BY <1>1, <1>2
  <2> QED
    BY <2>1, <1>2
<1>5. CASE h = "loc"
  BY <1>1, <1>2, <1>3, <1>4, <1>5
<1>6. CASE h = "rmt"
  BY <1>1, <1>2, <1>3, <1>4, <1>6
<1> QED
  BY <1>1, <1>5, <1>6

LEMMA LocEvent ==
    ASSUME VerbsInv, NEW t \in Transfers, events' = [events EXCEPT ![t].loc = @ + 1], NEW d \in Ends
    PROVE  Told'[d] = IF d = <<t, "loc">> THEN Told[d] + 1 ELSE Told[d]
<1> SUFFICES ASSUME NEW u, NEW h, u = d[1], h = d[2]
             PROVE  Told'[d] = IF d = <<t, "loc">> THEN Told[d] + 1 ELSE Told[d]
  OBVIOUS
<1>1. u \in Transfers /\ d = <<u, h>> /\ h \in {"loc", "rmt"}
  BY EndType
<1>2. events \in [Transfers -> [loc : Nat, rmt : Nat]] /\ events[u] \in [loc : Nat, rmt : Nat]
  BY <1>1 DEF VerbsInv, TypeOK
<1>3. Told[d] = events[u][h] /\ Told'[d] = events'[u][h]
  BY DEF Told
<1>4. /\ events'[u].rmt = events[u].rmt
      /\ events'[u].loc = events[u].loc + (IF u = t THEN 1 ELSE 0)
  <2>1. events'[u] = IF u = t THEN [events[u] EXCEPT !.loc = @ + 1] ELSE events[u]
    BY <1>1, <1>2
  <2> QED
    BY <2>1, <1>2
<1>5. CASE h = "loc"
  BY <1>1, <1>2, <1>3, <1>4, <1>5
<1>6. CASE h = "rmt"
  BY <1>1, <1>2, <1>3, <1>4, <1>6
<1> QED
  BY <1>1, <1>5, <1>6

LEMMA ExecuteEffects ==
    ASSUME VerbsInv, NEW a \in Ranks, NEW d \in Ranks, Execute(a, d)
    PROVE  Rests \/ \E t \in Transfers : Moves(t)
<1> SUFFICES ASSUME NEW t, t = Head(sq[a][d]).wrid
             PROVE  Rests \/ \E u \in Transfers : Moves(u)
  OBVIOUS
<1>1. UNCHANGED <<appVars, events>> /\ starts' = starts
  BY DEF Execute, dmnVars, appVars
<1>2. \A u \in Transfers : Posted(u)' = Posted(u)
  BY <1>1, PostedFrame
<1>3. ASSUME NEW u \in Transfers
      PROVE  /\ OwnQueued(u) = OwnQueued(u)' + (IF u = t THEN 1 ELSE 0)
             /\ OwnQueued(u)' \in Nat
  BY ExecuteTallies
<1>4. CASE t \in Transfers
  BY <1>1, <1>2, <1>3, <1>4 DEF Moves
<1>5. CASE t \notin Transfers
  <2>1. \A u \in Transfers : OwnQueued(u)' = OwnQueued(u)
    BY <1>3, <1>5
  <2> QED
    BY <2>1, <1>1, <1>2 DEF Rests
<1> QED
  BY <1>4, <1>5

LEMMA HandleEffects ==
    ASSUME VerbsInv, Balance, NEW p \in Ranks, Handle(p)
    PROVE  Rests \/ \E e \in Ends : Fires(e)
<1> SUFFICES ASSUME NEW c, c = Head(batch[p]), NEW t, t = c.t
             PROVE  Rests \/ \E e \in Ends : Fires(e)
  OBVIOUS
<1>1. UNCHANGED <<appVars, sq>> /\ starts' = starts /\ batch[p] # <<>> /\ Progress(c) /\ err = "no"
  BY DEF Handle, appVars, nicVars
<1>2. \A u \in Transfers : Posted(u)' = Posted(u) /\ OwnQueued(u)' = OwnQueued(u)
  BY <1>1, PostedFrame DEF OwnQueued
<1>3. c \in Completion /\ c \in Comps(p)
  <2>1. batch[p] \in Seq(Completion) /\ batch[p] \in Seq(Comps(p))
    BY DEF VerbsInv, TypeOK, ElementsOK
  <2> QED
    BY <1>1, <2>1, TailType
<1>4. CASE events' = events
  BY <1>1, <1>2, <1>4 DEF Rests
<1>5. ASSUME t \in Transfers
      PROVE  /\ Exact(t) /\ W(t) \in Wrt
             /\ c.kind # "recv" => Completed(t) >= 1
             /\ c.kind = "recv" => Arrived(t) >= 1
  <2>1. PICK n \in {0, 1}, m \in {0, 1} :
          /\ Completed(t) = Completed(t)' + n /\ Arrived(t) = Arrived(t)' + m
          /\ Completed(t)' \in Nat /\ Arrived(t)' \in Nat
          /\ n = One(c, SentC(t)) /\ m = One(c, NoteC(t))
    BY <1>5, HandleTallies
  <2>2. c.kind # "recv" => n = 1
    BY <2>1, <1>3 DEF One, SentC
  <2>3. c.kind = "recv" => m = 1
    BY <2>1, <1>3 DEF One, NoteC
  <2>4. Exact(t) /\ W(t) \in Wrt
    BY <1>1, <1>5, TransferPlace DEF Balance
  <2> QED
    BY <2>1, <2>2, <2>3, <2>4
<1>6. ASSUME t \in Transfers
      PROVE  /\ events[t].loc \in Nat /\ events[t].rmt \in Nat
             /\ OwnQueued(t) \in Nat /\ NoteQueued(t) \in Nat /\ NoteDue(t) \in {0, 1}
             /\ Completed(t) \in Nat /\ Arrived(t) \in Nat
             /\ starts[t[1]] \in Nat /\ Posted(t) \in Nat /\ Posted(t) <= starts[t[1]]
  BY <1>6, TallyTypes
<1>7. CASE c.kind = "recv"
  <2>1. t \in Transfers /\ W(t).rmt /\ events' = [events EXCEPT ![t].rmt = @ + 1]
    BY <1>1, <1>3, <1>7 DEF Progress, Comps, Completion
  <2>2. /\ <<t, "rmt">> \in Ends /\ (<<t, "rmt">> \in RecvEnds <=> W(t).dma # "get")
        /\ Told[<<t, "rmt">>] = events[t].rmt
        /\ \A d \in Ends : Told'[d] = IF d = <<t, "rmt">> THEN Told[d] + 1 ELSE Told[d]
    BY <2>1, RmtEvent DEF Ends, RecvEnds, Told
  <2>3. CASE W(t).dma = "get"
    <3>1. events[t].rmt < starts[t[1]]
      BY <2>1, <2>3, <1>5, <1>6, <1>7 DEF Exact, GetExact, Notifies
    <3>2. Fires(<<t, "rmt">>)
      BY <3>1, <2>2, <2>3, <1>1, <1>2 DEF Fires
    <3> QED
      BY <3>2, <2>2
  <2>4. CASE W(t).dma # "get"
    <3>1. W(t).dma = "put"
      BY <2>1, <2>4, <1>5 DEF Wrt
    <3>2. events[t].rmt < Posted(t) - OwnQueued(t)
      BY <3>1, <2>1, <1>5, <1>6, <1>7 DEF Exact, PutExact
    <3>3. Fires(<<t, "rmt">>)
      BY <3>2, <2>2, <2>4, <1>1, <1>2 DEF Fires
    <3> QED
      BY <3>3, <2>2
  <2> QED
    BY <2>3, <2>4
<1>8. CASE c.kind # "recv" /\ events' # events
  <2>1. t \in Transfers /\ W(t).loc /\ events' = [events EXCEPT ![t].loc = @ + 1]
    BY <1>1, <1>3, <1>8 DEF Progress, Completion
  <2>2. /\ <<t, "loc">> \in Ends
        /\ Told[<<t, "loc">>] = events[t].loc
        /\ \A d \in Ends : Told'[d] = IF d = <<t, "loc">> THEN Told[d] + 1 ELSE Told[d]
    BY <2>1, LocEvent DEF Ends, Told
  <2>3. events[t].loc < Posted(t) - OwnQueued(t)
    BY <2>1, <1>5, <1>6, <1>8 DEF Exact, LocExact
  <2>4. events[t].loc < starts[t[1]]
    BY <2>1, <2>3, <1>6
  <2>5. Fires(<<t, "loc">>)
    BY <2>2, <2>3, <2>4, <1>1, <1>2 DEF Fires
  <2> QED
    BY <2>2, <2>5
<1> QED
  BY <1>4, <1>7, <1>8

LEMMA StepEffect ==
    ASSUME VerbsInv, VerbsInv', Balance, [Next]_vars
    PROVE  \/ Rests
           \/ \E th \in Threads : Starts(th)
           \/ \E t \in Transfers : Moves(t)
           \/ \E e \in Ends : Fires(e)
<1>1. CASE UNCHANGED vars
  <2>1. UNCHANGED <<appVars, sq, cq, batch, note, events>> /\ starts' = starts
    BY <1>1 DEF vars, nicVars, dmnVars, appVars
  <2> QED
    BY <2>1, SameTallies, PostedFrame DEF Rests
<1>2. ASSUME NEW p \in Ranks, Poll(p) \/ Notify(p) \/ Repost(p) PROVE Rests
  <2>1. UNCHANGED <<appVars, events>> /\ starts' = starts
    BY <1>2 DEF Poll, Notify, Repost, appVars
  <2>2. ASSUME NEW t \in Transfers PROVE OwnQueued(t)' = OwnQueued(t)
    <3>1. CASE Repost(p)
      BY <3>1 DEF Repost, OwnQueued
    <3> QED
      BY <3>1, <1>2, PollTallies, NotifyTallies
  <2> QED
    BY <2>1, <2>2, PostedFrame DEF Rests
<1>3. StartsOK
  BY DEF Balance
<1> QED
  BY <1>1, <1>2, <1>3, ThreadEffect, ExecuteEffects, HandleEffects DEF Next, Unposted

\* What Moved says of a transfer.
MovedRight ==
    \A t \in Transfers :
        /\ Moved[t] = Posted(t) - OwnQueued(t) /\ OwnQueued(t) \in Nat
        /\ Started[t] = starts[t[1]] /\ starts[t[1]] \in Nat
        /\ Posted(t) \in Nat /\ Posted(t) <= starts[t[1]]

LEMMA MovedIs == VerbsInv => MovedRight
BY QueuedIs, TallyTypes DEF MovedRight, Moved, Started

\* The start of a plan is a Start of its transfers.
LEMMA StartsMaps ==
    ASSUME VerbsInv, MovedRight, MovedRight', NEW th \in Threads, Starts(th)
    PROVE  Contract!Start({t \in Transfers : t[1] = th})
<1> DEFINE T == {t \in Transfers : t[1] = th}
<1>1. Started' = Contract!More(Started, T)
  <2>1. starts \in [Threads -> 0 .. MaxStart]
    BY DEF VerbsInv, TypeOK
  <2>2. ASSUME NEW t \in Transfers
        PROVE  starts'[t[1]] = IF t \in T THEN starts[t[1]] + 1 ELSE starts[t[1]]
    BY <2>1, TransferPlace DEF Starts
  <2> HIDE DEF T
  <2> QED
    BY <2>2 DEF Started, Contract!More
<1>2. ASSUME NEW t \in Transfers PROVE Moved'[t] = Moved[t]
  BY DEF Starts, MovedRight
<1>3. Moved' = Moved
  BY <1>2 DEF Moved
<1>4. Told' = Told
  BY DEF Told, Starts
<1> QED
  BY <1>1, <1>3, <1>4 DEF Contract!Start, Started, Moved, Told

\* The execution of a request is a Move of its transfer.
LEMMA MovesMaps ==
    ASSUME MovedRight, MovedRight', NEW t \in Transfers, Moves(t)
    PROVE  Contract!Move({t})
<1>1. ASSUME NEW u \in Transfers
      PROVE  Moved'[u] = IF u = t THEN Moved[u] + 1 ELSE Moved[u]
  <2>1. /\ OwnQueued(u) = OwnQueued(u)' + (IF u = t THEN 1 ELSE 0)
        /\ OwnQueued(u)' \in Nat /\ Posted(u)' = Posted(u) /\ Posted(u) \in Nat
        /\ Moved[u] = Posted(u) - OwnQueued(u) /\ Moved'[u] = Posted(u)' - OwnQueued(u)'
    BY DEF Moves, MovedRight
  <2> QED
    BY <2>1
<1>2. Moved[t] < Started[t]
  BY DEF Moves, MovedRight
<1>3. Moved' = Contract!More(Moved, {t})
  BY <1>1 DEF Moved, Contract!More
<1>4. Started' = Started /\ Told' = Told
  BY DEF Moves, Started, Told
<1> QED
  BY <1>2, <1>3, <1>4 DEF Contract!Move, Started, Moved, Told

\* An event is a Fire of its end.
LEMMA FiresMaps ==
    ASSUME MovedRight, MovedRight', NEW e \in Ends, Fires(e)
    PROVE  Contract!Fire(e)
<1>1. e[1] \in Transfers
  BY EndType
<1>2. Told[e] < IF e \in RecvEnds THEN Moved[e[1]] ELSE Started[e[1]]
  BY <1>1 DEF Fires, MovedRight
<1>3. Told' = Contract!More(Told, {e})
  <2>1. ASSUME NEW d \in Ends PROVE Told'[d] = IF d = e THEN Told[d] + 1 ELSE Told[d]
    BY DEF Fires
  <2> QED
    BY <2>1 DEF Told, Contract!More
<1>4. Started' = Started
  BY DEF Fires, Started
<1>5. Moved' = Moved
  <2>1. ASSUME NEW t \in Transfers PROVE Moved'[t] = Moved[t]
    BY DEF Fires, MovedRight
  <2> QED
    BY <2>1 DEF Moved
<1> QED
  BY <1>2, <1>3, <1>4, <1>5 DEF Contract!Fire, Contract!Due, Started, Moved, Told

\* Every other step stutters.
LEMMA RestsMaps ==
    ASSUME MovedRight, MovedRight', Rests
    PROVE  UNCHANGED <<Started, Moved, Told>>
<1>1. Started' = Started /\ Told' = Told
  BY DEF Rests, Started, Told
<1>2. ASSUME NEW t \in Transfers PROVE Moved'[t] = Moved[t]
  BY DEF Rests, MovedRight
<1>3. Moved' = Moved
  BY <1>2 DEF Moved
<1> QED
  BY <1>1, <1>3

LEMMA InitMaps == Init => Contract!Init
<1> SUFFICES ASSUME Init PROVE Contract!Init
  OBVIOUS
<1>1. MovedRight
  BY VerbsInit, MovedIs
<1>2. ASSUME NEW t \in Transfers PROVE Started[t] = 0 /\ Moved[t] = 0
  <2>1. starts[t[1]] = 0
    BY TransferPlace DEF Init
  <2>2. OwnQueued(t) = 0
    BY TransferPlace, CountEmpty DEF Init, OwnQueued
  <2> QED
    BY <2>1, <2>2, <1>1 DEF MovedRight
<1>3. ASSUME NEW e \in Ends PROVE Told[e] = 0
  BY EndType DEF Init, Told
<1>4. /\ Started = [t \in Transfers |-> 0]
      /\ Moved = [t \in Transfers |-> 0]
      /\ Told = [e \in Ends |-> 0]
  BY <1>2, <1>3 DEF Started, Moved, Told
<1> QED
  BY <1>4 DEF Contract!Init, Started, Moved, Told

LEMMA StepMaps ==
    ASSUME VerbsInv, VerbsInv', Balance, MovedRight, MovedRight', [Next]_vars
    PROVE  [Contract!Next]_(Contract!vars)
<1>1. ASSUME NEW th \in Threads, Starts(th) PROVE Contract!Next
  <2>1. {t \in Transfers : t[1] = th} \in SUBSET Transfers
    OBVIOUS
  <2> QED
    BY <1>1, <2>1, StartsMaps DEF Contract!Next
<1>2. ASSUME NEW t \in Transfers, Moves(t) PROVE Contract!Next
  <2>1. {t} \in SUBSET Transfers
    OBVIOUS
  <2> QED
    BY <1>2, <2>1, MovesMaps DEF Contract!Next
<1>3. ASSUME NEW e \in Ends, Fires(e) PROVE Contract!Next
  BY <1>3, FiresMaps DEF Contract!Next
<1>4. CASE Rests
  BY <1>4, RestsMaps DEF Contract!vars, Started, Moved, Told
<1> QED
  BY <1>1, <1>2, <1>3, <1>4, StepEffect

\* The verbs channel moves the data of every start at most once, tells the
\* receiving end only when the data is there, and tells no end more often than
\* it was started: uri_verbs_rdma_plan_start is a Start of all its transfers,
\* the execution of a request by the interface is a Move, and
\* uri_verbs_event_progress is a Fire.
THEOREM VerbsImplementsTransfer == Spec => ImplementsTransfer
<1>1. VerbsInv => MovedRight
  BY MovedIs
<1>2. VerbsInv /\ VerbsInv' /\ Balance /\ MovedRight /\ MovedRight' /\ [Next]_vars
        => [Contract!Next]_(Contract!vars)
  BY StepMaps
<1>3. Init => Contract!Init
  BY InitMaps
<1> QED
  BY <1>1, <1>2, <1>3, VerbsInvariant, NothingLostOrDoubled, PTL
     DEF Spec, ImplementsTransfer, Contract!Safety
================================================================================
