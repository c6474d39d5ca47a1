------------------------------- MODULE UnrPlan -------------------------------
(***************************************************************************)
(* Memory registration, its collective synchronisation, and the plans of   *)
(* the application (unr/base/unr_mem.c and unr_blk.c). A rank knows the    *)
(* memories of the others as of its last unr_mem_reg_sync. A plan that     *)
(* names a memory it does not know yet is kept as a copy of its arguments  *)
(* and built when it is started. Memories are numbered from 0 in the order *)
(* of registration; a memory is the pair of its rank and its number.       *)
(***************************************************************************)
EXTENDS UnrDivide, SequencesExt

CONSTANTS
    NumRanks,  \* ranks are 0 .. NumRanks - 1
    Node,      \* the node of a rank
    Plans,
    Owner,     \* the rank that creates a plan
    Args,      \* Args[p]: arguments the owner may pass for plan p
    MaxMem,    \* bound: memories a rank registers
    MaxSync,   \* bound: calls of unr_mem_reg_sync
    MaxStart,  \* bound: starts of a plan
    NoSig      \* UNR_NO_SIGNAL and a NULL flag

Ranks == 0 .. NumRanks - 1

\* What a call is given: one send or more, between blocks of any memories. A
\* build with assertions ends a call that moves whole blocks of different sizes
\* (unr_blk.c:286); others go on with the local size, so it is not asked for.
Block(b) == b.rank \in Ranks /\ b.mem \in Nat /\ b.offset \in Nat /\ b.size \in Nat
Arguments(a) ==
    /\ a.part \in BOOLEAN /\ a.sends \in Seq(Range(a.sends)) /\ a.sends # <<>>
    /\ \A i \in DOMAIN a.sends : LET s == a.sends[i] IN
         /\ Block(s.loc) /\ Block(s.rmt)
         /\ a.part => s.size \in Nat /\ s.locOff \in Nat /\ s.rmtOff \in Nat

ASSUME PlanAssumption ==
    /\ NumRanks \in Nat \ {0} /\ Owner \in [Plans -> Ranks]
    /\ Node \in [Ranks -> Nat]
    /\ \A p \in Plans : \A a \in Args[p] : Arguments(a)
    /\ MaxMem \in Nat /\ MaxSync \in Nat /\ MaxStart \in Nat \ {0}

VARIABLES
    memLen,    \* loc_mem_arr_len
    sent,      \* sent[r][k]: the length r contributed to its k-th sync
    inSync,    \* the rank is inside unr_mem_reg_sync
    rmtMem,    \* rmt_mem_arr: memories of each rank, as of the last sync
    status,    \* "none", "deferred" (1), "ready" (2) or "gone"
    arr,       \* the caller's arrays of a plan, which it may overwrite
    para,      \* the copy of the arguments of a deferred plan
    uri,       \* the writes of a plan, per channel
    starts,    \* how often the plan was started
    given,     \* history: the arguments at the time of the call
    halted     \* the rank has exited with "You should call unr_mem_reg_sync()"

memVars == <<memLen, sent, inSync, rmtMem>>
planVars == <<status, arr, para, uri, starts, given>>
vars == <<memVars, planVars, halted>>

-----------------------------------------------------------------------------
(* Channels of a plan: the inter-node ones first *)

Side(r, q) == IF Node[r] = Node[q] THEN "intra" ELSE "inter"
Ids == 0 .. NumChannels["inter"] + NumChannels["intra"] - 1
Id(side, j) == IF side = "intra" THEN j + NumChannels["inter"] ELSE j
NoWrites == [id \in Ids |-> <<>>]

Init ==
    /\ memLen = [r \in Ranks |-> 0] /\ sent = [r \in Ranks |-> <<>>]
    /\ inSync = [r \in Ranks |-> FALSE]
    /\ rmtMem = [r \in Ranks |-> [q \in Ranks |-> <<>>]]
    /\ status = [p \in Plans |-> "none"]
    /\ arr = [p \in Plans |-> <<>>] /\ para = [p \in Plans |-> <<>>]
    /\ uri = [p \in Plans |-> NoWrites] /\ starts = [p \in Plans |-> 0]
    /\ given = [p \in Plans |-> <<>>]
    /\ halted = [r \in Ranks |-> FALSE]

\* The application of r runs: one thread, and not inside a collective call.
Running(r) == ~inSync[r] /\ ~halted[r]

-----------------------------------------------------------------------------
(* Memory *)

\* unr_mem_reg
MemReg(r) ==
    /\ Running(r) /\ memLen[r] < MaxMem
    /\ memLen' = [memLen EXCEPT ![r] = @ + 1]
    /\ UNCHANGED <<sent, inSync, rmtMem, planVars, halted>>

\* unr_mem_reg_sync: the collective calls send the length and the handles ...
SyncEnter(r) ==
    /\ Running(r) /\ Len(sent[r]) < MaxSync
    /\ sent' = [sent EXCEPT ![r] = Append(@, memLen[r])]
    /\ inSync' = [inSync EXCEPT ![r] = TRUE]
    /\ UNCHANGED <<memLen, rmtMem, planVars, halted>>

\* Displs when the lengths are not added
DisplsFlat(k) == [q \in Ranks |-> 0]

\* where the handles of a rank begin in recv_buf
Displs(k) ==
    LET displs[q \in Ranks] == IF q = 0 THEN 0 ELSE displs[q - 1] + sent[q - 1][k]
    IN  displs

\* recv_buf after the k-th MPI_Allgatherv: every rank's handles, by rank
RecvBuf(k) ==
    FlattenSeq([i \in 1 .. NumRanks |-> [j \in 1 .. sent[i - 1][k] |-> <<i - 1, j - 1>>]])

\* ... and return when all ranks have sent. A rank may leave, register more
\* memory and enter the next call before another one has left this one.
SyncExit(r) ==
    LET k == Len(sent[r]) IN
    /\ inSync[r] /\ \A q \in Ranks : Len(sent[q]) >= k
    /\ rmtMem' = [rmtMem EXCEPT ![r] =
                    [q \in Ranks |-> [j \in 1 .. sent[q][k] |-> RecvBuf(k)[Displs(k)[q] + j]]]]
    /\ inSync' = [inSync EXCEPT ![r] = FALSE]
    /\ UNCHANGED <<memLen, sent, planVars, halted>>

-----------------------------------------------------------------------------
(* Building a plan *)

\* unr_blk_reg: a block of a registered memory, with the signals that trigger
\* when it is sent and when it is received
Blk(r, mem, offset, size, send, recv) ==
    [rank |-> r, mem |-> mem, offset |-> offset, size |-> size, send |-> send, recv |-> recv]

\* The size and offsets of the i-th send: those of a "part" call, or the whole
\* block (size_arr and the offset arrays are NULL).
SizeOf(a, i) == IF a.part THEN a.sends[i].size ELSE a.sends[i].loc.size
LocBase(a, i) == a.sends[i].loc.offset + (IF a.part THEN a.sends[i].locOff ELSE 0)
RmtBase(a, i) == a.sends[i].rmt.offset + (IF a.part THEN a.sends[i].rmtOff ELSE 0)

\* LocFlag when the direction is not looked at
LocFlagSend(s) == IF s.locSig # NoSig THEN s.locSig ELSE s.loc.send

\* the signal of the local half: the one given, or the one of the block
LocFlag(s) == IF s.locSig # NoSig THEN s.locSig
              ELSE IF s.dma = "put" THEN s.loc.send ELSE s.loc.recv
RmtFlag(s) == IF s.rmtSig # NoSig THEN s.rmtSig
              ELSE IF s.dma = "put" THEN s.rmt.recv ELSE s.rmt.send

\* the parts of the i-th send when the rotation of its side stands at c, and
\* the write of the part of channel j
SideOf(r, a, i) == Side(r, a.sends[i].rmt.rank)
Parts(r, a, i, c) == DivSize(SideOf(r, a, i), SizeOf(a, i), c)
Write(r, a, i, c, j) ==
    LET s == a.sends[i]
        parts == Parts(r, a, i, c)
    IN  [send |-> i, dma |-> s.dma, size |-> parts[j],
         loc |-> <<r, s.loc.mem>>, rmt |-> rmtMem[r][s.rmt.rank][s.rmt.mem + 1],
         locOff |-> LocBase(a, i) + DivOffset(parts)[j],
         rmtOff |-> RmtBase(a, i) + DivOffset(parts)[j],
         locFlag |-> LocFlag(s), rmtFlag |-> RmtFlag(s), add |-> SigAddArr(parts)[j]]

\* the parts that are not empty are appended to the writes of their channels
AddSend(r, a, acc, i) ==
    LET side == SideOf(r, a, i)
        c == acc.next[side]
        used == Used(Parts(r, a, i, c))
    IN  IF SizeOf(a, i) = 0 THEN acc
        ELSE [next |-> [acc.next EXCEPT ![side] = NextChannel(side, SizeOf(a, i), c)],
              uri |-> [id \in Ids |->
                         IF \E j \in used : Id(side, j) = id
                         THEN Append(acc.uri[id],
                                     Write(r, a, i, c, CHOOSE j \in used : Id(side, j) = id))
                         ELSE acc.uri[id]]]

\* the loop over the sends
Build(r, a) ==
    LET after[i \in 0 .. Len(a.sends)] ==
            IF i = 0 THEN [next |-> [side \in Sides |-> 0], uri |-> NoWrites]
            ELSE AddSend(r, a, after[i - 1], i)
    IN  after[Len(a.sends)].uri

Known(r, b) == b.mem < Len(rmtMem[r][b.rank])

\* Synced off by one
SyncedStrict(r, a) ==
    \A i \in DOMAIN a.sends : a.sends[i].rmt.mem + 1 < Len(rmtMem[r][a.sends[i].rmt.rank])

\* mem_synced: asked of all sends
Synced(r, a) == \A i \in DOMAIN a.sends : Known(r, a.sends[i].rmt)

\* asked again while building, of the sends that are not empty
Buildable(r, a) ==
    \A i \in DOMAIN a.sends : SizeOf(a, i) > 0 => Known(r, a.sends[i].rmt)

\* The application has the handles of blocks of registered memories only.
Registered(r, a) ==
    \A i \in DOMAIN a.sends : /\ a.sends[i].loc.mem < memLen[r]
                              /\ a.sends[i].rmt.mem < memLen[a.sends[i].rmt.rank]

-----------------------------------------------------------------------------
(* The calls of the application *)

\* unr_blk_rdma_start and its variants: once_now
RdmaStart(p, a) ==
    LET r == Owner[p] IN
    /\ Running(r) /\ status[p] = "none" /\ Registered(r, a)
    /\ given' = [given EXCEPT ![p] = a] /\ arr' = [arr EXCEPT ![p] = a]
    /\ IF Synced(r, a)
       THEN /\ uri' = [uri EXCEPT ![p] = Build(r, a)]
            /\ starts' = [starts EXCEPT ![p] = 1]
            /\ status' = [status EXCEPT ![p] = "gone"]
            /\ UNCHANGED halted
       ELSE /\ halted' = [halted EXCEPT ![r] = TRUE]
            /\ UNCHANGED <<uri, starts, status>>
    /\ UNCHANGED <<memVars, para>>

\* unr_blk_rdma_plan and its variants
RdmaPlan(p, a) ==
    LET r == Owner[p] IN
    /\ Running(r) /\ status[p] = "none" /\ Registered(r, a)
    /\ given' = [given EXCEPT ![p] = a] /\ arr' = [arr EXCEPT ![p] = a]
    /\ IF Synced(r, a)
       THEN /\ uri' = [uri EXCEPT ![p] = Build(r, a)]
            /\ status' = [status EXCEPT ![p] = "ready"]
            /\ UNCHANGED para
       ELSE /\ para' = [para EXCEPT ![p] = a]
            /\ status' = [status EXCEPT ![p] = "deferred"]
            /\ UNCHANGED uri
    /\ UNCHANGED <<memVars, starts, halted>>

\* The caller uses its arrays again.
Overwrite(p, a) ==
    /\ Running(Owner[p]) /\ status[p] # "none" /\ a # arr[p]
    /\ arr' = [arr EXCEPT ![p] = a]
    /\ UNCHANGED <<memVars, status, para, uri, starts, given, halted>>

\* KeptArgs when the pointers are kept, not the contents
KeptArgsByReference(p) == arr[p]

\* the arguments a deferred plan is built from
KeptArgs(p) == para[p]

\* unr_plan_start
PlanStart(p) ==
    LET r == Owner[p] IN
    /\ Running(r) /\ status[p] \in {"deferred", "ready"} /\ starts[p] < MaxStart
    /\ IF status[p] = "deferred"
       THEN IF Buildable(r, KeptArgs(p))
            THEN /\ uri' = [uri EXCEPT ![p] = Build(r, KeptArgs(p))]
                 /\ para' = [para EXCEPT ![p] = <<>>]
                 /\ status' = [status EXCEPT ![p] = "ready"]
                 /\ starts' = [starts EXCEPT ![p] = @ + 1]
                 /\ UNCHANGED halted
            ELSE /\ halted' = [halted EXCEPT ![r] = TRUE]
                 /\ UNCHANGED <<uri, para, status, starts>>
       ELSE /\ starts' = [starts EXCEPT ![p] = @ + 1]
            /\ UNCHANGED <<uri, para, status, halted>>
    /\ UNCHANGED <<memVars, arr, given>>

\* unr_plan_destroy; the copy of a deferred plan is not freed
PlanDestroy(p) ==
    /\ Running(Owner[p]) /\ status[p] \in {"deferred", "ready"}
    /\ status' = [status EXCEPT ![p] = "gone"]
    /\ UNCHANGED <<memVars, arr, para, uri, starts, given, halted>>

Next ==
    \/ \E r \in Ranks : MemReg(r) \/ SyncEnter(r) \/ SyncExit(r)
    \/ \E p \in Plans :
         \/ \E a \in Args[p] : RdmaStart(p, a) \/ RdmaPlan(p, a) \/ Overwrite(p, a)
         \/ PlanStart(p) \/ PlanDestroy(p)

Spec == Init /\ [][Next]_vars

-----------------------------------------------------------------------------
(* Properties *)

TypeOK ==
    /\ memLen \in [Ranks -> 0 .. MaxMem]
    /\ sent \in [Ranks -> Seq(0 .. MaxMem)] /\ inSync \in [Ranks -> BOOLEAN]
    /\ rmtMem \in [Ranks -> [Ranks -> Seq(Ranks \X (0 .. MaxMem - 1))]]
    /\ status \in [Plans -> {"none", "deferred", "ready", "gone"}]
    /\ DOMAIN uri = Plans /\ starts \in [Plans -> 0 .. MaxStart]
    /\ halted \in [Ranks -> BOOLEAN]

\* Syncs that rank r has come out of.
Done(r) == IF inSync[r] THEN Len(sent[r]) - 1 ELSE Len(sent[r])

\* A rank's list of another rank's memories is a beginning of that rank's own
\* list, as long as it was when that rank made the same call of
\* unr_mem_reg_sync, wherever each of the ranks is by now.
HandlesInOrder ==
    \A r, q \in Ranks :
        /\ rmtMem[r][q] = [j \in 1 .. Len(rmtMem[r][q]) |-> <<q, j - 1>>]
        /\ Len(rmtMem[r][q]) = IF Done(r) = 0 THEN 0 ELSE sent[q][Done(r)]

Writes(p) == UNION {{<<id, k>> : k \in DOMAIN uri[p][id]} : id \in Ids}
Wr(p, x) == uri[p][x[1]][x[2]]
Built(p) == status[p] = "ready" \/ starts[p] > 0
Bytes(p, i) == 0 .. SizeOf(given[p], i) - 1

\* A plan that is executed does what was asked in the call that created it,
\* deferred or not, and whatever the caller has done with its arrays since:
\* each byte of each send travels once, between the memories of its blocks.
AsAsked ==
    \A p \in Plans : Built(p) =>
      LET a == given[p] IN
      /\ \A i \in DOMAIN a.sends : \A b \in Bytes(p, i) :
           Cardinality({x \in Writes(p) :
               LET w == Wr(p, x) IN
               /\ w.send = i /\ w.dma = a.sends[i].dma
               /\ w.loc = <<Owner[p], a.sends[i].loc.mem>>
               /\ w.rmt = <<a.sends[i].rmt.rank, a.sends[i].rmt.mem>>
               /\ b + LocBase(a, i) \in w.locOff .. w.locOff + w.size - 1
               /\ b + RmtBase(a, i) \in w.rmtOff .. w.rmtOff + w.size - 1}) = 1
      /\ SumOf([x \in Writes(p) |-> Wr(p, x).size], Writes(p))
           = SumOf([i \in DOMAIN a.sends |-> SizeOf(a, i)], DOMAIN a.sends)

Full(p) == {i \in DOMAIN given[p].sends : SizeOf(given[p], i) > 0}

\* what channel j of the side of the i-th send got of it
Share(p, i, j) ==
    LET id == Id(SideOf(Owner[p], given[p], i), j)
    IN  {uri[p][id][k] : k \in {l \in DOMAIN uri[p][id] : uri[p][id][l].send = i}}

\* Whatever the sends before it in the plan were, a send is divided into
\* parts of a block or more that load the channels evenly, and the increments
\* of which, applied in any order, are one event at the end and not before.
PlanDivided ==
    \A p \in Plans : Built(p) => \A i \in Full(p) :
      LET side == SideOf(Owner[p], given[p], i)
          size == [w \in UNION {Share(p, i, j) : j \in Channels(side)} |-> w.size]
          add == [w \in UNION {Share(p, i, j) : j \in Channels(side)} |-> w.add]
      IN  Exact(side, SizeOf(given[p], i),
                [j \in Channels(side) |-> SumOf(size, Share(p, i, j))],
                [j \in Channels(side) |-> SumOf(add, Share(p, i, j))])

\* the signal that the arguments ask for on the half of the sender of the
\* data, and on that of its receiver
SourceSig(s) == IF s.dma = "put" THEN IF s.locSig # NoSig THEN s.locSig ELSE s.loc.send
                                 ELSE IF s.rmtSig # NoSig THEN s.rmtSig ELSE s.rmt.send
TargetSig(s) == IF s.dma = "put" THEN IF s.rmtSig # NoSig THEN s.rmtSig ELSE s.rmt.recv
                                 ELSE IF s.locSig # NoSig THEN s.locSig ELSE s.loc.recv

\* One start decrements every signal by the number of non-empty sends whose
\* data leaves the block it watches, or arrives there: no high word is left
\* over by the parts, and the direction of a send picks the signal.
EventsDue ==
    \A p \in Plans : Built(p) =>
      LET ss == given[p].sends
          add == [x \in Writes(p) |-> Wr(p, x).add]
      IN  \A g \in UNION {{SourceSig(ss[i]), TargetSig(ss[i])} : i \in DOMAIN ss} :
            SumOf(add, {x \in Writes(p) : Wr(p, x).locFlag = g})
              + SumOf(add, {x \in Writes(p) : Wr(p, x).rmtFlag = g})
              = -(Cardinality({i \in Full(p) : SourceSig(ss[i]) = g})
                  + Cardinality({i \in Full(p) : TargetSig(ss[i]) = g}))

\* A rank exits only if it uses a block whose memory was not registered when
\* the rank's last completed sync was called by the block's owner.
ExitsUnsyncedOnly ==
    \A r \in Ranks : halted[r] =>
      \E p \in Plans : /\ Owner[p] = r /\ status[p] \in {"none", "deferred"}
                       /\ \E i \in DOMAIN given[p].sends :
                            LET b == given[p].sends[i].rmt IN
                            Done(r) = 0 \/ b.mem >= sent[b.rank][Done(r)]
=============================================================================
